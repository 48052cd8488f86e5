----------------------------- MODULE X86Opcodes -----------------------------
(***************************************************************************)
(* The shapes of the one-byte x86 opcodes: which of them take a ModRM      *)
(* byte, a SIB byte, a displacement and immediates, which are refused, and *)
(* which are handed on (src/src/x86/x86_decoder.c, decode_primary and the  *)
(* handlers it calls, and the maps in x86_opcode_tables.h).  The operands  *)
(* and names they build are left out.  The processor is CPU_X86, which has *)
(* every capability, in a build with the extra opcodes.                    *)
(***************************************************************************)
EXTENDS Integers, Sequences

Byte == 0..255
Modes == {16, 32, 64}

Mod(modrm) == modrm \div 64
Reg(modrm) == (modrm \div 8) % 8
Rm(modrm) == modrm % 8
InMemory(modrm) == Mod(modrm) # 3

-----------------------------------------------------------------------------
(* Prefixes.                                                               *)

Segments == {\h26, \h2E, \h36, \h3E, \h64, \h65}
Legacy == Segments \cup {\hF0, \hF2, \hF3, \h66, \h67}
Fwait == \h9B

IsRex(b, mode) == mode = 64 /\ b \in \h40..\h4F
IsRex2(b, mode) == mode = 64 /\ b = \hD5
RexW(rex) == (rex \div 8) % 2 = 1

OperandBits(mode, override, rex) ==
  IF mode = 64 /\ RexW(rex) THEN 64
  ELSE IF (mode = 16) # override THEN 16 ELSE 32

AddressBits(mode, override) ==
  CASE mode = 16 -> IF override THEN 32 ELSE 16
    [] mode = 32 -> IF override THEN 16 ELSE 32
    [] OTHER -> IF override THEN 32 ELSE 64

-----------------------------------------------------------------------------
(* Opcodes.                                                                *)

AluRows == {8 * row : row \in 0..7}
Alu(form) == {row + form : row \in AluRows}
Group1 == \h80..\h83
X87 == \hD8..\hDF

\* The two-byte map, EVEX and the two VEX forms have decoders of their own.
HandedOn == {\h0F, \h62, \hC4, \hC5}

\* In 64-bit mode what 32-bit mode does with these bytes is refused.
RefusedIn64 ==
  {\h06, \h07, \h0E, \h16, \h17, \h1E, \h1F, \h27, \h2F, \h37, \h3F, \h60,
   \h61, \h82, \h9A, \hCE, \hD4, \hEA}

Refused(op, mode) == mode = 64 /\ op \in RefusedIn64

TakesModrm(op) ==
  \/ op \in Alu(0) \cup Alu(1) \cup Alu(2) \cup Alu(3)
  \/ op \in Group1 \cup (\h84..\h8F) \cup X87 \cup (\hD0..\hD3)
  \/ op \in {\h63, \h69, \h6B, \hC0, \hC1, \hC6, \hC7, \hF6, \hF7, \hFE, \hFF}

\* What a handler says of a ModRM byte once the address behind it is read.
Verdict(op, modrm, lock) ==
  CASE op \in {\h8C, \h8E} /\ (Reg(modrm) > 5 \/ (op = \h8E /\ Reg(modrm) = 1))
         -> "INVALID"
    [] op = \h8D /\ ~InMemory(modrm) -> "INVALID"
    [] op = \h8F /\ Reg(modrm) # 0 -> "UNSUPPORTED"
    [] op \in {\hC6, \hC7} /\ modrm = \hF8 /\ lock -> "INVALID"
    [] op \in {\hC6, \hC7} /\ modrm # \hF8 /\ Reg(modrm) # 0 -> "INVALID"
    [] op = \hFE /\ Reg(modrm) > 1 -> "INVALID"
    [] op = \hFF /\ Reg(modrm) \in {3, 5} -> "UNSUPPORTED"
    [] op = \hFF /\ Reg(modrm) = 7 -> "INVALID"
    [] OTHER -> "OK"

\* lock_allowed: a memory destination that is read and written.
Lockable(op, modrm) ==
  /\ InMemory(modrm)
  /\ \/ op \in (Alu(0) \cup Alu(1)) \ {\h38, \h39}
     \/ op \in Group1 /\ Reg(modrm) # 7
     \/ op \in {\h86, \h87}
     \/ op \in {\hF6, \hF7} /\ Reg(modrm) \in {2, 3}
     \/ op \in {\hFE, \hFF} /\ Reg(modrm) \in {0, 1}

TakesLock(op, modrm) == TakesModrm(op) /\ Lockable(op, modrm)

-----------------------------------------------------------------------------
(* x87 escapes.                                                            *)

X87Reserved ==
  {<<\hD9, 1>>, <<\hDB, 4>>, <<\hDB, 6>>, <<\hDD, 5>>}

X87Registers(op) ==
  CASE op \in {\hD8, \hDC} -> \hC0..\hFF
    [] op = \hD9 -> (\hC0..\hD0) \cup (\hD8..\hE1) \cup {\hE4, \hE5}
                    \cup (\hE8..\hEE) \cup (\hF0..\hFF)
    [] op = \hDA -> (\hC0..\hDF) \cup {\hE9}
    [] op = \hDB -> (\hC0..\hE4) \cup (\hE8..\hF7)
    [] op = \hDD -> (\hC0..\hDF) \cup (\hE0..\hEF)
    [] op = \hDE -> (\hC0..\hD7) \cup {\hD9} \cup (\hE0..\hFF)
    [] op = \hDF -> (\hC0..\hE0) \cup (\hE8..\hF7)

\* x87_descriptor_for_bytes
X87Known(op, modrm) ==
  IF InMemory(modrm) THEN <<op, Reg(modrm)>> \notin X87Reserved
  ELSE modrm \in X87Registers(op)

\* The descriptors with a wait_name_id: FSTENV, FSTCW, FSAVE, FSTSW and the
\* control instructions that have a no-wait form.
X87Waits(op, modrm) ==
  /\ X87Known(op, modrm)
  /\ IF InMemory(modrm)
     THEN <<op, Reg(modrm)>> \in {<<\hD9, 6>>, <<\hD9, 7>>, <<\hDD, 6>>, <<\hDD, 7>>}
     ELSE \/ op = \hDB /\ modrm \in \hE0..\hE4
          \/ op = \hDF /\ modrm = \hE0

-----------------------------------------------------------------------------
(* What follows the opcode.                                                *)

TakesSib(modrm, addressBits) ==
  InMemory(modrm) /\ addressBits # 16 /\ Rm(modrm) = 4

\* The displacement bytes decode_modrm reads.
AddressBytes(modrm, sib, addressBits) ==
  LET wide == IF addressBits = 16 THEN 2 ELSE 4
      absolute == IF addressBits = 16 THEN Rm(modrm) = 6
                  ELSE IF Rm(modrm) = 4 THEN sib % 8 = 5
                  ELSE Rm(modrm) = 5
  IN  CASE Mod(modrm) = 0 -> IF absolute THEN wide ELSE 0
        [] Mod(modrm) = 1 -> 1
        [] Mod(modrm) = 2 -> wide
        [] OTHER -> 0

Moffs == \hA0..\hA3

DisplacementBytes(op, modrm, sib, addressBits) ==
  IF op \in Moffs THEN addressBits \div 8
  ELSE IF TakesModrm(op) THEN AddressBytes(modrm, sib, addressBits)
  ELSE 0

ByteImmediate ==
  Alu(4) \cup (\h70..\h7F) \cup (\hB0..\hB7) \cup (\hE0..\hE7)
  \cup {\h6A, \h6B, \h80, \h82, \h83, \hA8, \hC0, \hC1, \hC6, \hCD, \hD4, \hD5,
        \hEB}

\* The immediates of the operand size, of which 64 bits encode four bytes.
SizedImmediate == Alu(5) \cup {\h69, \h81, \hA9, \hC7}

PushBytes(mode, override, operandBits) ==
  IF mode = 64 THEN IF override THEN 2 ELSE 4 ELSE operandBits \div 8

\* The sizes of the immediates, in the order in which they are read.
Immediates(op, modrm, mode, override, operandBits) ==
  LET sized == IF operandBits = 64 THEN 4 ELSE operandBits \div 8
  IN  CASE op \in ByteImmediate -> <<1>>
        [] op \in SizedImmediate -> <<sized>>
        [] op = \hF6 /\ Reg(modrm) <= 1 -> <<1>>
        [] op = \hF7 /\ Reg(modrm) <= 1 -> <<sized>>
        [] op = \h68 -> <<PushBytes(mode, override, operandBits)>>
        [] op \in \hB8..\hBF -> <<operandBits \div 8>>
        [] op \in {\hE8, \hE9} -> <<IF mode = 64 THEN 4 ELSE sized>>
        [] op \in {\h9A, \hEA} -> <<operandBits \div 8, 2>>
        [] op \in {\hC2, \hCA} -> <<2>>
        [] op = \hC8 -> <<2, 1>>
        [] OTHER -> <<>>

=============================================================================
