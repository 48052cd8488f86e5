--------------------------- MODULE X86Handwritten ---------------------------
(***************************************************************************)
(* The hand-written x86 decoder on the encodings it shares with the        *)
(* generated one, in 64-bit mode: EVEX map 4 (decode_apx_evex and          *)
(* decode_user_msr_evex in src/src/x86/x86_decoder.c), map 6 opcode 56,    *)
(* the VEX gathers and REX2 map 1 opcode FF.  It says UNSUPPORTED to hand  *)
(* an encoding to the generated decoder.  Operands and names are left out. *)
(* Opcodes 60, 61 and F0..F2 of map 4 have decoders of their own.          *)
(***************************************************************************)
EXTENDS X86Generated

\* decoder_require, a byte at a time.
OneByOne(bytes, at, count) ==
  IF at + count <= Min({Len(bytes), MaxInstructionSize}) THEN "OK"
  ELSE IF Len(bytes) < MaxInstructionSize THEN "TRUNCATED" ELSE "INVALID"

Accept(length) == [status |-> "OK", length |-> length]
Refuse(status) == [status |-> status, length |-> 0]

\* A complete instruction of the extra opcodes, which the build may lack
\* ("extra" is USE_EXTRA_OPCODES).  The mutant forgets the build.
Optional_Always(length, extra) == Accept(length)

Optional(length, extra) == IF extra THEN Accept(length) ELSE Refuse("UNSUPPORTED")

-----------------------------------------------------------------------------
(* The fields of an EVEX instruction at "at".  "next" is the byte after    *)
(* the opcode, None when the caller has not given it yet: the decoder      *)
(* looks at it without reading it.                                         *)

None == -1

EvexOf(bytes, at) ==
  LET p1 == bytes[at + 2]
      p2 == bytes[at + 3]
  IN  [p0 |-> bytes[at + 1], map |-> bytes[at + 1] % 8, w |-> Bit(p1, 7), u |-> Bit(p1, 2), pp |-> p1 % 4,
       nd |-> Bit(p2, 4), nf |-> Bit(p2, 2), p2 |-> p2,
       low |-> 15 - ((p1 \div 8) % 16), destination |-> 15 - ((p1 \div 8) % 16) + 16 * Inverted(p2, 3),
       opcode |-> bytes[at + 4], end |-> at + 4,
       next |-> IF at + 4 < Len(bytes) THEN bytes[at + 5] ELSE None]

PeeksRegister(e) == e.next # None /\ ~InMemory(e.next)

PeeksReg(e, regs) == e.next # None /\ Reg(e.next) \in regs

Condition == \h40..\h4F

-----------------------------------------------------------------------------
(* decode_apx_evex: what it hands on before it looks at the fields.        *)

\* CCMP and CTEST; the opcodes they share are told by the reg of a ModRM byte.
IsScc(e) ==
  \/ e.opcode \in \h38..\h3B
  \/ e.opcode \in \h84..\h8F /\ e.nd = 0
  \/ /\ e.p2 < 16
     /\ \/ e.opcode \in {\h80, \h81, \h83} /\ PeeksReg(e, {7})
        \/ e.opcode \in {\hF6, \hF7} /\ PeeksReg(e, {0, 1})

IsStackPair(e) ==
  /\ e.w = 1 /\ e.u = 1 /\ e.p2 \in {\h10, \h18}
  /\ \/ e.opcode = \h8F /\ PeeksReg(e, {0})
     \/ e.opcode = \hFF /\ PeeksReg(e, {6})

IsCmov(e) == e.opcode \in Condition /\ e.pp < 2
IsSet(e) == e.opcode \in Condition /\ e.pp = 3

\* CFCMOV shares CMOV's opcodes.  A build without the extra opcodes hands on
\* all of them that the caller would get from the plainest P0.
IsCfcmov(e, extra) == IsCmov(e) /\ (e.nd = 0 \/ e.nf = 1 \/ (~extra /\ e.p0 = \hF4))

HandedOver(e, extra) ==
  \/ e.opcode = \hF8 /\ e.pp > 1
  \/ e.opcode = \h66 /\ e.pp \in {0, 3}
  \/ IsScc(e) \/ IsStackPair(e) \/ IsCfcmov(e, extra)

-----------------------------------------------------------------------------
(* The rows it decodes itself ("form" in the code).                        *)

AluNf == {8 * row + form : row \in {0, 1, 4, 5, 6}, form \in 0..3}
AluCarry == {8 * row + form : row \in {2, 3}, form \in 0..3}
ByteShift == {\hC0, \hD0, \hD2}
Shift == ByteShift \cup {\hC1, \hD1, \hD3}
DoubleShift == {\h24, \h2C, \hA5, \hAD}
Rows == AluNf \cup AluCarry \cup Shift \cup DoubleShift
        \cup {\h69, \h6B, \h80, \h81, \h83, \h8F, \hAF, \hF6, \hF7, \hF8, \hF9, \hFE, \hFF}

\* The operand size is fixed to a byte.
FixedByte(e) == e.w # 0 \/ e.pp # 0

\* A destination is named though there is none.
StrayDestination(e) == e.nd = 0 /\ e.destination # 0

Illegal(e) ==
  CASE e.opcode = \hFC -> e.low # 0 \/ e.p2 # \h08
    [] e.opcode = \h66 -> e.u = 0 \/ e.p2 \notin {\h08, \h10} \/ (e.nd = 0 /\ e.low # 0)
    [] IsCmov(e) -> e.p2 \notin {\h10, \h18}
    [] IsSet(e) -> e.low # 0 \/ e.p2 \notin {\h08, \h18}
    [] OTHER -> (e.u = 0 /\ PeeksRegister(e)) \/ e.pp > 1 \/ (e.p2 \div 32) # 0 \/ e.p2 % 4 # 0

IllegalRow(e) ==
  CASE e.opcode \in AluNf \cup AluCarry ->
         \/ e.nf = 1 /\ e.opcode \in AluCarry
         \/ StrayDestination(e) \/ (e.opcode % 2 = 0 /\ FixedByte(e))
    [] e.opcode = \h8F -> e.nd = 0 \/ e.w # 0 \/ e.nf # 0 \/ e.pp # 0
    [] e.opcode \in {\hF6, \hF7} -> StrayDestination(e) \/ (e.opcode = \hF6 /\ FixedByte(e))
    [] e.opcode = \hAF -> StrayDestination(e)
    [] e.opcode \in {\h69, \h6B} -> e.destination # 0
    [] e.opcode \in {\hF8, \hF9} ->
         e.nd = 1 \/ e.nf = 1 \/ e.destination # 0 \/ e.pp # (IF e.opcode = \hF8 THEN 1 ELSE 0)
    [] OTHER -> FALSE

\* What the ModRM byte makes illegal.
IllegalOperand(e, modrm) ==
  LET reg == Reg(modrm)
  IN  CASE e.opcode = \hFC -> ~InMemory(modrm)
        [] IsCmov(e) \/ IsSet(e) -> e.u = 0 /\ ~InMemory(modrm)
        [] e.opcode = \h8F -> InMemory(modrm) \/ reg # 0
        [] e.opcode \in {\hF8, \hF9} -> ~InMemory(modrm)
        [] e.opcode \in {\hFE, \hFF} ->
             IF e.opcode = \hFF /\ reg = 6
             THEN e.nd = 0 \/ e.w # 0 \/ e.nf # 0 \/ e.pp # 0 \/ InMemory(modrm)
             ELSE reg > 1 \/ StrayDestination(e) \/ (e.opcode = \hFE /\ FixedByte(e))
        [] e.opcode \in {\h80, \h81, \h83} ->
             \/ reg = 7 \/ (e.nf = 1 /\ reg \in {2, 3})
             \/ StrayDestination(e) \/ (e.opcode = \h80 /\ FixedByte(e))
        [] e.opcode \in Shift ->
             \/ e.nf = 1 /\ reg \in {2, 3}
             \/ StrayDestination(e) \/ (e.opcode \in ByteShift /\ FixedByte(e))
        [] e.opcode \in DoubleShift -> StrayDestination(e)
        [] e.opcode \in {\hF6, \hF7} ->
             reg < 2 \/ (reg = 2 /\ e.nf = 1) \/ (reg > 3 /\ e.nd = 1)
        [] OTHER -> FALSE

\* Mutant: the operand-size prefix is forgotten.
ImmediateBytes_Fixed(e) ==
  CASE e.opcode \in {\h6B, \h80, \h83, \hC0, \hC1, \h24, \h2C} -> 1
    [] e.opcode \in {\h69, \h81} -> 4
    [] OTHER -> 0

ImmediateBytes(e) ==
  CASE e.opcode \in {\h6B, \h80, \h83, \hC0, \hC1, \h24, \h2C} -> 1
    [] e.opcode \in {\h69, \h81} -> IF e.w = 0 /\ e.pp = 1 THEN 2 ELSE 4
    [] OTHER -> 0

\* The operand, then what it makes illegal, then the immediate.
\* "count" is the size of the immediate.
Complete(bytes, e, operand, count, extra) ==
  IF operand.status # "OK" THEN Refuse(operand.status)
  ELSE IF IllegalOperand(e, operand.modrm) THEN Refuse("INVALID")
  ELSE IF RequireAt(bytes, operand.end, count) # "OK"
  THEN Refuse(RequireAt(bytes, operand.end, count))
  ELSE Optional(operand.end + count, extra)

\* The instructions with legality checks of their own, which have no row.
Rowless(e) == e.opcode \in {\hFC, \h66} \/ IsCmov(e) \/ IsSet(e)

ApxEvex(bytes, e, operand, extra) ==
  IF HandedOver(e, extra) THEN Refuse("UNSUPPORTED")
  ELSE IF Illegal(e) THEN Refuse("INVALID")
  ELSE IF ~Rowless(e) /\ e.opcode \notin Rows THEN Refuse("UNSUPPORTED")
  ELSE IF ~Rowless(e) /\ IllegalRow(e) THEN Refuse("INVALID")
  ELSE Complete(bytes, e, operand, ImmediateBytes(e), extra)

\* decode_user_msr_evex, for the register forms of map 4: asked before.
IsUserMsr(e) == e.opcode = \hF8 /\ e.pp > 1 /\ (e.next = None \/ ~InMemory(e.next))

\* Mutant: the immediate of the form in map 7 is counted.
UserMsr_Immediate(e, operand, extra) ==
  IF e.next = None THEN Refuse("TRUNCATED")
  ELSE IF e.low # 0 \/ e.w = 1 \/ e.u = 0 \/ e.p2 # \h08 THEN Refuse("INVALID")
  ELSE IF operand.status = "OK" THEN Optional(operand.end + 4, extra) ELSE Refuse(operand.status)

UserMsr(e, operand, extra) ==
  IF e.next = None THEN Refuse("TRUNCATED")
  ELSE IF e.low # 0 \/ e.w = 1 \/ e.u = 0 \/ e.p2 # \h08 THEN Refuse("INVALID")
  ELSE IF operand.status = "OK" THEN Optional(operand.end, extra) ELSE Refuse(operand.status)

-----------------------------------------------------------------------------
(* The other encodings.                                                    *)

\* decode_evex: no lock, repeat or operand-size prefix goes before it, nor any
\* REX, not even one that a later prefix cancels.
Barred(bytes, n) == \E i \in 1..n : bytes[i] \in {\hF0, \hF2, \hF3, \h66} \cup (\h40..\h4F)

EvexMap(bytes, e, operand, extra) ==
  IF e.map # 4 THEN Refuse(IF e.map = 6 /\ e.u = 1 THEN "UNSUPPORTED" ELSE "INVALID")
  ELSE IF IsUserMsr(e) THEN UserMsr(e, operand, extra)
  ELSE ApxEvex(bytes, e, operand, extra)

Evex(bytes, n, bits, extra) ==
  LET read == OneByOne(bytes, n + 1, 4)
  IN  IF read # "OK" THEN Refuse(read)
      ELSE IF Barred(bytes, n) THEN Refuse("INVALID")
      ELSE EvexMap(bytes, EvexOf(bytes, n + 1), ModrmAt(bytes, n + 5, bits), extra)

\* decode_vex3 and decode_vex_extra on VGATHER.
Gather(bytes, n) ==
  LET read == OneByOne(bytes, n + 1, 3)
  IN  IF read # "OK" THEN Refuse(read)
      ELSE IF Barred(bytes, n) THEN Refuse("INVALID") ELSE Refuse("UNSUPPORTED")

\* decode_rex2_primary on opcode FF of map 1; a REX in front is refused.
Rex2Ud0(bytes, n) ==
  LET read == OneByOne(bytes, n + 1, 2)
  IN  IF n > 0 /\ IsRex(bytes[n], 64) THEN Refuse("INVALID")
      ELSE IF read # "OK" THEN Refuse(read) ELSE Refuse("UNSUPPORTED")

\* The first n bytes are the prefixes.
HandAt(bytes, n, extra) ==
  IF RequireAt(bytes, n, 1) # "OK" THEN Refuse(RequireAt(bytes, n, 1))
  ELSE IF bytes[n + 1] = \h62
  THEN Evex(bytes, n, AddressBits(64, \E i \in 1..n : bytes[i] = \h67), extra)
  ELSE IF bytes[n + 1] = \hC4 THEN Gather(bytes, n)
  ELSE Rex2Ud0(bytes, n)

Hand(bytes, extra) == HandAt(bytes, PrefixBytes(bytes, 64), extra)

=============================================================================
