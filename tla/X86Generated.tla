---------------------------- MODULE X86Generated ----------------------------
(***************************************************************************)
(* The generated x86 decoder (x86_gen_decode_impl and what it calls in     *)
(* src/src/x86/x86_generated_decoder.c): from the bytes a caller has, the  *)
(* selected decode bits and the available ones, the status and the length  *)
(* of the instruction.  The operands it builds are left out but for the    *)
(* one restriction on them that the rows modelled have.                    *)
(***************************************************************************)
EXTENDS X86Descriptors, X86Opcodes, FiniteSetsExt

CONSTANT MaxInstructionSize   \* CDISASM_MAX_INSTRUCTION_SIZE

ASSUME SizeAssumption == MaxInstructionSize \in Nat \ {0}

Bit(byte, i) == (byte \div 2^i) % 2
Inverted(byte, i) == 1 - Bit(byte, i)

\* Mutant: the end of the buffer is noticed before the limit is.
RequireAt_TruncatedFirst(bytes, at, count) ==
  IF at + count > Len(bytes) THEN "TRUNCATED"
  ELSE IF at + count > MaxInstructionSize THEN "INVALID" ELSE "OK"

\* x86_gen_require
RequireAt(bytes, at, count) ==
  IF at + count > MaxInstructionSize THEN "INVALID"
  ELSE IF at + count > Len(bytes) THEN "TRUNCATED" ELSE "OK"

Refusal(status) == [status |-> status]

\* What is found once "count" bytes are there.
Needing(status, found) == IF status # "OK" THEN Refusal(status) ELSE found

-----------------------------------------------------------------------------
(* x86_gen_parse_prefixes: the bytes before the opcode.  A REX counts only *)
(* in front of it, and a REX2 ends the prefixes.                           *)

PrefixBytes(bytes, mode) ==
  Max({n \in 0..Len(bytes) :
         \A i \in 1..n : bytes[i] \in Legacy \/ IsRex(bytes[i], mode)})

\* The first n bytes are the prefixes.
LegacyOpening(bytes, n, mode) ==
  LET has(byte) == \E i \in 1..n : bytes[i] = byte
      repeats == {i \in 1..n : bytes[i] \in {\hF2, \hF3}}
      rexPresent == n > 0 /\ IsRex(bytes[n], mode)
  IN  [status |-> RequireAt(bytes, n, 1), at |-> n,
       lock |-> has(\hF0), operand |-> has(\h66), address |-> has(\h67),
       repeat |-> IF repeats = {} THEN 0 ELSE bytes[Max(repeats)] % 16,
       rexPresent |-> rexPresent, rex |-> IF rexPresent THEN bytes[n] % 16 ELSE 0,
       rex2 |-> FALSE, high |-> 0]

\* A REX2 behind them.
WithRex2(bytes, p, mode) ==
  IF p.status # "OK" \/ ~IsRex2(bytes[p.at + 1], mode) THEN p
  ELSE IF p.rexPresent THEN Refusal("INVALID")
  ELSE Needing(RequireAt(bytes, p.at, 2),
               [p EXCEPT !.at = @ + 2, !.rex2 = TRUE, !.rex = bytes[p.at + 2] % 16,
                         !.high = bytes[p.at + 2] \div 16])

Opening(bytes, mode) ==
  WithRex2(bytes, LegacyOpening(bytes, PrefixBytes(bytes, mode), mode), mode)

AddressSize(p, mode) == AddressBits(mode, p.address)

-----------------------------------------------------------------------------
(* x86_gen_parse_opcode: the space, the map, the opcode and the fields the *)
(* predicates of the rows look at.                                         *)

FieldNames ==
  {"EASZ", "REP", "OSZ", "ASZ", "LOCK", "REXW", "REX2", "REXR", "REXR4", "REXB",
   "REXB4", "VEX_PREFIX", "VL", "UBIT", "BCRC", "ZEROING", "MASK", "ND", "NF",
   "VEXDEST3", "VEXDEST210", "VEXDEST4"}

AsBit(condition) == IF condition THEN 1 ELSE 0

\* x86_gen_vex_prefix_value: F3 and F2 change places.
VexPrefix(pp) == CASE pp = 2 -> 3 [] pp = 3 -> 2 [] OTHER -> pp

PrefixFields(p, mode) ==
  [f \in FieldNames |->
     CASE f = "EASZ" -> CASE AddressSize(p, mode) = 16 -> 1
                          [] AddressSize(p, mode) = 32 -> 2
                          [] OTHER -> 3
       [] f = "REP" -> p.repeat
       [] f = "OSZ" -> AsBit(p.operand)
       [] f = "ASZ" -> AsBit(p.address)
       [] f = "LOCK" -> AsBit(p.lock)
       [] f = "REXW" -> Bit(p.rex, 3)
       [] f = "REXR" -> Bit(p.rex, 2)
       [] f = "REXB" -> Bit(p.rex, 0)
       [] f = "REX2" -> AsBit(p.rex2)
       [] f = "REXR4" -> Bit(p.high, 2)
       [] f = "REXB4" -> Bit(p.high, 0)
       [] OTHER -> 0]

VectorSize(lead) == CASE lead = \hC5 -> 3 [] lead = \h62 -> 5 [] OTHER -> 4

\* Whether the byte at the opcode leads a vector encoding; outside 64-bit mode
\* C4, C5 and 62 do only in front of what would be a ModRM byte of a register.
LeadsVector(bytes, p, mode) ==
  LET lead == bytes[p.at + 1]
      next == IF RequireAt(bytes, p.at, 2) = "OK" THEN bytes[p.at + 2] ELSE 0
  IN  /\ ~p.rex2
      /\ \/ lead \in {\hC4, \hC5, \h62} /\ (mode = 64 \/ next >= \hC0)
         \/ lead = \h8F /\ next % 32 >= 8

\* The fields of VEX, XOP and EVEX, from P0 (of a three-byte VEX, XOP or EVEX),
\* from the byte with vvvv and pp, and from P2 (of EVEX).
VexFields(fields, p1) ==
  [fields EXCEPT !.VEXDEST3 = Bit(p1, 6), !.VEXDEST210 = (p1 \div 8) % 8,
                 !.VEX_PREFIX = VexPrefix(p1 % 4)]

ThreeByteFields(fields, mode, p0, p1) ==
  [VexFields(fields, p1) EXCEPT !.REXR = Inverted(p0, 7),
     !.REXB = IF mode = 64 THEN Inverted(p0, 5) ELSE 0,
     !.REXW = Bit(p1, 7), !.VL = Bit(p1, 2)]

EvexFields(fields, mode, p0, p1, p2) ==
  LET low == [VexFields(fields, p1) EXCEPT
                !.REXW = Bit(p1, 7), !.VEXDEST4 = Inverted(p2, 3),
                !.UBIT = Bit(p1, 2), !.VL = (p2 \div 32) % 4, !.BCRC = Bit(p2, 4),
                !.ZEROING = Bit(p2, 7), !.MASK = p2 % 8, !.ND = Bit(p2, 4),
                !.NF = Bit(p2, 2)]
  IN  IF mode # 64 THEN low
      ELSE [low EXCEPT !.REXR = Inverted(p0, 7), !.REXR4 = Inverted(p0, 4),
                       !.REXB = Inverted(p0, 5), !.REXB4 = Bit(p0, 3)]

Vector(bytes, p, mode) ==
  LET lead == bytes[p.at + 1]
      size == VectorSize(lead)
      P(i) == bytes[p.at + 2 + i]
      none == PrefixFields(p, mode)
      found(space, map, fields) ==
        [status |-> "OK", space |-> space, map |-> map, fields |-> fields,
         opcode |-> bytes[p.at + size], end |-> p.at + size]
  IN  Needing(RequireAt(bytes, p.at, size),
      IF p.lock \/ p.operand \/ p.repeat # 0 \/ p.rexPresent
      THEN Refusal("INVALID")
      ELSE CASE lead = \hC5 -> found("VEX", 1,
                  [VexFields(none, P(0)) EXCEPT !.REXR = Inverted(P(0), 7),
                                                !.VL = Bit(P(0), 2)])
             [] lead = \hC4 -> found("VEX", P(0) % 32,
                                     ThreeByteFields(none, mode, P(0), P(1)))
             [] lead = \h8F -> found("XOP", P(0) % 32,
                                     ThreeByteFields(none, mode, P(0), P(1)))
             [] OTHER -> IF mode # 64 /\ Inverted(P(2), 3) = 1
                         THEN Refusal("INVALID")
                         ELSE found("EVEX", P(0) % 8,
                                    EvexFields(none, mode, P(0), P(1), P(2))))

Scalar(bytes, p, mode) ==
  LET first == bytes[p.at + 1]
      second == bytes[p.at + 2]
      found(map, size, opcode) ==
        [status |-> "OK", space |-> "LEGACY", map |-> map, opcode |-> opcode,
         end |-> p.at + size, fields |-> PrefixFields(p, mode)]
  IN  IF p.rex2 THEN found(Bit(p.high, 3), 1, first)
      ELSE IF first # \h0F THEN found(0, 1, first)
      ELSE Needing(RequireAt(bytes, p.at, 2),
             IF second = \h0F THEN found(4, 2, 0)
             ELSE IF second \notin {\h38, \h3A} THEN found(1, 2, second)
             ELSE Needing(RequireAt(bytes, p.at, 3),
                          found(IF second = \h38 THEN 2 ELSE 3, 3, bytes[p.at + 3])))

OpcodeOf(bytes, p, mode) ==
  Needing(p.status,
    Needing(RequireAt(bytes, p.at, 1),
      IF LeadsVector(bytes, p, mode) THEN Vector(bytes, p, mode) ELSE Scalar(bytes, p, mode)))

\* x86_gen_parse_modrm
Addressed(bytes, at, sibs, addressBits) ==
  LET sib == IF sibs = 1 THEN bytes[at + 2] ELSE 0
      end == at + 1 + sibs
      size == AddressBytes(bytes[at + 1], sib, addressBits)
  IN  [status |-> RequireAt(bytes, end, size), modrm |-> bytes[at + 1], end |-> end + size]

AfterModrm(bytes, at, sibs, addressBits) ==
  Needing(RequireAt(bytes, at + 1, sibs), Addressed(bytes, at, sibs, addressBits))

ModrmAt(bytes, at, addressBits) ==
  Needing(RequireAt(bytes, at, 1),
    AfterModrm(bytes, at, IF TakesSib(bytes[at + 1], addressBits) THEN 1 ELSE 0, addressBits))

\* The byte of a 3DNow! instruction that selects it comes after its operand.
Suffixed(bytes, opcode, operand) ==
  IF opcode.status # "OK" \/ opcode.space # "LEGACY" \/ opcode.map # 4 THEN opcode
  ELSE Needing(operand.status,
         Needing(RequireAt(bytes, operand.end, 1),
                 [opcode EXCEPT !.opcode = bytes[operand.end + 1]]))

-----------------------------------------------------------------------------
(* The rows of a bucket.  A decoded opcode "o" has the mode, the address   *)
(* size and the ModRM byte beside its fields.                              *)

InModrmMemory(o, row) == row.modrm /\ InMemory(o.operand.modrm)

\* In 64-bit mode U = 0 in front of a memory operand is APX's inverted X4.
FieldOf(o, row, f) ==
  IF f = "UBIT" /\ o.space = "EVEX" /\ o.mode = 64 /\ InModrmMemory(o, row) /\ o.fields.UBIT = 0
  THEN 1 ELSE o.fields[f]

\* x86_gen_predicates_match
PredicatesMatch(o, row) ==
  \A f \in DOMAIN row.fields : FieldOf(o, row, f) \in row.fields[f]

\* x86_gen_special_fields_match, for rows that let a mask be absent.
MaskMatches(o, row) ==
  (o.space = "EVEX" /\ ~row.evapx) =>
    /\ o.fields.MASK # 0 => row.masking
    /\ o.fields.ZEROING # 0 => row.masking /\ o.fields.MASK # 0

Matches(o, row) ==
  /\ row.modrm => /\ Mod(o.operand.modrm) \in row.mods
                  /\ Reg(o.operand.modrm) \in row.regs
                  /\ Rm(o.operand.modrm) \in row.rms
  /\ PredicatesMatch(o, row) /\ MaskMatches(o, row)
  /\ row.evapx => o.space = "EVEX"

\* x86_gen_operand_bits and x86_gen_immediate_size
WideBits(o) ==
  IF o.space # "LEGACY"
  THEN IF o.fields.VEX_PREFIX = 1 THEN 16
       ELSE IF o.mode = 64 /\ o.fields.REXW = 1 THEN 64 ELSE 32
  ELSE OperandBits(o.mode, o.fields.OSZ = 1, 8 * o.fields.REXW)

ImmediateSize(o, row) ==
  CASE row.immediate = "REL_64" -> 8
    [] row.immediate = "IMM_Z" -> IF WideBits(o) = 16 THEN 2 ELSE 4
    [] row.immediate = "MEMDISP_V" -> o.addressBits \div 8
    [] OTHER -> 0

\* x86_gen_uses_optional_apx_extension: B4, or X4 in a form older than APX.
BorrowsApx(o, row) ==
  /\ o.space = "EVEX" /\ ~row.evapx
  /\ \/ o.fields.REXB4 # 0
     \/ InModrmMemory(o, row) /\ o.fields.UBIT = 0 /\ ~row.fp16

\* The decode bits an instruction of the row is admitted by.
RequiredBits(o, row) ==
  ({row.bit} \ {"NONE"}) \cup (IF BorrowsApx(o, row) THEN {"APX"} ELSE {})

\* The caller is asked before the processor, first about APX and then about the
\* row's own bit; the processor's refusal is not reported.
CallerLacks(o, row, selected, available) ==
  LET asks == (IF BorrowsApx(o, row) THEN <<"APX">> ELSE <<>>)
              \o (IF row.bit = "NONE" THEN <<>> ELSE <<row.bit>>)
  IN  \E i \in DOMAIN asks :
        /\ asks[i] \notin selected
        /\ \A j \in 1..(i - 1) : asks[j] \in selected \cap available

\* x86_gen_finish_candidate and x86_gen_cpu_and_flags_admit
Finish(bytes, o, row) ==
  RequireAt(bytes, IF row.modrm THEN o.operand.end ELSE o.end, ImmediateSize(o, row))

LengthOf(o, row) ==
  (IF row.modrm THEN o.operand.end ELSE o.end) + ImmediateSize(o, row)

\* x86_gen_candidate_better: a row with a decode bit first, then the most
\* specific, then the earliest.
Score(row) == row.specificity + IF row.bit = "NONE" THEN 0 ELSE 256

Better(row, other) ==
  \/ Score(row) > Score(other)
  \/ Score(row) = Score(other) /\ row.order < other.order

BestRow(rows) == CHOOSE row \in rows : \A other \in rows : ~Better(other, row)

\* Operands 4 and 4 + 16 + ... are RSP only as number 4.
NamesRsp(o) ==
  LET extended(low, high, top) == low + 8 * high + 16 * top
      f == o.fields
  IN  \/ extended(Rm(o.operand.modrm), f.REXB, f.REXB4) = 4
      \/ extended(7 - f.VEXDEST210, 1 - f.VEXDEST3, f.VEXDEST4) = 4

-----------------------------------------------------------------------------
(* x86_gen_decode_impl.  A row that needs bytes the caller does not have   *)
(* is remembered and passed over, whoever admits it; a row over the limit  *)
(* ends the decode at once.                                                *)

Undecoded(status) == [status |-> status, length |-> 0, name |-> "", bits |-> {}]

Decoded(o, row) ==
  [status |-> "OK", length |-> LengthOf(o, row), name |-> row.name, bits |-> RequiredBits(o, row)]

\* The best row, with the restriction the operands put on it.
Chosen(o, row) ==
  IF row.noRsp /\ NamesRsp(o) THEN Undecoded("INVALID") ELSE Decoded(o, row)

\* "usable" are the rows the bytes match as a whole; "unread" says that a row
\* was passed over for want of bytes.
Admission(o, usable, unread, selected, available) ==
  LET admitted == {row \in usable : RequiredBits(o, row) \subseteq (selected \cap available)}
  IN  IF admitted # {} THEN Chosen(o, BestRow(admitted))
      ELSE IF unread THEN Undecoded("TRUNCATED")
      ELSE IF \E row \in usable : CallerLacks(o, row, selected, available)
      THEN Undecoded("UNSUPPORTED")
      ELSE Undecoded("INVALID")

\* "matching" are the rows that match, "unread" as above.
Whole(bytes, o, matching, unread, selected, available) ==
  LET whole == {row \in matching : Finish(bytes, o, row) = "OK"}
  IN  IF \E row \in matching : Finish(bytes, o, row) = "INVALID" THEN Undecoded("INVALID")
      ELSE Admission(o, {row \in whole : BorrowsApx(o, row) => o.mode = 64},
                     unread \/ matching # whole, selected, available)

Selection(bytes, o, rows, selected, available) ==
  LET readable == {row \in rows : ~row.modrm \/ o.operand.status = "OK"}
  IN  IF rows # readable /\ o.operand.status = "INVALID" THEN Undecoded("INVALID")
      ELSE Whole(bytes, o, {row \in readable : Matches(o, row)}, rows # readable,
                 selected, available)

\* From the opcode and the operand behind it, if there is one.
FromOpcode(bytes, mode, opcode, operand, addressBits, selected, available) ==
  IF opcode.status # "OK" THEN Undecoded(opcode.status)
  ELSE Selection(bytes,
         [fields |-> opcode.fields, space |-> opcode.space, end |-> opcode.end,
          mode |-> mode, addressBits |-> addressBits, operand |-> operand],
         {row \in Bucket(opcode.space, opcode.map, opcode.opcode) : mode \in row.modes},
         selected, available)

\* "found" is the opcode before the suffix of a 3DNow! instruction.
FromPrefixes(bytes, mode, p, found, selected, available) ==
  LET operand == ModrmAt(bytes, found.end, AddressSize(p, mode))
  IN  FromOpcode(bytes, mode, Suffixed(bytes, found, operand), operand,
                 AddressSize(p, mode), selected, available)

FromOpening(bytes, mode, p, selected, available) ==
  FromPrefixes(bytes, mode, p, OpcodeOf(bytes, p, mode), selected, available)

Generated(bytes, mode, selected, available) ==
  FromOpening(bytes, mode, Opening(bytes, mode), selected, available)

=============================================================================
