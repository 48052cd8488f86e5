----------------------------- MODULE X86Cursor ------------------------------
(***************************************************************************)
(* The byte cursor of the hand-written x86 decoder (decode_core and what   *)
(* it calls in src/src/x86/x86_decoder.c), called by a program that gets   *)
(* its bytes one at a time: it asks for the instruction at the head of its *)
(* buffer, and asks again, from the start, when it has one byte more.      *)
(*                                                                         *)
(* The bytes that steer the decoder are kept on a tape, which is written   *)
(* when a byte is first looked at and read by every later call; the values *)
(* of displacements and immediates steer nothing and are left out.         *)
(***************************************************************************)
EXTENDS X86Opcodes

CONSTANTS
  MaxInstructionSize,   \* CDISASM_MAX_INSTRUCTION_SIZE
  CallModes,            \* the modes the caller decodes in
  Leads,                \* what the stream may begin with
  Unread(_, _),         \* the bytes of a kind that may follow the tape
  Sent                  \* bound on the bytes the caller gets, for model checking

ASSUME CursorAssumption ==
  /\ MaxInstructionSize \in Nat \ {0}
  /\ CallModes \subseteq Modes
  /\ \A lead \in Leads : lead \in Seq(Byte)
  /\ Sent \in Nat

VARIABLES
  mode,
  tape,       \* the control bytes of the stream that were looked at
  codeSize,   \* code_size: the bytes the caller has
  pc,         \* where the call is
  position,   \* the cursor
  prefix,     \* what the prefixes have said
  opcode,
  encoding,   \* the fields of cdisasm_x86_encoding
  answer,     \* the status of the last call, and the length of the instruction
  settled     \* history: the first answer that was not TRUNCATED, and when

stream == <<mode, tape>>
decoder == <<position, prefix, opcode, encoding>>
vars == <<stream, codeSize, pc, decoder, answer, settled>>

NoPrefix ==
  [wait |-> FALSE, lock |-> FALSE, operand |-> FALSE, address |-> FALSE,
   repeat |-> 0, segment |-> 0, rex |-> 0]

NoEncoding ==
  [prefixSize |-> 0, modrmOffset |-> 0, modrm |-> 0, sibOffset |-> 0, sib |-> 0,
   displacementOffset |-> 0, displacementSize |-> 0, immediates |-> <<>>]

Statuses == {"OK", "TRUNCATED", "INVALID", "UNSUPPORTED", "INTERNAL", "HANDED_ON"}
Unanswered == [status |-> "NONE", length |-> 0]
Unsettled == [status |-> "NONE", length |-> 0, size |-> 0]

Sizes == 0..MaxInstructionSize
Labels == {"idle", "wait", "alias", "prefixes", "modrm", "sib", "displacement",
           "immediates"}

Prefixes ==
  [wait : BOOLEAN, lock : BOOLEAN, operand : BOOLEAN, address : BOOLEAN,
   repeat : {0, \hF2, \hF3}, segment : Segments \cup {0},
   rex : (\h40..\h4F) \cup {0}]

Encodings ==
  [prefixSize : Sizes, modrmOffset : Sizes, modrm : Byte, sibOffset : Sizes,
   sib : Byte, displacementOffset : Sizes, displacementSize : {0, 1, 2, 4, 8},
   immediates : Seq(Sizes \X {1, 2, 4, 8})]

TypeOK ==
  /\ mode \in CallModes
  /\ tape \in Seq(Byte)
  /\ codeSize \in Nat
  /\ pc \in Labels
  /\ position \in Sizes
  /\ position <= codeSize
  /\ prefix \in Prefixes
  /\ opcode \in Byte
  /\ encoding \in Encodings
  /\ answer \in [status : Statuses \cup {"NONE"}, length : Sizes]
  /\ settled \in [status : Statuses \cup {"NONE"}, length : Sizes, size : Nat]

-----------------------------------------------------------------------------
(* The caller.                                                             *)

Init ==
  /\ mode \in CallModes
  /\ tape \in Leads
  /\ codeSize = 0
  /\ pc = "idle"
  /\ position = 0
  /\ prefix = NoPrefix
  /\ opcode = 0
  /\ encoding = NoEncoding
  /\ answer = Unanswered
  /\ settled = Unsettled

\* One byte arrives, and the program asks again.
Call ==
  /\ pc = "idle"
  /\ codeSize < Sent
  /\ codeSize' = codeSize + 1
  /\ pc' = "wait"
  /\ position' = 0
  /\ prefix' = NoPrefix
  /\ opcode' = 0
  /\ encoding' = NoEncoding
  /\ answer' = Unanswered
  /\ UNCHANGED <<stream, settled>>

Return(status) ==
  LET length == IF status = "OK" THEN position ELSE 0
  IN
  /\ pc' = "idle"
  /\ answer' = [status |-> status, length |-> length]
  /\ settled' =
       IF settled = Unsettled /\ status # "TRUNCATED"
       THEN [status |-> status, length |-> length, size |-> codeSize]
       ELSE settled

\* A read that fails leaves the cursor where it is.
Fail(status) ==
  /\ Return(status)
  /\ UNCHANGED <<tape, decoder>>

Goto(label) ==
  /\ pc' = label
  /\ UNCHANGED <<answer, settled>>

-----------------------------------------------------------------------------
(* The cursor.                                                             *)

\* Mutant: the end of the buffer is noticed before the limit is.
Require_TruncatedFirst(count) ==
  IF count > codeSize - position THEN "TRUNCATED"
  ELSE IF count > MaxInstructionSize - position THEN "INVALID"
  ELSE "OK"

\* Mutant: a read that ends with the buffer is refused.
Require_OneTooMany(count) ==
  IF count > MaxInstructionSize - position THEN "INVALID"
  ELSE IF count >= codeSize - position THEN "TRUNCATED"
  ELSE "OK"

\* Mutant: the limit is not checked.
Require_NoLimit(count) ==
  IF count > codeSize - position THEN "TRUNCATED" ELSE "OK"

\* decoder_require
Require(count) ==
  IF count > MaxInstructionSize - position THEN "INVALID"
  ELSE IF count > codeSize - position THEN "TRUNCATED"
  ELSE "OK"

\* What the byte under the cursor may be, and the look at it.
Ahead(kind) ==
  IF position < Len(tape) THEN {tape[position + 1]} ELSE Unread(kind, tape) \cap Byte

LookAt(b) ==
  tape' = IF position < Len(tape) THEN tape ELSE Append(tape, b)

InBuffer == position < codeSize /\ position < MaxInstructionSize

opBits == OperandBits(mode, prefix.operand, prefix.rex)
addrBits == AddressBits(mode, prefix.address)

IsPrefix(b) == b \in Legacy \/ IsRex(b, mode)

-----------------------------------------------------------------------------
(* has_wait_x87_alias: an FWAIT is looked behind, past the prefixes that   *)
(* follow it, for an x87 instruction that has a waiting form.              *)

NoAlias ==
  /\ position' = 0
  /\ UNCHANGED prefix
  /\ Goto("prefixes")

ScanPast(b, label) ==
  /\ LookAt(b)
  /\ position' = position + 1
  /\ UNCHANGED prefix
  /\ Goto(label)

\* Mutant: the byte after FWAIT is taken for a prefix in every mode.
ScanForWait_AnyMode ==
  /\ pc = "wait"
  /\ \/ ~InBuffer /\ NoAlias /\ UNCHANGED tape
     \/ /\ InBuffer
        /\ \E b \in Ahead("opcode") :
             CASE position = 0 /\ b = Fwait -> ScanPast(b, "wait")
               [] position > 0 /\ (IsPrefix(b) \/ IsRex(b, 64)) ->
                    ScanPast(b, "wait")
               [] position > 0 /\ b \in X87 -> ScanPast(b, "alias")
               [] OTHER -> LookAt(b) /\ NoAlias
  /\ UNCHANGED <<mode, codeSize, opcode, encoding>>

ScanForWait ==
  /\ pc = "wait"
  /\ \/ ~InBuffer /\ NoAlias /\ UNCHANGED tape
     \/ /\ InBuffer
        /\ \E b \in Ahead("opcode") :
             CASE position = 0 /\ b = Fwait -> ScanPast(b, "wait")
               [] position > 0 /\ IsPrefix(b) -> ScanPast(b, "wait")
               [] position > 0 /\ b \in X87 -> ScanPast(b, "alias")
               [] OTHER -> LookAt(b) /\ NoAlias
  /\ UNCHANGED <<mode, codeSize, opcode, encoding>>

ScanForAlias ==
  /\ pc = "alias"
  /\ \/ ~InBuffer /\ NoAlias /\ UNCHANGED tape
     \/ /\ InBuffer
        /\ \E b \in Ahead("modrm") :
             /\ LookAt(b)
             /\ IF X87Waits(tape[position], b)
                THEN /\ position' = 1
                     /\ prefix' = [prefix EXCEPT !.wait = TRUE]
                     /\ Goto("prefixes")
                ELSE NoAlias
  /\ UNCHANGED <<mode, codeSize, opcode, encoding>>

-----------------------------------------------------------------------------
(* parse_prefixes and the opcode byte.                                     *)

PrefixLimit ==
  /\ pc = "prefixes"
  /\ position >= MaxInstructionSize
  /\ Fail("INVALID")
  /\ UNCHANGED <<mode, codeSize>>

\* Mutant: the call waits for the byte it has not got.
PrefixesTruncated_Waits ==
  /\ pc = "prefixes"
  /\ position < MaxInstructionSize
  /\ position >= codeSize
  /\ UNCHANGED vars

PrefixesTruncated ==
  /\ pc = "prefixes"
  /\ position < MaxInstructionSize
  /\ position >= codeSize
  /\ Fail("TRUNCATED")
  /\ UNCHANGED <<mode, codeSize>>

\* Mutant: a REX stays in force behind a legacy prefix.
WithLegacy_KeepsRex(b) ==
  [prefix EXCEPT !.lock = @ \/ b = \hF0,
                 !.repeat = IF b \in {\hF2, \hF3} THEN b ELSE @,
                 !.operand = @ \/ b = \h66,
                 !.address = @ \/ b = \h67,
                 !.segment = IF b \in Segments THEN b ELSE @]

\* What the prefixes say with this one more.  A REX before it is void.
WithLegacy(b) ==
  [prefix EXCEPT !.lock = @ \/ b = \hF0,
                 !.repeat = IF b \in {\hF2, \hF3} THEN b ELSE @,
                 !.operand = @ \/ b = \h66,
                 !.address = @ \/ b = \h67,
                 !.segment = IF b \in Segments THEN b ELSE @,
                 !.rex = 0]

Prefix ==
  /\ pc = "prefixes"
  /\ InBuffer
  /\ \E b \in Ahead("opcode") :
       /\ IsPrefix(b)
       /\ LookAt(b)
       /\ prefix' = IF b \in Legacy THEN WithLegacy(b)
                    ELSE [prefix EXCEPT !.rex = b]
  /\ position' = position + 1
  /\ Goto("prefixes")
  /\ UNCHANGED <<mode, codeSize, opcode, encoding>>

\* REX2 comes after no REX; what is behind its payload is another map.
Rex2Prefix ==
  /\ pc = "prefixes"
  /\ InBuffer
  /\ \E b \in Ahead("opcode") :
       /\ IsRex2(b, mode)
       /\ LookAt(b)
       /\ Return(IF prefix.rex # 0 THEN "INVALID"
                 ELSE IF Require(2) = "OK" THEN "HANDED_ON"
                 ELSE Require(2))
  /\ UNCHANGED <<mode, codeSize, decoder>>

Opcode ==
  /\ pc = "prefixes"
  /\ InBuffer
  /\ \E b \in Ahead("opcode") :
       /\ ~IsPrefix(b) /\ ~IsRex2(b, mode)
       /\ LookAt(b)
       /\ opcode' = b
       /\ CASE b \in HandedOn -> Return("HANDED_ON")
            [] Refused(b, mode) -> Return("INVALID")
            [] TakesModrm(b) /\ ~Refused(b, mode) -> Goto("modrm")
            [] OTHER -> Goto("displacement")
  /\ position' = position + 1
  /\ encoding' = [encoding EXCEPT !.prefixSize = position]
  /\ UNCHANGED <<mode, codeSize, prefix>>

-----------------------------------------------------------------------------
(* decode_modrm, and what its callers do before and after it.              *)

\* decode_x87 and the XOP test of 8F look at the ModRM byte before they read it;
\* decode_xop reads it again, and only a byte inside the limit is handed on.
Peeks == opcode \in X87 \cup {\h8F} /\ position < codeSize

\* Mutant: an x87 escape at the end of the buffer is refused.
NoModrm_X87Invalid ==
  IF opcode \in X87 /\ position >= codeSize THEN "INVALID" ELSE Require(1)

NoModrm ==
  IF opcode \in X87 /\ position >= codeSize THEN "TRUNCATED" ELSE Require(1)

Peeked(b) ==
  CASE opcode \in X87 /\ ~X87Known(opcode, b) -> "INVALID"
    [] opcode = \h8F /\ b % 32 >= 8 /\ Require(1) = "OK" -> "HANDED_ON"
    [] OTHER -> Require(1)

ModrmMissing ==
  /\ pc = "modrm"
  /\ ~Peeks /\ Require(1) # "OK"
  /\ Fail(NoModrm)
  /\ UNCHANGED <<mode, codeSize>>

ModrmRejected ==
  /\ pc = "modrm"
  /\ Peeks
  /\ \E b \in Ahead("modrm") :
       /\ LookAt(b)
       /\ Peeked(b) # "OK"
       /\ Return(Peeked(b))
  /\ UNCHANGED <<mode, codeSize, decoder>>

Modrm ==
  /\ pc = "modrm"
  /\ Require(1) = "OK"
  /\ \E b \in Ahead("modrm") :
       /\ Peeked(b) = "OK"
       /\ LookAt(b)
       /\ encoding' = [encoding EXCEPT !.modrmOffset = position, !.modrm = b]
       /\ Goto(IF TakesSib(b, addrBits) THEN "sib" ELSE "displacement")
  /\ position' = position + 1
  /\ UNCHANGED <<mode, codeSize, prefix, opcode>>

SibMissing ==
  /\ pc = "sib"
  /\ Require(1) # "OK"
  /\ Fail(Require(1))
  /\ UNCHANGED <<mode, codeSize>>

Sib ==
  /\ pc = "sib"
  /\ Require(1) = "OK"
  /\ \E b \in Ahead("sib") :
       /\ LookAt(b)
       /\ encoding' = [encoding EXCEPT !.sibOffset = position, !.sib = b]
  /\ position' = position + 1
  /\ Goto("displacement")
  /\ UNCHANGED <<mode, codeSize, prefix, opcode>>

displacement == DisplacementBytes(opcode, encoding.modrm, encoding.sib, addrBits)

DisplacementMissing ==
  /\ pc = "displacement"
  /\ Require(displacement) # "OK"
  /\ Fail(Require(displacement))
  /\ UNCHANGED <<mode, codeSize>>

\* The address is read.  An x87 escape with a WAIT must be a waiting form.
Judged ==
  IF ~TakesModrm(opcode) THEN "OK"
  ELSE IF prefix.wait /\ opcode \in X87 /\ ~X87Waits(opcode, encoding.modrm)
       THEN "INTERNAL"
  ELSE Verdict(opcode, encoding.modrm, prefix.lock)

\* Mutant: the offset recorded is that of the byte behind the field.
Displacement_OffsetAfter ==
  /\ pc = "displacement"
  /\ Require(displacement) = "OK"
  /\ position' = position + displacement
  /\ encoding' = IF displacement = 0 THEN encoding
                 ELSE [encoding EXCEPT !.displacementOffset = position',
                                       !.displacementSize = displacement]
  /\ IF Judged = "OK" THEN Goto("immediates") ELSE Return(Judged)
  /\ UNCHANGED <<stream, codeSize, prefix, opcode>>

Displacement ==
  /\ pc = "displacement"
  /\ Require(displacement) = "OK"
  /\ position' = position + displacement
  /\ encoding' = IF displacement = 0 THEN encoding
                 ELSE [encoding EXCEPT !.displacementOffset = position,
                                       !.displacementSize = displacement]
  /\ IF Judged = "OK" THEN Goto("immediates") ELSE Return(Judged)
  /\ UNCHANGED <<stream, codeSize, prefix, opcode>>

-----------------------------------------------------------------------------
(* read_immediate_value, once for every immediate, and the end.            *)

immediates == Immediates(opcode, encoding.modrm, mode, prefix.operand, opBits)
Taken == Len(encoding.immediates)

ImmediateMissing ==
  /\ pc = "immediates"
  /\ Taken < Len(immediates)
  /\ Require(immediates[Taken + 1]) # "OK"
  /\ Fail(Require(immediates[Taken + 1]))
  /\ UNCHANGED <<mode, codeSize>>

Immediate ==
  /\ pc = "immediates"
  /\ Taken < Len(immediates)
  /\ Require(immediates[Taken + 1]) = "OK"
  /\ encoding' = [encoding EXCEPT !.immediates =
                    Append(@, <<position, immediates[Taken + 1]>>)]
  /\ position' = position + immediates[Taken + 1]
  /\ Goto("immediates")
  /\ UNCHANGED <<stream, codeSize, prefix, opcode>>

\* The tail of decode_core.
Finish ==
  /\ pc = "immediates"
  /\ Taken = Len(immediates)
  /\ Return(IF prefix.lock /\ ~TakesLock(opcode, encoding.modrm)
            THEN "INVALID" ELSE "OK")
  /\ UNCHANGED <<stream, codeSize, decoder>>

-----------------------------------------------------------------------------

Step ==
  \/ ScanForWait \/ ScanForAlias
  \/ PrefixLimit \/ PrefixesTruncated \/ Prefix \/ Rex2Prefix \/ Opcode
  \/ ModrmMissing \/ ModrmRejected \/ Modrm
  \/ SibMissing \/ Sib
  \/ DisplacementMissing \/ Displacement
  \/ ImmediateMissing \/ Immediate \/ Finish

Next == Call \/ Step

\* A call is a plain function that runs to its end.
Spec == Init /\ [][Next]_vars /\ WF_vars(Step)

-----------------------------------------------------------------------------
(* Properties.                                                             *)

Answered == pc = "idle" /\ codeSize > 0

\* A lone FWAIT is answered at once, and taken back when the bytes behind it
\* turn out to be an x87 instruction with a waiting form.
Fused ==
  prefix.wait /\ settled.status = "OK" /\ settled.length = 1

\* A caller may act on any answer but TRUNCATED: more bytes never change it
\* (every status but CDISASM_STATUS_TRUNCATED is final), save for a fused FWAIT.
Final ==
  Answered /\ settled # Unsettled =>
    \/ answer.status = settled.status /\ answer.length = settled.length
    \/ Fused

\* An instruction is answered in the call that has its last byte, not later
\* and not from bytes that are not there (decoder_require).
Prompt ==
  settled.status = "OK" => settled.size = settled.length

\* A caller with CDISASM_MAX_INSTRUCTION_SIZE bytes is not asked for more.  The
\* exception is an x87 escape in the last of them: decode_x87 looks for the
\* ModRM byte in the buffer before the limit is tested.
NoMoreThanLimit ==
  Answered /\ answer.status = "TRUNCATED" /\ codeSize >= MaxInstructionSize =>
    /\ codeSize = MaxInstructionSize
    /\ position = MaxInstructionSize
    /\ opcode \in X87

\* The two scans over the prefixes, has_wait_x87_alias and parse_prefixes, meet
\* at the same instruction: a WAIT is fused only with an x87 instruction that
\* has a waiting form, and decode_x87 reports no internal error.
WaitMeetsItsInstruction ==
  Answered =>
    /\ answer.status # "INTERNAL"
    /\ prefix.wait => /\ opcode \in X87
                      /\ answer.status = "OK" => X87Waits(opcode, encoding.modrm)

PrefixPlaces ==
  {i \in 1..encoding.prefixSize : prefix.wait => i > 1}

LastPrefixIn(bytes) ==
  LET places == {i \in PrefixPlaces : tape[i] \in bytes}
  IN  IF places = {} THEN 0
      ELSE tape[CHOOSE i \in places : \A j \in places : j <= i]

\* What parse_prefixes leaves is what the bytes before the opcode say, whatever
\* their order and number: a class is present if one of them is of it, of the
\* segments and of F2 and F3 the last one counts, and a REX counts only in the
\* byte before the opcode (CDISASM_PREFIX_REX_W: "the rightmost effective REX").
PrefixesRead ==
  Answered /\ answer.status = "OK" =>
    /\ opcode = tape[encoding.prefixSize + 1]
    /\ prefix.wait => tape[1] = Fwait
    /\ \A i \in PrefixPlaces : IsPrefix(tape[i])
    /\ prefix.lock = (LastPrefixIn({\hF0}) # 0)
    /\ prefix.operand = (LastPrefixIn({\h66}) # 0)
    /\ prefix.address = (LastPrefixIn({\h67}) # 0)
    /\ prefix.repeat = LastPrefixIn({\hF2, \hF3})
    /\ prefix.segment = LastPrefixIn(Segments)
    /\ prefix.rex = IF encoding.prefixSize \in PrefixPlaces
                       /\ IsRex(tape[encoding.prefixSize], mode)
                    THEN tape[encoding.prefixSize] ELSE 0

\* The fields of the encoding in their order, as <<offset, size>>, and the
\* places of those that are there.
Fields ==
  LET one(offset) == <<offset, IF offset = 0 THEN 0 ELSE 1>>
  IN  << <<0, encoding.prefixSize>>, <<encoding.prefixSize, 1>>,
         one(encoding.modrmOffset), one(encoding.sibOffset),
         <<encoding.displacementOffset, encoding.displacementSize>> >>
      \o encoding.immediates

There == {i \in DOMAIN Fields : Fields[i][2] > 0}

End(field) == field[1] + field[2]

\* The fields of cdisasm_x86_encoding follow one another without an overlap and
\* without a gap, from the first byte of the instruction to its last; one that is
\* absent is all zero.
Partition ==
  Answered /\ answer.status = "OK" =>
    /\ \A i, j \in There : i < j => End(Fields[i]) <= Fields[j][1]
    /\ \A byte \in 0..(answer.length - 1) :
         \E i \in There : byte \in Fields[i][1]..(End(Fields[i]) - 1)
    /\ \A i \in There : End(Fields[i]) <= answer.length
    /\ encoding.displacementSize = 0 => encoding.displacementOffset = 0

\* Every call returns.
CallsReturn == (pc # "idle") ~> (pc = "idle")

\* "An effective REX.W takes precedence over an earlier 66 prefix"
\* (x86_decoder.c:3410, of the operand size): with both, no immediate has the
\* two bytes of an operand of 16 bits.  RET and ENTER have two bytes anyway.
RexWTakesPrecedence ==
  Answered /\ answer.status = "OK" /\ prefix.operand /\ RexW(prefix.rex) =>
    \A i \in 1..Len(encoding.immediates) :
      encoding.immediates[i][2] = 2 => opcode \in {\hC2, \hC8, \hCA}

=============================================================================
