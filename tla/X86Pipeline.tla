---------------------------- MODULE X86Pipeline ----------------------------
(***************************************************************************)
(* cdisasm_x86_decode (src/src/x86/cdisasm_x86.c) in 64-bit mode, for      *)
(* CPU_X86: the hand-written decoder is asked first, the generated one     *)
(* when it does not support the encoding, and once more for a few          *)
(* encodings it refuses.  The caller receives an instruction byte by byte  *)
(* and asks again after each byte, and again after it selects a decode     *)
(* bit.  The encodings are those of X86Handwritten.                        *)
(***************************************************************************)
EXTENDS X86Handwritten

CONSTANTS
  Callers,   \* what a caller may receive and select: [stream, bits]
  Extra      \* USE_EXTRA_OPCODES

\* The encodings modelled: what follows the prefixes, as far as it is there.
InScope(stream) ==
  LET n == PrefixBytes(stream, 64)
      at(i) == stream[n + i]
  IN  n < Len(stream) =>
        \/ /\ at(1) = \h62
           /\ n + 5 <= Len(stream) =>
                \/ at(2) % 8 = 4 /\ at(5) \notin {\h60, \h61} \cup (\hF0..\hF2)
                \/ at(2) % 8 = 6 /\ at(5) = \h56
        \/ at(1) = \hC4 /\ (n + 4 <= Len(stream) => at(2) % 32 = 2 /\ at(4) = \h92)
        \/ at(1) = \hD5 /\ (n + 3 <= Len(stream) => at(2) \div 128 = 1 /\ at(3) = \hFF)

ASSUME CallersAssumption ==
  \A c \in Callers :
    c.stream \in Seq(Byte) /\ InScope(c.stream) /\ IsFiniteSet(c.bits)

ASSUME ExtraAssumption == Extra \in BOOLEAN

VARIABLES
  caller,     \* the caller, one of Callers
  have,       \* how many bytes of the stream the caller has
  selected,   \* the selected decode bits
  answer      \* the last answer of the decoder

vars == <<caller, have, selected, answer>>

-----------------------------------------------------------------------------

FirstBytes(stream, n) == SubSeq(stream, 1, n)

\* Mutant: exactly six bytes.
EnoughToRetry_Exactly(bytes) == Len(bytes) = 6

EnoughToRetry(bytes) == Len(bytes) >= 6

\* x86_should_retry_generated_after_invalid: only the first byte may be the
\* lead, so not behind a prefix.
RetriedEvex(e) ==
  \/ /\ e.map = 6 /\ e.u = 0 /\ InMemory(e.next)
     /\ e.opcode \in {\h56, \h57, \hD6, \hD7}
  \/ e.p0 = \hF4 /\ e.opcode \in Condition
  \/ /\ e.map = 4 /\ e.w = 1 /\ e.nd = 1 /\ ~InMemory(e.next)
     /\ e.opcode \in {\h8F, \hFF}

Retried(bytes) ==
  /\ EnoughToRetry(bytes)
  /\ \/ /\ bytes[1] = \hC4
        /\ bytes[2] % 32 = 2 /\ bytes[3] % 4 = 1 /\ bytes[4] \in \h90..\h93
        /\ InMemory(bytes[5]) /\ Rm(bytes[5]) = 4
     \/ bytes[1] = \h62 /\ bytes[2] \div 64 = 3 /\ RetriedEvex(EvexOf(bytes, 1))

\* x86_instruction_decode_flags of what the hand-written decoder accepts here:
\* the bit that admits it, or the umbrella of its group.
HandBits(e) ==
  CASE e.opcode = \hFC -> {"APX_F_RAO_INT"}
    [] e.opcode = \hF8 /\ e.pp > 1 -> {"APX_F_USER_MSR"}
    [] e.opcode \in {\hF8, \hF9} /\ e.pp < 2 -> {"SYSTEM"}
    [] OTHER -> {"APX"}

Reply(status, length, name) == [status |-> status, length |-> length, name |-> name]

\* What both decoders together say, before the caller's bits are looked at for
\* an instruction of the hand-written one.
Fallback(hand, generated) ==
  IF generated.status = "OK" THEN Reply("OK", generated.length, generated.name)
  ELSE IF hand.status = "UNSUPPORTED" /\ generated.status # "INVALID"
  THEN Reply(generated.status, 0, "")
  ELSE Reply(hand.status, 0, "")

\* From what the hand-written decoder says; the generated one is built only with
\* the extra opcodes.
FromHand(bytes, hand, bits, available, extra) ==
  IF hand.status = "UNSUPPORTED" \/ (hand.status = "INVALID" /\ Retried(bytes))
  THEN IF extra THEN Fallback(hand, Generated(bytes, 64, bits, available))
       ELSE Reply("UNSUPPORTED", 0, "")
  ELSE IF hand.status # "OK" THEN Reply(hand.status, 0, "")
  ELSE IF ~extra \/ HandBits(EvexOf(bytes, PrefixBytes(bytes, 64) + 1)) \subseteq bits
  THEN Reply("OK", hand.length, "")
  ELSE Reply("UNSUPPORTED", 0, "")

Decode(bytes, bits, available, extra) ==
  IF bytes = <<>> THEN Reply("END_OF_INPUT", 0, "")
  ELSE FromHand(bytes, Hand(bytes, extra), bits, available, extra)

-----------------------------------------------------------------------------

Bytes == FirstBytes(caller.stream, have)
AllBits == UNION {c.bits : c \in Callers}

\* CPU_X86 has every bit.
Ask(n, bits) == Decode(FirstBytes(caller.stream, n), bits, AllBits, Extra)

Init ==
  /\ caller \in Callers
  /\ have = 0
  /\ selected = {}
  /\ answer = Reply("END_OF_INPUT", 0, "")

\* One more byte is there.
Receive ==
  /\ have < Len(caller.stream)
  /\ have' = have + 1
  /\ answer' = Ask(have + 1, selected)
  /\ UNCHANGED <<caller, selected>>

\* The caller selects one more decode bit.
Select(bit) ==
  /\ Extra
  /\ bit \in caller.bits \ selected
  /\ selected' = selected \cup {bit}
  /\ answer' = Ask(have, selected \cup {bit})
  /\ UNCHANGED <<caller, have>>

Next == Receive \/ \E bit \in AllBits : Select(bit)

Spec == Init /\ [][Next]_vars

-----------------------------------------------------------------------------

TypeOK ==
  /\ caller \in Callers /\ have \in 0..Len(caller.stream)
  /\ selected \subseteq caller.bits
  /\ answer.status \in {"END_OF_INPUT", "TRUNCATED", "INVALID", "UNSUPPORTED", "OK"}
  /\ answer.length \in 0..MaxInstructionSize
  /\ answer.status = "OK" <=> answer.length # 0
  /\ answer.length <= have

\* The EVEX instruction of the bytes, when its opcode is there.
EvexHere == EvexOf(Bytes, PrefixBytes(Bytes, 64) + 1)
HasEvex == LET n == PrefixBytes(Bytes, 64) IN n + 5 <= have /\ Bytes[n + 1] = \h62

\* The byte after the opcode has just come, which decode_apx_evex looks at.
JustPeeked == HasEvex /\ EvexHere.end + 1 = have

\* What has been said stays said.  An accepted instruction stays accepted with
\* the same length when more bytes arrive or more bits are selected, but for UD0
\* behind REX2, which has a short row and a long one: the long one may not fit in
\* the limit.  A refused encoding stays refused when more bytes arrive, but for
\* the forms tried again and for what the byte after the opcode settles: a stack
\* pair, CCMP and CTEST.  What is not supported stays so until the caller selects
\* something, but for an opcode without a row and U = 0 in front of a register.
VerdictsFinal ==
  [][/\ answer.status = "OK" =>
          \/ answer'.status = "OK" /\ answer'.length = answer.length
          \/ answer.name = "UD0" /\ (answer'.status = "OK" \/ have' # have)
     /\ answer.status = "INVALID" /\ have' # have =>
          \/ answer'.status = "INVALID"
          \/ Retried(Bytes)'
          \/ (JustPeeked /\ (IsStackPair(EvexHere) \/ IsScc(EvexHere)))'
     /\ answer.status = "UNSUPPORTED" /\ have' # have =>
          \/ answer'.status = "UNSUPPORTED"
          \/ (JustPeeked /\ EvexHere.u = 0 /\ PeeksRegister(EvexHere))']_vars

\* "e" is the EVEX instruction.
Agree(hand, generated, e) ==
  LET popsRsp == e.opcode = \h8F /\ (e.destination = 4 \/ Rm(e.next) = 4)
      wide66 == e.w = 1 /\ e.pp = 1 /\ e.opcode = \h69
  IN  hand.status = "OK" /\ Bucket("EVEX", e.map, e.opcode) # {} /\ ~popsRsp /\ ~wide66
      => generated.status = "OK" /\ generated.length = hand.length

\* Where both decoders have the encoding they agree on it, so that the generated
\* identity is attached (cdisasm_x86_attach_generated_identity).  Two forms are
\* known to differ: a POP2 that names the stack pointer, which the generated
\* rows alone refuse, and an immediate under both W and a 66 prefix, which is
\* four bytes for the one decoder and two for the other.
DecodersAgree ==
  have > 0 => Agree(Hand(Bytes, TRUE), Generated(Bytes, 64, AllBits, AllBits), EvexHere)

\* What the full build accepts, the build without extra opcodes calls
\* unsupported.
BuildsAgree ==
  answer.status = "OK" => Decode(Bytes, {}, AllBits, FALSE).status = "UNSUPPORTED"

\* With as many bytes as an instruction can have nothing more is asked for, but
\* for the user-MSR opcode in the last of them.
Prompt ==
  have >= MaxInstructionSize /\ answer.status = "TRUNCATED" =>
    HasEvex /\ IsUserMsr(EvexHere) /\ EvexHere.end = have

-----------------------------------------------------------------------------
(* What a comment of x86_decoder.c says and the code does not do.          *)

\* A stack pair with W=1 and ND=1 reaches the generated table before it is
\* refused as an ordinary POP (x86_decoder.c, 9109).
StackPairHandedOn ==
  answer.status = "INVALID" =>
    LET whole == Ask(Len(caller.stream), AllBits)
    IN  whole.status = "OK" => whole.name # "POP2P"

=============================================================================
