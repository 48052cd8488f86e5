-------------------------- MODULE X86CursorProofs ---------------------------
(***************************************************************************)
(* The cursor of the x86 decoder stays inside the buffer and the limit,    *)
(* for every limit, every stream and every set of modes; and a caller that *)
(* has as many bytes as the limit is not asked for more.                   *)
(***************************************************************************)
EXTENDS X86Cursor, SequenceTheorems, TLAPS

Kinds == {"opcode", "modrm", "sib"}

\* What may be under the cursor is a byte.
LEMMA AheadIsByte ==
  ASSUME TypeOK, NEW kind \in Kinds
  PROVE  Ahead(kind) \subseteq Byte
<1>1. CASE position < Len(tape)
  <2>1. tape[position + 1] \in Byte
    BY <1>1, SMT, CursorAssumption DEF TypeOK, Sizes
  <2> QED
    BY <1>1, <2>1 DEF Ahead
<1>2. CASE ~(position < Len(tape))
  BY <1>2, CursorAssumption DEF Ahead, Kinds
<1> QED
  BY <1>1, <1>2

\* Looking at a byte leaves a tape of bytes.
LEMMA LookAtTypes ==
  ASSUME tape \in Seq(Byte), NEW b \in Byte, LookAt(b)
  PROVE  tape' \in Seq(Byte)
BY DEF LookAt

\* A read that decoder_require allows ends inside the buffer and the limit.
LEMMA RequireBounds ==
  ASSUME TypeOK, NEW count \in Nat, Require(count) = "OK"
  PROVE  /\ position + count \in Sizes
         /\ position + count <= codeSize
BY CursorAssumption DEF TypeOK, Sizes, Require

LEMMA RequireStatus ==
  ASSUME NEW count
  PROVE  Require(count) \in {"OK", "INVALID", "TRUNCATED"}
BY DEF Require

\* An answer is a status with a length that is inside the limit.
LEMMA ReturnTypes ==
  ASSUME TypeOK, NEW status \in Statuses, Return(status)
  PROVE  /\ pc' \in Labels
         /\ answer' \in [status : Statuses \cup {"NONE"}, length : Sizes]
         /\ settled' \in [status : Statuses \cup {"NONE"}, length : Sizes,
                          size : Nat]
<1> DEFINE length == IF status = "OK" THEN position ELSE 0
<1>1. length \in Sizes
  BY CursorAssumption DEF TypeOK, Sizes
<1>2. pc' \in Labels
  BY DEF Return, Labels
<1>3. answer' = [status |-> status, length |-> length]
  BY DEF Return
<1>4. settled' \in {[status |-> status, length |-> length, size |-> codeSize],
                    settled}
  BY DEF Return
<1> QED
  BY <1>1, <1>2, <1>3, <1>4 DEF TypeOK

\* The displacement has none, one, two, four or eight bytes.
LEMMA DisplacementSizes ==
  ASSUME TypeOK
  PROVE  displacement \in {0, 1, 2, 4, 8}
<1>1. addrBits \in {16, 32, 64}
  BY Zenon DEF addrBits, AddressBits
<1>2. addrBits \div 8 \in {2, 4, 8}
  BY <1>1
<1> DEFINE wide == IF addrBits = 16 THEN 2 ELSE 4
<1>3. wide \in {0, 1, 2, 4, 8}
  OBVIOUS
<1>4. AddressBytes(encoding.modrm, encoding.sib, addrBits) \in {0, 1, 2, 4, 8}
  <2> DEFINE absolute ==
        IF addrBits = 16 THEN Rm(encoding.modrm) = 6
        ELSE IF Rm(encoding.modrm) = 4 THEN encoding.sib % 8 = 5
        ELSE Rm(encoding.modrm) = 5
  <2>1. AddressBytes(encoding.modrm, encoding.sib, addrBits) =
          CASE Mod(encoding.modrm) = 0 -> IF absolute THEN wide ELSE 0
            [] Mod(encoding.modrm) = 1 -> 1
            [] Mod(encoding.modrm) = 2 -> wide
            [] OTHER -> 0
    BY Zenon DEF AddressBytes
  <2> HIDE DEF wide, absolute
  <2>2. (IF absolute THEN wide ELSE 0) \in {0, 1, 2, 4, 8}
    BY <1>3
  <2> QED
    BY <1>3, <2>1, <2>2, Zenon
<1> QED
  BY <1>2, <1>4 DEF displacement, DisplacementBytes

\* An immediate has one, two, four or eight bytes.
LEMMA ImmediateSizes ==
  ASSUME TypeOK
  PROVE  immediates \in Seq({1, 2, 4, 8})
<1>1. opBits \in {16, 32, 64}
  BY Zenon DEF opBits, OperandBits
<1>2. opBits \div 8 \in {1, 2, 4, 8}
  BY <1>1
<1> DEFINE sized == IF opBits = 64 THEN 4 ELSE opBits \div 8
           push == PushBytes(mode, prefix.operand, opBits)
           relative == IF mode = 64 THEN 4 ELSE sized
<1>3. sized \in {1, 2, 4, 8} /\ push \in {1, 2, 4, 8} /\ relative \in {1, 2, 4, 8}
  BY <1>2 DEF PushBytes
<1>4. immediates =
        CASE opcode \in ByteImmediate -> <<1>>
          [] opcode \in SizedImmediate -> <<sized>>
          [] opcode = \hF6 /\ Reg(encoding.modrm) <= 1 -> <<1>>
          [] opcode = \hF7 /\ Reg(encoding.modrm) <= 1 -> <<sized>>
          [] opcode = \h68 -> <<push>>
          [] opcode \in \hB8..\hBF -> <<opBits \div 8>>
          [] opcode \in {\hE8, \hE9} -> <<relative>>
          [] opcode \in {\h9A, \hEA} -> <<opBits \div 8, 2>>
          [] opcode \in {\hC2, \hCA} -> <<2>>
          [] opcode = \hC8 -> <<2, 1>>
          [] OTHER -> <<>>
  BY Zenon DEF immediates, Immediates
<1>5. immediates \in {<<1>>, <<sized>>, <<push>>, <<opBits \div 8>>, <<relative>>,
                      <<opBits \div 8, 2>>, <<2>>, <<2, 1>>, <<>>}
  BY <1>4, Zenon
<1> HIDE DEF sized, push, relative
<1>6. \A x \in {1, 2, 4, 8} : <<x>> \in Seq({1, 2, 4, 8})
                              /\ <<x, 2>> \in Seq({1, 2, 4, 8})
  OBVIOUS
<1>7. <<2, 1>> \in Seq({1, 2, 4, 8}) /\ <<>> \in Seq({1, 2, 4, 8})
  OBVIOUS
<1> QED
  BY <1>2, <1>3, <1>5, <1>6, <1>7

-----------------------------------------------------------------------------
(* TypeOK, action by action.                                               *)

LEMMA WithLegacyTypes ==
  ASSUME prefix \in Prefixes, NEW b \in Legacy
  PROVE  WithLegacy(b) \in Prefixes /\ WithLegacy(b).wait = prefix.wait
<1> DEFINE lock == prefix.lock \/ b = \hF0
           operand == prefix.operand \/ b = \h66
           address == prefix.address \/ b = \h67
           repeat == IF b \in {\hF2, \hF3} THEN b ELSE prefix.repeat
           segment == IF b \in Segments THEN b ELSE prefix.segment
<1>1. repeat \in {0, \hF2, \hF3} /\ segment \in Segments \cup {0}
  BY DEF Prefixes
<1>2. lock \in BOOLEAN /\ operand \in BOOLEAN /\ address \in BOOLEAN
  BY Zenon
<1>3. WithLegacy(b) =
        [prefix EXCEPT !.lock = lock, !.repeat = repeat, !.operand = operand,
                       !.address = address, !.segment = segment, !.rex = 0]
  BY Zenon DEF WithLegacy, Prefixes
<1> HIDE DEF lock, operand, address, repeat, segment
<1>4. [prefix EXCEPT !.lock = lock] \in Prefixes
  BY <1>2 DEF Prefixes
<1>5. [prefix EXCEPT !.lock = lock, !.repeat = repeat] \in Prefixes
  BY <1>1, <1>4, ZenonT(60) DEF Prefixes
<1>6. [prefix EXCEPT !.lock = lock, !.repeat = repeat, !.operand = operand]
        \in Prefixes
  BY <1>2, <1>5, ZenonT(60) DEF Prefixes
<1>7. [prefix EXCEPT !.lock = lock, !.repeat = repeat, !.operand = operand,
                     !.address = address] \in Prefixes
  BY <1>2, <1>6, ZenonT(60) DEF Prefixes
<1>8. [prefix EXCEPT !.lock = lock, !.repeat = repeat, !.operand = operand,
                     !.address = address, !.segment = segment] \in Prefixes
  BY <1>1, <1>7, ZenonT(60) DEF Prefixes
<1> DEFINE seen == [prefix EXCEPT !.lock = lock, !.repeat = repeat,
                                  !.operand = operand, !.address = address,
                                  !.segment = segment]
<1>9. WithLegacy(b) = [seen EXCEPT !.rex = 0]
  BY <1>3
<1>10. seen \in Prefixes /\ seen.wait = prefix.wait
  BY <1>8 DEF Prefixes
<1> HIDE DEF seen
<1>11. /\ [seen EXCEPT !.rex = 0] \in Prefixes
       /\ [seen EXCEPT !.rex = 0].wait = seen.wait
  BY <1>10 DEF Prefixes
<1> QED
  BY <1>9, <1>10, <1>11

LEMMA InitTypes == Init => TypeOK
<1> SUFFICES ASSUME Init PROVE TypeOK
  OBVIOUS
<1>1. NoPrefix \in Prefixes
  BY DEF NoPrefix, Prefixes
<1>2. 0 \in Sizes /\ 0 \in Byte
  BY CursorAssumption DEF Sizes, Byte
<1>3. NoEncoding \in Encodings
  BY <1>2 DEF NoEncoding, Encodings
<1> QED
  BY <1>1, <1>2, <1>3, CursorAssumption
  DEF Init, TypeOK, Labels, Statuses, Unanswered, Unsettled

LEMMA CallTypes ==
  ASSUME TypeOK, Call
  PROVE  TypeOK'
<1>1. NoPrefix \in Prefixes
  BY DEF NoPrefix, Prefixes
<1>2. 0 \in Sizes /\ 0 \in Byte
  BY CursorAssumption DEF Sizes, Byte
<1>3. NoEncoding \in Encodings
  BY <1>2 DEF NoEncoding, Encodings
<1>4. Unanswered \in [status : Statuses \cup {"NONE"}, length : Sizes]
  BY <1>2 DEF Unanswered
<1> QED
  BY <1>1, <1>2, <1>3, <1>4 DEF Call, TypeOK, Labels, stream

\* A read that fails, in any action.
LEMMA FailTypes ==
  ASSUME TypeOK, NEW status \in Statuses, Fail(status), mode' = mode,
         codeSize' = codeSize
  PROVE  TypeOK'
<1>1. Return(status) /\ UNCHANGED <<tape, decoder>>
  BY DEF Fail
<1> QED
  BY <1>1, ReturnTypes DEF TypeOK, decoder

LEMMA ScanForWaitTypes ==
  ASSUME TypeOK, ScanForWait
  PROVE  TypeOK'
<1>1. CASE ~InBuffer /\ NoAlias /\ UNCHANGED tape
  BY <1>1, CursorAssumption DEF ScanForWait, NoAlias, Goto, TypeOK, Labels, Sizes
<1>2. ASSUME InBuffer,
             NEW b \in Ahead("opcode"),
             CASE position = 0 /\ b = Fwait -> ScanPast(b, "wait")
               [] position > 0 /\ IsPrefix(b) -> ScanPast(b, "wait")
               [] position > 0 /\ b \in X87 -> ScanPast(b, "alias")
               [] OTHER -> LookAt(b) /\ NoAlias
      PROVE  TypeOK'
  <2>1. b \in Byte
    BY AheadIsByte DEF Kinds
  <2>2. \/ ScanPast(b, "wait") \/ ScanPast(b, "alias")
        \/ LookAt(b) /\ NoAlias
    BY <1>2, Zenon
  <2>3. LookAt(b)
    BY <2>2 DEF ScanPast
  <2>4. tape' \in Seq(Byte)
    BY <2>1, <2>3, LookAtTypes DEF TypeOK
  <2>5. position' \in {0, position + 1} /\ prefix' = prefix
    BY <2>2 DEF ScanPast, NoAlias
  <2>6. pc' \in Labels /\ answer' = answer /\ settled' = settled
    BY <2>2 DEF ScanPast, NoAlias, Goto, Labels
  <2>7. position' \in Sizes /\ position' <= codeSize
    BY <1>2, <2>5, CursorAssumption DEF InBuffer, TypeOK, Sizes
  <2> QED
    BY <2>4, <2>5, <2>6, <2>7 DEF ScanForWait, TypeOK
<1> QED
  BY <1>1, <1>2, Zenon DEF ScanForWait

LEMMA ScanForAliasTypes ==
  ASSUME TypeOK, ScanForAlias
  PROVE  TypeOK'
<1>1. CASE ~InBuffer /\ NoAlias /\ UNCHANGED tape
  BY <1>1, CursorAssumption DEF ScanForAlias, NoAlias, Goto, TypeOK, Labels, Sizes
<1>2. ASSUME InBuffer, NEW b \in Ahead("modrm"), LookAt(b),
             IF X87Waits(tape[position], b)
             THEN /\ position' = 1
                  /\ prefix' = [prefix EXCEPT !.wait = TRUE]
                  /\ Goto("prefixes")
             ELSE NoAlias
      PROVE  TypeOK'
  <2>1. tape' \in Seq(Byte)
    BY <1>2, AheadIsByte, LookAtTypes DEF Kinds, TypeOK
  <2>2. [prefix EXCEPT !.wait = TRUE] \in Prefixes
    BY ZenonT(60) DEF TypeOK, Prefixes
  <2>3. prefix' \in Prefixes
    BY <1>2, <2>2 DEF NoAlias, TypeOK
  <2>4. position' \in {0, 1}
    BY <1>2 DEF NoAlias
  <2>5. position' \in Sizes /\ position' <= codeSize
    BY <1>2, <2>4, CursorAssumption DEF InBuffer, TypeOK, Sizes
  <2>6. pc' \in Labels /\ answer' = answer /\ settled' = settled
    BY <1>2 DEF NoAlias, Goto, Labels
  <2> QED
    BY <2>1, <2>3, <2>5, <2>6 DEF ScanForAlias, TypeOK
<1> QED
  BY <1>1, <1>2 DEF ScanForAlias

LEMMA PrefixTypes ==
  ASSUME TypeOK, Prefix
  PROVE  TypeOK'
<1>1. PICK b \in Ahead("opcode") :
        /\ IsPrefix(b)
        /\ LookAt(b)
        /\ prefix' = IF b \in Legacy THEN WithLegacy(b)
                     ELSE [prefix EXCEPT !.rex = b]
  BY DEF Prefix
<1>2. tape' \in Seq(Byte)
  BY <1>1, AheadIsByte, LookAtTypes DEF Kinds, TypeOK
<1>3. prefix' \in Prefixes
  <2>1. CASE b \in Legacy
    BY <1>1, <2>1, WithLegacyTypes DEF TypeOK
  <2>2. CASE b \notin Legacy
    <3>1. b \in \h40..\h4F
      BY <1>1, <2>2 DEF IsPrefix, IsRex
    <3>2. [prefix EXCEPT !.rex = b] \in Prefixes
      BY <3>1 DEF TypeOK, Prefixes
    <3> QED
      BY <1>1, <2>2, <3>2
  <2> QED
    BY <2>1, <2>2
<1>4. position' \in Sizes /\ position' <= codeSize
  BY CursorAssumption DEF Prefix, InBuffer, TypeOK, Sizes
<1> QED
  BY <1>2, <1>3, <1>4 DEF Prefix, Goto, TypeOK, Labels

LEMMA Rex2Types ==
  ASSUME TypeOK, Rex2Prefix
  PROVE  TypeOK'
<1> DEFINE status == IF prefix.rex # 0 THEN "INVALID"
                     ELSE IF Require(2) = "OK" THEN "HANDED_ON"
                     ELSE Require(2)
<1>1. PICK b \in Ahead("opcode") : LookAt(b) /\ Return(status)
  BY DEF Rex2Prefix
<1>2. status \in Statuses
  BY RequireStatus DEF Statuses
<1>3. tape' \in Seq(Byte)
  BY <1>1, AheadIsByte, LookAtTypes DEF Kinds, TypeOK
<1> HIDE DEF status
<1>4. /\ pc' \in Labels
      /\ answer' \in [status : Statuses \cup {"NONE"}, length : Sizes]
      /\ settled' \in [status : Statuses \cup {"NONE"}, length : Sizes, size : Nat]
  BY <1>1, <1>2, ReturnTypes
<1> QED
  BY <1>3, <1>4 DEF Rex2Prefix, TypeOK, decoder

LEMMA OpcodeTypes ==
  ASSUME TypeOK, Opcode
  PROVE  TypeOK'
<1>1. PICK b \in Ahead("opcode") :
        /\ LookAt(b)
        /\ opcode' = b
        /\ CASE b \in HandedOn -> Return("HANDED_ON")
             [] Refused(b, mode) -> Return("INVALID")
             [] TakesModrm(b) /\ ~Refused(b, mode) -> Goto("modrm")
             [] OTHER -> Goto("displacement")
  BY DEF Opcode
<1>2. b \in Byte
  BY AheadIsByte DEF Kinds
<1>3. tape' \in Seq(Byte)
  BY <1>1, <1>2, LookAtTypes DEF TypeOK
<1>4. \/ Return("HANDED_ON") \/ Return("INVALID")
      \/ Goto("modrm") \/ Goto("displacement")
  BY <1>1, Zenon
<1>5. /\ pc' \in Labels
      /\ answer' \in [status : Statuses \cup {"NONE"}, length : Sizes]
      /\ settled' \in [status : Statuses \cup {"NONE"}, length : Sizes, size : Nat]
  <2>1. "HANDED_ON" \in Statuses /\ "INVALID" \in Statuses
    BY DEF Statuses
  <2>2. CASE Return("HANDED_ON") \/ Return("INVALID")
    BY <2>1, <2>2, ReturnTypes
  <2>3. CASE Goto("modrm") \/ Goto("displacement")
    BY <2>3 DEF Goto, Labels, TypeOK
  <2> QED
    BY <1>4, <2>2, <2>3
<1>6. position' \in Sizes /\ position' <= codeSize
  BY CursorAssumption DEF Opcode, InBuffer, TypeOK, Sizes
<1>7. encoding' \in Encodings
  BY DEF Opcode, TypeOK, Encodings
<1> QED
  BY <1>1, <1>2, <1>3, <1>5, <1>6, <1>7 DEF Opcode, TypeOK

LEMMA PrefixFailureTypes ==
  ASSUME TypeOK, PrefixLimit \/ PrefixesTruncated
  PROVE  TypeOK'
<1>1. "INVALID" \in Statuses /\ "TRUNCATED" \in Statuses
  BY DEF Statuses
<1>2. \/ Fail("INVALID") \/ Fail("TRUNCATED")
  BY DEF PrefixLimit, PrefixesTruncated
<1>3. mode' = mode /\ codeSize' = codeSize
  BY DEF PrefixLimit, PrefixesTruncated
<1> QED
  BY <1>1, <1>2, <1>3, FailTypes

LEMMA MissingTypes ==
  ASSUME TypeOK, ModrmMissing \/ SibMissing \/ DisplacementMissing
                 \/ ImmediateMissing
  PROVE  TypeOK'
<1>1. \A count : Require(count) \in Statuses
  BY RequireStatus DEF Statuses
<1>2. NoModrm \in Statuses
  BY <1>1 DEF NoModrm, Statuses
<1>3. \E status \in Statuses : Fail(status)
  BY <1>1, <1>2
  DEF ModrmMissing, SibMissing, DisplacementMissing, ImmediateMissing
<1>4. mode' = mode /\ codeSize' = codeSize
  BY DEF ModrmMissing, SibMissing, DisplacementMissing, ImmediateMissing
<1> QED
  BY <1>3, <1>4, FailTypes

LEMMA PeekedStatus ==
  ASSUME NEW b
  PROVE  /\ Peeked(b) \in Statuses
         /\ Peeked(b) = "TRUNCATED" => Require(1) = "TRUNCATED"
         /\ Peeked(b) = "OK" => Require(1) = "OK"
<1>1. Peeked(b) \in {"INVALID", "HANDED_ON", Require(1)}
  BY Zenon DEF Peeked
<1> QED
  BY <1>1, RequireStatus DEF Statuses

LEMMA ModrmRejectedTypes ==
  ASSUME TypeOK, ModrmRejected
  PROVE  TypeOK'
<1>1. PICK b \in Ahead("modrm") : LookAt(b) /\ Return(Peeked(b))
  BY DEF ModrmRejected
<1>2. tape' \in Seq(Byte)
  BY <1>1, AheadIsByte, LookAtTypes DEF Kinds, TypeOK
<1>3. /\ pc' \in Labels
      /\ answer' \in [status : Statuses \cup {"NONE"}, length : Sizes]
      /\ settled' \in [status : Statuses \cup {"NONE"}, length : Sizes, size : Nat]
  BY <1>1, PeekedStatus, ReturnTypes
<1> QED
  BY <1>2, <1>3 DEF ModrmRejected, TypeOK, decoder

LEMMA ModrmTypes ==
  ASSUME TypeOK, Modrm
  PROVE  TypeOK'
<1>1. PICK b \in Ahead("modrm") :
        /\ LookAt(b)
        /\ encoding' = [encoding EXCEPT !.modrmOffset = position, !.modrm = b]
        /\ Goto(IF TakesSib(b, addrBits) THEN "sib" ELSE "displacement")
  BY DEF Modrm
<1>2. b \in Byte
  BY AheadIsByte DEF Kinds
<1>3. tape' \in Seq(Byte)
  BY <1>1, <1>2, LookAtTypes DEF TypeOK
<1>4. position' \in Sizes /\ position' <= codeSize
  BY RequireBounds DEF Modrm
<1>5. encoding' \in Encodings
  BY <1>1, <1>2 DEF TypeOK, Encodings
<1>6. pc' \in Labels /\ answer' = answer /\ settled' = settled
  BY <1>1 DEF Goto, Labels
<1> QED
  BY <1>3, <1>4, <1>5, <1>6 DEF Modrm, TypeOK

LEMMA SibTypes ==
  ASSUME TypeOK, Sib
  PROVE  TypeOK'
<1>1. PICK b \in Ahead("sib") :
        /\ LookAt(b)
        /\ encoding' = [encoding EXCEPT !.sibOffset = position, !.sib = b]
  BY DEF Sib
<1>2. b \in Byte
  BY AheadIsByte DEF Kinds
<1>3. tape' \in Seq(Byte)
  BY <1>1, <1>2, LookAtTypes DEF TypeOK
<1>4. position' \in Sizes /\ position' <= codeSize
  BY RequireBounds DEF Sib
<1>5. encoding' \in Encodings
  BY <1>1, <1>2 DEF TypeOK, Encodings
<1>6. pc' \in Labels /\ answer' = answer /\ settled' = settled
  BY DEF Sib, Goto, Labels
<1> QED
  BY <1>3, <1>4, <1>5, <1>6 DEF Sib, TypeOK

LEMMA JudgedStatus ==
  Judged \in Statuses /\ Judged # "TRUNCATED"
<1>1. Verdict(opcode, encoding.modrm, prefix.lock)
        \in {"OK", "INVALID", "UNSUPPORTED"}
  BY Zenon DEF Verdict
<1> QED
  BY <1>1 DEF Judged, Statuses

LEMMA DisplacementTypes ==
  ASSUME TypeOK, Displacement
  PROVE  TypeOK'
<1>1. displacement \in {0, 1, 2, 4, 8}
  BY DisplacementSizes
<1>2. position' \in Sizes /\ position' <= codeSize
  <2>1. displacement \in Nat /\ Require(displacement) = "OK"
    BY <1>1 DEF Displacement
  <2> QED
    BY <2>1, RequireBounds DEF Displacement
<1>3. encoding' \in Encodings
  BY <1>1 DEF Displacement, TypeOK, Encodings
<1>4. /\ pc' \in Labels
      /\ answer' \in [status : Statuses \cup {"NONE"}, length : Sizes]
      /\ settled' \in [status : Statuses \cup {"NONE"}, length : Sizes, size : Nat]
  <2>1. CASE Judged = "OK"
    BY <2>1 DEF Displacement, Goto, Labels, TypeOK
  <2>2. CASE Judged # "OK"
    BY <2>2, JudgedStatus, ReturnTypes DEF Displacement
  <2> QED
    BY <2>1, <2>2
<1> QED
  BY <1>2, <1>3, <1>4 DEF Displacement, TypeOK, stream

LEMMA ImmediateTypes ==
  ASSUME TypeOK, Immediate
  PROVE  TypeOK'
<1> DEFINE size == immediates[Taken + 1]
           field == <<position, size>>
<1>1. encoding.immediates \in Seq(Sizes \X {1, 2, 4, 8})
  BY DEF TypeOK, Encodings
<1>2. Taken \in Nat
  BY <1>1 DEF Taken
<1>3. size \in {1, 2, 4, 8}
  BY <1>2, ImmediateSizes DEF Immediate
<1>4. position' \in Sizes /\ position' <= codeSize
  <2>1. size \in Nat /\ Require(size) = "OK"
    BY <1>3 DEF Immediate
  <2> HIDE DEF size
  <2>2. position + size \in Sizes /\ position + size <= codeSize
    BY <2>1, RequireBounds
  <2> QED
    BY <2>2 DEF Immediate, size
<1>5. field \in Sizes \X {1, 2, 4, 8}
  BY <1>3 DEF TypeOK
<1> HIDE DEF field
<1>6. Append(encoding.immediates, field) \in Seq(Sizes \X {1, 2, 4, 8})
  BY <1>1, <1>5
<1>7. encoding' = [encoding EXCEPT !.immediates = Append(encoding.immediates, field)]
  BY DEF Immediate, field
<1>8. encoding' \in Encodings
  BY <1>6, <1>7 DEF TypeOK, Encodings
<1> QED
  BY <1>4, <1>8 DEF Immediate, Goto, TypeOK, Labels, stream

LEMMA FinishTypes ==
  ASSUME TypeOK, Finish
  PROVE  TypeOK'
<1>1. PICK status \in Statuses : Return(status)
  BY DEF Finish, Statuses
<1>2. /\ pc' \in Labels
      /\ answer' \in [status : Statuses \cup {"NONE"}, length : Sizes]
      /\ settled' \in [status : Statuses \cup {"NONE"}, length : Sizes, size : Nat]
  BY <1>1, ReturnTypes
<1> QED
  BY <1>2 DEF Finish, TypeOK, stream, decoder

LEMMA NextTypes ==
  ASSUME TypeOK, [Next]_vars
  PROVE  TypeOK'
<1>1. CASE Call
  BY <1>1, CallTypes
<1>2. CASE ScanForWait \/ ScanForAlias
  BY <1>2, ScanForWaitTypes, ScanForAliasTypes
<1>3. CASE PrefixLimit \/ PrefixesTruncated
  BY <1>3, PrefixFailureTypes
<1>4. CASE Prefix \/ Rex2Prefix \/ Opcode
  BY <1>4, PrefixTypes, Rex2Types, OpcodeTypes
<1>5. CASE ModrmMissing \/ SibMissing \/ DisplacementMissing \/ ImmediateMissing
  BY <1>5, MissingTypes
<1>6. CASE ModrmRejected \/ Modrm \/ Sib
  BY <1>6, ModrmRejectedTypes, ModrmTypes, SibTypes
<1>7. CASE Displacement \/ Immediate \/ Finish
  BY <1>7, DisplacementTypes, ImmediateTypes, FinishTypes
<1>8. CASE UNCHANGED vars
  BY <1>8 DEF vars, stream, decoder, TypeOK
<1> QED
  BY <1>1, <1>2, <1>3, <1>4, <1>5, <1>6, <1>7, <1>8 DEF Next, Step

\* For every limit, stream and mode: the cursor is never past the end of the
\* buffer or the limit, and no offset or size of the encoding is.
THEOREM CursorTypes == Spec => []TypeOK
<1>1. Init => TypeOK
  BY InitTypes
<1>2. TypeOK /\ [Next]_vars => TypeOK'
  BY NextTypes
<1> QED
  BY <1>1, <1>2, PTL DEF Spec

-----------------------------------------------------------------------------
(* No more bytes than the limit are asked for.  The invariant is inductive *)
(* with TypeOK: each answer is judged in the step that gives it.           *)

\* A read that asks for more has found the end of the buffer before the limit.
LEMMA RequireTruncated ==
  ASSUME TypeOK, NEW count \in Nat, Require(count) = "TRUNCATED"
  PROVE  codeSize < MaxInstructionSize
BY CursorAssumption DEF TypeOK, Sizes, Require

LEMMA LimitByStatus ==
  ASSUME TypeOK, NEW status, Return(status), codeSize' = codeSize,
         status = "TRUNCATED" => codeSize < MaxInstructionSize
  PROVE  NoMoreThanLimit'
<1>1. answer'.status = status
  BY DEF Return
<1> QED
  BY <1>1, CursorAssumption DEF NoMoreThanLimit, Answered, TypeOK

LEMMA LimitByLabel ==
  ASSUME NEW label \in Labels \ {"idle"}, Goto(label)
  PROVE  NoMoreThanLimit'
BY DEF Goto, NoMoreThanLimit, Answered

LEMMA LimitOfPrefixes ==
  ASSUME TypeOK, PrefixLimit \/ PrefixesTruncated \/ Rex2Prefix \/ Opcode
  PROVE  NoMoreThanLimit'
<1>1. codeSize' = codeSize
  BY DEF PrefixLimit, PrefixesTruncated, Rex2Prefix, Opcode
<1>2. CASE PrefixLimit
  BY <1>1, <1>2, LimitByStatus DEF PrefixLimit, Fail
<1>3. CASE PrefixesTruncated
  <2>1. codeSize < MaxInstructionSize
    BY <1>3, CursorAssumption DEF PrefixesTruncated, TypeOK, Sizes
  <2> QED
    BY <1>1, <1>3, <2>1, LimitByStatus DEF PrefixesTruncated, Fail
<1>4. CASE Rex2Prefix
  <2> DEFINE status == IF prefix.rex # 0 THEN "INVALID"
                       ELSE IF Require(2) = "OK" THEN "HANDED_ON"
                       ELSE Require(2)
  <2>1. Return(status)
    BY <1>4 DEF Rex2Prefix
  <2>2. status = "TRUNCATED" => codeSize < MaxInstructionSize
    BY RequireTruncated
  <2> HIDE DEF status
  <2> QED
    BY <1>1, <2>1, <2>2, LimitByStatus
<1>5. CASE Opcode
  <2>1. \/ Return("HANDED_ON") \/ Return("INVALID")
        \/ Goto("modrm") \/ Goto("displacement")
    <3>1. PICK b \in Ahead("opcode") :
            CASE b \in HandedOn -> Return("HANDED_ON")
              [] Refused(b, mode) -> Return("INVALID")
              [] TakesModrm(b) /\ ~Refused(b, mode) -> Goto("modrm")
              [] OTHER -> Goto("displacement")
      BY <1>5 DEF Opcode
    <3> QED
      BY <3>1, Zenon
  <2> QED
    BY <1>1, <2>1, LimitByStatus, LimitByLabel DEF Labels
<1> QED
  BY <1>2, <1>3, <1>4, <1>5

LEMMA LimitOfModrm ==
  ASSUME TypeOK, ModrmMissing \/ ModrmRejected
  PROVE  NoMoreThanLimit'
<1>1. codeSize' = codeSize
  BY DEF ModrmMissing, ModrmRejected
<1>2. CASE ModrmMissing /\ ~(opcode \in X87 /\ position >= codeSize)
  <2>1. Return(Require(1))
    BY <1>2 DEF ModrmMissing, NoModrm, Fail
  <2> QED
    BY <1>1, <2>1, RequireTruncated, LimitByStatus
<1>3. CASE ModrmMissing /\ opcode \in X87 /\ position >= codeSize
  <2>1. opcode' = opcode /\ position' = position
    BY <1>3 DEF ModrmMissing, Fail, decoder
  <2>2. codeSize >= MaxInstructionSize =>
          codeSize = MaxInstructionSize /\ position = MaxInstructionSize
    BY <1>3, CursorAssumption DEF TypeOK, Sizes
  <2> QED
    BY <1>1, <1>3, <2>1, <2>2 DEF NoMoreThanLimit
<1>4. CASE ModrmRejected
  <2>1. PICK b \in Ahead("modrm") : Return(Peeked(b))
    BY <1>4 DEF ModrmRejected
  <2>2. Peeked(b) = "TRUNCATED" => codeSize < MaxInstructionSize
    BY PeekedStatus, RequireTruncated
  <2> QED
    BY <1>1, <2>1, <2>2, LimitByStatus
<1> QED
  BY <1>2, <1>3, <1>4

LEMMA LimitOfFields ==
  ASSUME TypeOK, SibMissing \/ DisplacementMissing \/ Displacement
                 \/ ImmediateMissing \/ Finish
  PROVE  NoMoreThanLimit'
<1>1. codeSize' = codeSize
  BY DEF SibMissing, DisplacementMissing, Displacement, ImmediateMissing, Finish
<1>2. CASE SibMissing
  BY <1>1, <1>2, RequireTruncated, LimitByStatus DEF SibMissing, Fail
<1>3. CASE DisplacementMissing
  <2>1. displacement \in Nat
    BY DisplacementSizes
  <2> QED
    BY <1>1, <1>3, <2>1, RequireTruncated, LimitByStatus
    DEF DisplacementMissing, Fail
<1>4. CASE Displacement
  BY <1>1, <1>4, JudgedStatus, LimitByStatus, LimitByLabel
  DEF Displacement, Labels
<1>5. CASE ImmediateMissing
  <2> DEFINE size == immediates[Taken + 1]
  <2>1. Taken \in Nat
    BY DEF TypeOK, Encodings, Taken
  <2>2. size \in Nat
    BY <1>5, <2>1, ImmediateSizes DEF ImmediateMissing
  <2>3. Return(Require(size))
    BY <1>5 DEF ImmediateMissing, Fail
  <2> HIDE DEF size
  <2> QED
    BY <1>1, <2>2, <2>3, RequireTruncated, LimitByStatus
<1>6. CASE Finish
  <2>1. PICK status \in {"OK", "INVALID"} : Return(status)
    BY <1>6 DEF Finish
  <2> QED
    BY <1>1, <2>1, LimitByStatus
<1> QED
  BY <1>2, <1>3, <1>4, <1>5, <1>6

\* The other steps give no answer.
LEMMA LimitElsewhere ==
  ASSUME TypeOK, Call \/ ScanForWait \/ ScanForAlias \/ Prefix \/ Modrm \/ Sib
                 \/ Immediate
  PROVE  NoMoreThanLimit'
<1>1. CASE Call
  BY <1>1 DEF Call, NoMoreThanLimit, Answered
<1>2. CASE ScanForWait
  <2>1. CASE NoAlias
    BY <2>1, LimitByLabel DEF NoAlias, Labels
  <2>2. ASSUME NEW b,
               CASE position = 0 /\ b = Fwait -> ScanPast(b, "wait")
                 [] position > 0 /\ IsPrefix(b) -> ScanPast(b, "wait")
                 [] position > 0 /\ b \in X87 -> ScanPast(b, "alias")
                 [] OTHER -> LookAt(b) /\ NoAlias
        PROVE  NoMoreThanLimit'
    <3>1. ScanPast(b, "wait") \/ ScanPast(b, "alias") \/ NoAlias
      BY <2>2, Zenon
    <3> QED
      BY <2>1, <3>1, LimitByLabel DEF ScanPast, Labels
  <2> QED
    BY <1>2, <2>1, <2>2, Zenon DEF ScanForWait
<1>3. CASE ScanForAlias
  BY <1>3, LimitByLabel DEF ScanForAlias, NoAlias, Labels
<1>4. CASE Prefix \/ Sib \/ Immediate
  BY <1>4, LimitByLabel DEF Prefix, Sib, Immediate, Labels
<1>5. CASE Modrm
  <2>1. PICK label \in {"sib", "displacement"} : Goto(label)
    BY <1>5 DEF Modrm
  <2> QED
    BY <2>1, LimitByLabel DEF Labels
<1> QED
  BY <1>1, <1>2, <1>3, <1>4, <1>5

\* For every limit: with as many bytes as the limit the answer is not
\* TRUNCATED, but for an x87 escape in the last of them.
THEOREM LimitHolds == Spec => []NoMoreThanLimit
<1>1. Init => NoMoreThanLimit
  BY CursorAssumption DEF Init, NoMoreThanLimit, Answered
<1>2. TypeOK /\ NoMoreThanLimit /\ [Next]_vars => NoMoreThanLimit'
  <2> SUFFICES ASSUME TypeOK, NoMoreThanLimit, [Next]_vars
               PROVE  NoMoreThanLimit'
    OBVIOUS
  <2>1. CASE UNCHANGED vars
    BY <2>1 DEF vars, stream, decoder, NoMoreThanLimit, Answered
  <2>2. CASE Next
    BY <2>2, LimitOfPrefixes, LimitOfModrm, LimitOfFields, LimitElsewhere
    DEF Next, Step
  <2> QED
    BY <2>1, <2>2
<1> QED
  BY <1>1, <1>2, CursorTypes, PTL DEF Spec

-----------------------------------------------------------------------------
(* The two scans over the prefixes meet at the same instruction.  The      *)
(* look-ahead leaves a promise on the tape: prefixes up to a place k, an   *)
(* x87 opcode behind it and a ModRM byte that makes it a waiting form, all *)
(* in the buffer and inside the limit.  parse_prefixes then cannot stop    *)
(* anywhere but at k.                                                      *)

PrefixesUpTo(k) == \A i \in 2..k : IsPrefix(tape[i])

Promise(k) ==
  /\ PrefixesUpTo(k)
  /\ k + 2 <= Len(tape) /\ k + 2 <= codeSize /\ k + 2 <= MaxInstructionSize
  /\ tape[k + 1] \in X87
  /\ X87Waits(tape[k + 1], tape[k + 2])

\* How far the call has come on the way to k.
Kept(k) ==
  /\ pc = "prefixes" => position \in 1..k
  /\ pc = "modrm" => position = k + 1 /\ opcode = tape[k + 1]
  /\ pc \in {"sib", "displacement", "immediates", "idle"} =>
       opcode = tape[k + 1] /\ encoding.modrm = tape[k + 2]

Scanned ==
  /\ pc = "wait" => PrefixesUpTo(position) /\ position <= Len(tape)
  /\ pc = "alias" => /\ PrefixesUpTo(position - 1)
                     /\ position >= 2 /\ position <= Len(tape)
                     /\ tape[position] \in X87
  /\ pc \in {"wait", "alias"} => ~prefix.wait

WaitInvariant ==
  /\ Scanned
  /\ prefix.wait => \E k \in Nat \ {0} : Promise(k) /\ Kept(k)
  /\ answer.status # "INTERNAL"

\* The bytes that may be prefixes are none of those that end the prefixes.
LEMMA PrefixesApart ==
  /\ \A b \in X87 : /\ ~IsPrefix(b) /\ ~IsRex2(b, mode)
                    /\ b \notin HandedOn /\ ~Refused(b, mode) /\ TakesModrm(b)
                    /\ b # \h8F
  /\ \A b : IsPrefix(b) => ~IsRex2(b, mode)
BY DEF X87, IsPrefix, Legacy, Segments, IsRex, IsRex2, HandedOn, Refused,
       RefusedIn64, TakesModrm

\* What was looked at stays on the tape.
LEMMA TapeGrows ==
  ASSUME TypeOK, NEW kind \in Kinds, NEW b \in Ahead(kind), LookAt(b)
  PROVE  /\ Len(tape') >= Len(tape)
         /\ \A i \in 1..Len(tape) : tape'[i] = tape[i]
         /\ position <= Len(tape) =>
              position + 1 <= Len(tape') /\ tape'[position + 1] = b
<1>1. b \in Byte
  BY AheadIsByte
<1>2. CASE position < Len(tape)
  BY <1>1, <1>2 DEF TypeOK, LookAt, Sizes, Ahead
<1>3. CASE ~(position < Len(tape))
  BY <1>1, <1>3, CursorAssumption DEF TypeOK, LookAt, Sizes
<1> QED
  BY <1>2, <1>3

LEMMA PromiseStays ==
  ASSUME TypeOK, NEW k \in Nat \ {0}, Promise(k),
         mode' = mode, codeSize' = codeSize,
         Len(tape') \in Nat, Len(tape') >= Len(tape),
         \A i \in 1..Len(tape) : tape'[i] = tape[i]
  PROVE  Promise(k)'
<1>1. Len(tape) \in Nat
  BY DEF TypeOK
<1>2. \A i \in 1..(k + 2) : tape'[i] = tape[i]
  BY <1>1 DEF Promise
<1>3. PrefixesUpTo(k)'
  BY <1>2 DEF Promise, PrefixesUpTo, IsPrefix
<1>4. tape'[k + 1] = tape[k + 1] /\ tape'[k + 2] = tape[k + 2]
  BY <1>2
<1> QED
  BY <1>1, <1>3, <1>4 DEF Promise

LEMMA WaitOfCall ==
  ASSUME TypeOK, WaitInvariant, Call
  PROVE  WaitInvariant'
<1>1. /\ pc' = "wait" /\ position' = 0 /\ prefix'.wait = FALSE
      /\ answer'.status = "NONE" /\ tape' = tape
  BY DEF Call, NoPrefix, Unanswered, stream
<1>2. PrefixesUpTo(position)'
  BY <1>1 DEF PrefixesUpTo
<1>3. position' <= Len(tape')
  BY <1>1 DEF TypeOK
<1> QED
  BY <1>1, <1>2, <1>3 DEF WaitInvariant, Scanned

\* The look-ahead gives up, and nothing is promised.
LEMMA WaitOfNoAlias ==
  ASSUME WaitInvariant, pc \in {"wait", "alias"}, NoAlias
  PROVE  WaitInvariant'
BY DEF WaitInvariant, Scanned, NoAlias, Goto

LEMMA WaitOfScanForWait ==
  ASSUME TypeOK, WaitInvariant, ScanForWait
  PROVE  WaitInvariant'
<1>1. pc = "wait" /\ mode' = mode
  BY DEF ScanForWait
<1>2. CASE NoAlias
  BY <1>1, <1>2, WaitOfNoAlias
<1>3. ASSUME NEW b \in Ahead("opcode"),
             CASE position = 0 /\ b = Fwait -> ScanPast(b, "wait")
               [] position > 0 /\ IsPrefix(b) -> ScanPast(b, "wait")
               [] position > 0 /\ b \in X87 -> ScanPast(b, "alias")
               [] OTHER -> LookAt(b) /\ NoAlias
      PROVE  WaitInvariant'
  <2>1. \/ ScanPast(b, "wait") /\ (position = 0 \/ IsPrefix(b))
        \/ ScanPast(b, "alias") /\ position > 0 /\ b \in X87
        \/ NoAlias
    BY <1>3, Zenon
  <2>2. ASSUME NEW label \in {"wait", "alias"}, ScanPast(b, label)
        PROVE  /\ pc' = label /\ position' = position + 1 /\ prefix' = prefix
               /\ answer' = answer
               /\ Len(tape') >= Len(tape)
               /\ \A i \in 1..Len(tape) : tape'[i] = tape[i]
               /\ position + 1 <= Len(tape') /\ tape'[position + 1] = b
    <3>1. position <= Len(tape)
      BY <1>1 DEF WaitInvariant, Scanned
    <3>2. "opcode" \in Kinds
      BY DEF Kinds
    <3>3. LookAt(b)
      BY <2>2 DEF ScanPast
    <3> QED
      BY <2>2, <3>1, <3>2, <3>3, TapeGrows DEF ScanPast, Goto
  <2>3. position \in Nat /\ Len(tape) \in Nat /\ position <= Len(tape)
    BY <1>1, CursorAssumption DEF TypeOK, Sizes, WaitInvariant, Scanned
  <2>4. PrefixesUpTo(position) /\ ~prefix.wait /\ answer.status # "INTERNAL"
    BY <1>1 DEF WaitInvariant, Scanned
  <2>5. CASE ScanPast(b, "wait") /\ (position = 0 \/ IsPrefix(b))
    <3>1. PrefixesUpTo(position)'
      <4> SUFFICES ASSUME NEW i \in 2..(position + 1)
                   PROVE  IsPrefix(tape'[i])
        BY <1>1, <2>2, <2>5 DEF PrefixesUpTo, IsPrefix
      <4>1. CASE i \in 2..position
        <5>1. IsPrefix(tape[i])
          BY <2>4, <4>1 DEF PrefixesUpTo
        <5>2. tape'[i] = tape[i]
          BY <2>2, <2>3, <2>5, <4>1
        <5> QED
          BY <5>1, <5>2
      <4>2. CASE i = position + 1
        <5>1. position # 0
          BY <2>3, <4>2
        <5> QED
          BY <2>2, <2>5, <4>2, <5>1
      <4> QED
        BY <2>3, <4>1, <4>2
    <3> QED
      BY <2>2, <2>4, <2>5, <3>1 DEF WaitInvariant, Scanned
  <2>6. CASE ScanPast(b, "alias") /\ position > 0 /\ b \in X87
    <3>1. PrefixesUpTo(position - 1)'
      <4> SUFFICES ASSUME NEW i \in 2..position
                   PROVE  IsPrefix(tape'[i])
        BY <1>1, <2>2, <2>3, <2>6 DEF PrefixesUpTo, IsPrefix
      <4>1. IsPrefix(tape[i])
        BY <2>4 DEF PrefixesUpTo
      <4>2. tape'[i] = tape[i]
        BY <2>2, <2>3, <2>6
      <4> QED
        BY <4>1, <4>2
    <3>2. position' >= 2
      BY <2>2, <2>3, <2>6
    <3> QED
      BY <2>2, <2>4, <2>6, <3>1, <3>2 DEF WaitInvariant, Scanned
  <2> QED
    BY <1>1, <2>1, <2>5, <2>6, WaitOfNoAlias
<1> QED
  BY <1>2, <1>3, Zenon DEF ScanForWait

\* The promise is made here.
LEMMA WaitOfScanForAlias ==
  ASSUME TypeOK, WaitInvariant, ScanForAlias
  PROVE  WaitInvariant'
<1>1. pc = "alias" /\ mode' = mode /\ codeSize' = codeSize
  BY DEF ScanForAlias
<1>2. CASE NoAlias
  BY <1>1, <1>2, WaitOfNoAlias
<1>3. ASSUME InBuffer, NEW b \in Ahead("modrm"), LookAt(b),
             X87Waits(tape[position], b), position' = 1,
             prefix' = [prefix EXCEPT !.wait = TRUE], Goto("prefixes")
      PROVE  WaitInvariant'
  <2>1. /\ PrefixesUpTo(position - 1) /\ tape[position] \in X87
        /\ position >= 2 /\ position <= Len(tape) /\ answer.status # "INTERNAL"
    BY <1>1 DEF WaitInvariant, Scanned
  <2>2. /\ position \in Nat /\ Len(tape) \in Nat
        /\ position < codeSize /\ position < MaxInstructionSize
        /\ codeSize \in Nat /\ MaxInstructionSize \in Nat
    BY <1>3, CursorAssumption DEF TypeOK, Sizes, InBuffer
  <2>3. /\ \A i \in 1..Len(tape) : tape'[i] = tape[i]
        /\ position + 1 <= Len(tape') /\ tape'[position + 1] = b
    BY <1>3, <2>1, TapeGrows DEF Kinds
  <2>4. PICK k \in Nat \ {0} : k = position - 1
    BY <2>1, <2>2
  <2>5. \A i \in 2..k : IsPrefix(tape'[i])
    <3> TAKE i \in 2..k
    <3>1. IsPrefix(tape[i])
      BY <2>1, <2>4 DEF PrefixesUpTo
    <3>2. tape'[i] = tape[i]
      BY <2>1, <2>2, <2>3, <2>4
    <3> QED
      BY <3>1, <3>2
  <2>6. tape'[position] = tape[position]
    BY <2>1, <2>2, <2>3
  <2>7. Promise(k)'
    BY <1>1, <1>3, <2>1, <2>2, <2>3, <2>4, <2>5, <2>6
    DEF Promise, PrefixesUpTo, IsPrefix
  <2>8. Kept(k)'
    <3>1. pc' = "prefixes" /\ position' = 1
      BY <1>3 DEF Goto
    <3>2. 1 \in 1..k
      OBVIOUS
    <3> QED
      BY <3>1, <3>2 DEF Kept
  <2>9. Scanned' /\ answer'.status # "INTERNAL"
    BY <1>3, <2>1 DEF Scanned, Goto
  <2> QED
    BY <2>4, <2>7, <2>8, <2>9 DEF WaitInvariant
<1> QED
  BY <1>2, <1>3 DEF ScanForAlias, NoAlias

LEMMA WaitOfPrefixes ==
  ASSUME TypeOK, WaitInvariant,
         PrefixLimit \/ PrefixesTruncated \/ Prefix \/ Rex2Prefix \/ Opcode
  PROVE  WaitInvariant'
<1>1. pc = "prefixes" /\ mode' = mode /\ codeSize' = codeSize
  BY DEF PrefixLimit, PrefixesTruncated, Prefix, Rex2Prefix, Opcode
<1>2. \/ PrefixLimit /\ Return("INVALID")
      \/ PrefixesTruncated /\ Return("TRUNCATED")
      \/ Prefix /\ Goto("prefixes")
      \/ Rex2Prefix /\ \E status \in {"INVALID", "HANDED_ON", Require(2)} :
                         Return(status)
      \/ Opcode /\ \/ Return("HANDED_ON") \/ Return("INVALID")
                   \/ Goto("modrm") \/ Goto("displacement")
  <2>1. CASE Opcode
    <3>1. PICK b \in Ahead("opcode") :
            CASE b \in HandedOn -> Return("HANDED_ON")
              [] Refused(b, mode) -> Return("INVALID")
              [] TakesModrm(b) /\ ~Refused(b, mode) -> Goto("modrm")
              [] OTHER -> Goto("displacement")
      BY <2>1 DEF Opcode
    <3> QED
      BY <2>1, <3>1, Zenon
  <2>2. CASE ~Opcode
    BY <2>2 DEF PrefixLimit, PrefixesTruncated, Prefix, Rex2Prefix, Fail
  <2> QED
    BY <2>1, <2>2
<1>3. /\ answer'.status # "INTERNAL"
      /\ pc' \in {"idle", "prefixes", "modrm", "displacement"}
  <2>1. answer.status # "INTERNAL"
    BY DEF WaitInvariant
  <2>2. Require(2) # "INTERNAL"
    BY RequireStatus
  <2> QED
    BY <1>2, <2>1, <2>2 DEF Return, Goto
<1>4. prefix'.wait = prefix.wait
  <2>1. CASE Prefix
    <3>1. PICK b : prefix' = IF b \in Legacy THEN WithLegacy(b)
                             ELSE [prefix EXCEPT !.rex = b]
      BY <2>1 DEF Prefix
    <3>2. prefix \in Prefixes
      BY DEF TypeOK
    <3>3. [prefix EXCEPT !.rex = b].wait = prefix.wait
      BY <3>2 DEF Prefixes
    <3> QED
      BY <3>1, <3>2, <3>3, WithLegacyTypes
  <2>2. CASE ~Prefix
    BY <2>2 DEF PrefixLimit, PrefixesTruncated, Rex2Prefix, Opcode, Fail, decoder
  <2> QED
    BY <2>1, <2>2
<1>5. ASSUME prefix.wait
      PROVE  \E k \in Nat \ {0} : Promise(k)' /\ Kept(k)'
  <2>1. PICK k \in Nat \ {0} : Promise(k) /\ position \in 1..k
    BY <1>1, <1>5 DEF WaitInvariant, Kept
  <2>2. /\ position < Len(tape) /\ position < codeSize
        /\ position < MaxInstructionSize /\ Len(tape) \in Nat
    BY <2>1, CursorAssumption DEF Promise, TypeOK
  <2>3. ~PrefixLimit /\ ~PrefixesTruncated
    BY <2>2, CursorAssumption DEF PrefixLimit, PrefixesTruncated, TypeOK, Sizes
  <2> DEFINE next == tape[position + 1]
  <2>4. \A kind : Ahead(kind) = {next}
    BY <2>2 DEF Ahead
  <2>5. tape' = tape
    BY <2>2, <2>3 DEF LookAt, Prefix, Rex2Prefix, Opcode
  <2>6. Promise(k)'
    BY <1>1, <2>1, <2>2, <2>5, PromiseStays
  <2>7. CASE position < k
    <3>1. IsPrefix(next)
      <4>1. position + 1 \in 2..k
        BY <2>1, <2>7
      <4> QED
        BY <2>1, <4>1 DEF Promise, PrefixesUpTo
    <3>2. ~IsRex2(next, mode)
      BY <3>1, PrefixesApart
    <3> HIDE DEF next
    <3>3. Prefix
      BY <2>3, <2>4, <3>1, <3>2 DEF Rex2Prefix, Opcode
    <3>4. pc' = "prefixes" /\ position' = position + 1
      BY <3>3 DEF Prefix, Goto
    <3>5. position + 1 \in 1..k
      BY <2>1, <2>7
    <3>6. Kept(k)'
      BY <3>4, <3>5 DEF Kept
    <3> QED
      BY <2>6, <3>6
  <2>8. CASE position = k
    <3>1. next \in X87
      BY <2>1, <2>8 DEF Promise
    <3>2. /\ ~IsPrefix(next) /\ ~IsRex2(next, mode)
          /\ next \notin HandedOn /\ ~Refused(next, mode) /\ TakesModrm(next)
      BY <3>1, PrefixesApart
    <3>3. next = tape'[k + 1]
      BY <2>5, <2>8
    <3> HIDE DEF next
    <3>4. Opcode
      BY <2>3, <2>4, <3>2 DEF Prefix, Rex2Prefix
    <3>5. PICK b \in Ahead("opcode") :
            /\ opcode' = b
            /\ CASE b \in HandedOn -> Return("HANDED_ON")
                 [] Refused(b, mode) -> Return("INVALID")
                 [] TakesModrm(b) /\ ~Refused(b, mode) -> Goto("modrm")
                 [] OTHER -> Goto("displacement")
      BY <3>4 DEF Opcode
    <3>6. b = next /\ opcode' = next
      BY <2>4, <3>5
    <3>7. Goto("modrm")
      BY <3>2, <3>5, <3>6, Zenon
    <3>8. pc' = "modrm" /\ position' = k + 1 /\ opcode' = tape'[k + 1]
      BY <2>8, <3>3, <3>4, <3>6, <3>7 DEF Goto, Opcode
    <3>9. Kept(k)'
      BY <3>8 DEF Kept
    <3> QED
      BY <2>6, <3>9
  <2> QED
    BY <2>1, <2>7, <2>8
<1> QED
  BY <1>3, <1>4, <1>5 DEF WaitInvariant, Scanned

\* A step past the opcode that leaves it, the wait and the ModRM byte alone.
LEMMA WaitOfLater ==
  ASSUME TypeOK, WaitInvariant,
         pc \in {"sib", "displacement", "immediates", "idle"},
         pc' \in {"sib", "displacement", "immediates", "idle"},
         mode' = mode, codeSize' = codeSize, prefix' = prefix, opcode' = opcode,
         encoding'.modrm = encoding.modrm, answer'.status # "INTERNAL",
         Len(tape') \in Nat, Len(tape') >= Len(tape),
         \A i \in 1..Len(tape) : tape'[i] = tape[i]
  PROVE  WaitInvariant'
<1>1. ASSUME prefix.wait
      PROVE  \E k \in Nat \ {0} : Promise(k)' /\ Kept(k)'
  <2>1. PICK k \in Nat \ {0} : Promise(k) /\ Kept(k)
    BY <1>1 DEF WaitInvariant
  <2>2. Promise(k)'
    BY <2>1, PromiseStays
  <2>3. tape'[k + 1] = tape[k + 1] /\ tape'[k + 2] = tape[k + 2]
    BY <2>1 DEF Promise, TypeOK
  <2>4. Kept(k)'
    BY <2>1, <2>3 DEF Kept
  <2> QED
    BY <2>1, <2>2, <2>4
<1> QED
  BY <1>1 DEF WaitInvariant, Scanned

LEMMA WaitOfModrm ==
  ASSUME TypeOK, WaitInvariant, ModrmMissing \/ ModrmRejected \/ Modrm
  PROVE  WaitInvariant'
<1>1. /\ pc = "modrm" /\ mode' = mode /\ codeSize' = codeSize
      /\ prefix' = prefix
  BY DEF ModrmMissing, ModrmRejected, Modrm, Fail, decoder
<1>2. \/ ModrmMissing /\ Return(NoModrm)
      \/ ModrmRejected /\ \E b : Return(Peeked(b))
      \/ Modrm /\ (Goto("sib") \/ Goto("displacement"))
  BY DEF ModrmMissing, ModrmRejected, Modrm, Fail
<1>3. answer'.status # "INTERNAL" /\ pc' \in {"idle", "sib", "displacement"}
  <2>1. answer.status # "INTERNAL"
    BY DEF WaitInvariant
  <2>2. NoModrm # "INTERNAL" /\ \A b : Peeked(b) # "INTERNAL"
    <3>1. Require(1) # "INTERNAL"
      BY RequireStatus
    <3>2. \A b : Peeked(b) # "INTERNAL"
      BY <3>1, Zenon DEF Peeked
    <3> QED
      BY <3>1, <3>2 DEF NoModrm
  <2> QED
    BY <1>2, <2>1, <2>2 DEF Return, Goto
<1>4. ASSUME prefix.wait
      PROVE  \E k \in Nat \ {0} : Promise(k)' /\ Kept(k)'
  <2>1. PICK k \in Nat \ {0} : /\ Promise(k)
                               /\ position = k + 1 /\ opcode = tape[k + 1]
    BY <1>1, <1>4 DEF WaitInvariant, Kept
  <2>2. /\ position < Len(tape) /\ position < codeSize
        /\ position < MaxInstructionSize /\ Len(tape) \in Nat
        /\ codeSize \in Nat
    BY <2>1, CursorAssumption DEF Promise, TypeOK
  <2> DEFINE next == tape[position + 1]
  <2>3. \A kind : Ahead(kind) = {next}
    BY <2>2 DEF Ahead
  <2>4. next = tape[k + 2]
    BY <2>1
  <2>5. opcode \in X87 /\ X87Waits(opcode, next) /\ Peeks
    BY <2>1, <2>2, <2>4 DEF Promise, Peeks
  <2>6. Require(1) = "OK"
    BY <2>1, <2>2, CursorAssumption DEF Require, TypeOK, Sizes
  <2>7. opcode # \h8F /\ X87Known(opcode, next)
    BY <2>5, PrefixesApart DEF X87Waits
  <2> HIDE DEF next
  <2>8. Peeked(next) = "OK"
    BY <2>5, <2>6, <2>7, Zenon DEF Peeked
  <2>9. Modrm
    BY <2>3, <2>5, <2>8 DEF ModrmMissing, ModrmRejected
  <2>10. /\ tape' = tape /\ opcode' = opcode
         /\ encoding' = [encoding EXCEPT !.modrmOffset = position, !.modrm = next]
    BY <2>2, <2>3, <2>9 DEF Modrm, LookAt
  <2>11. encoding'.modrm = next
    BY <2>10 DEF TypeOK, Encodings
  <2>12. Promise(k)'
    BY <1>1, <2>1, <2>2, <2>10, PromiseStays
  <2>13. pc' \in {"sib", "displacement"}
    BY <2>9 DEF Modrm, Goto
  <2>14. Kept(k)'
    BY <2>1, <2>4, <2>10, <2>11, <2>13 DEF Kept
  <2> QED
    BY <2>12, <2>14
<1> QED
  BY <1>1, <1>3, <1>4 DEF WaitInvariant, Scanned

LEMMA WaitOfFields ==
  ASSUME TypeOK, WaitInvariant,
         \/ SibMissing \/ Sib \/ DisplacementMissing \/ Displacement
         \/ ImmediateMissing \/ Immediate \/ Finish
  PROVE  WaitInvariant'
<1>1. /\ pc \in {"sib", "displacement", "immediates"}
      /\ mode' = mode /\ codeSize' = codeSize /\ prefix' = prefix
      /\ opcode' = opcode
  BY DEF SibMissing, Sib, DisplacementMissing, Displacement, ImmediateMissing,
         Immediate, Finish, Fail, stream, decoder
<1>2. encoding'.modrm = encoding.modrm
  BY DEF SibMissing, Sib, DisplacementMissing, Displacement, ImmediateMissing,
         Immediate, Finish, Fail, decoder, TypeOK, Encodings
<1>3. /\ Len(tape') \in Nat /\ Len(tape') >= Len(tape)
      /\ \A i \in 1..Len(tape) : tape'[i] = tape[i]
  <2>1. CASE Sib
    <3>1. PICK b \in Ahead("sib") : LookAt(b)
      BY <2>1 DEF Sib
    <3>2. "sib" \in Kinds
      BY DEF Kinds
    <3>3. tape' \in Seq(Byte)
      BY <3>1, <3>2, AheadIsByte, LookAtTypes DEF TypeOK
    <3> QED
      BY <3>1, <3>2, <3>3, TapeGrows
  <2>2. CASE ~Sib
    <3>1. tape' = tape
      BY <2>2 DEF SibMissing, DisplacementMissing, Displacement,
                  ImmediateMissing, Immediate, Finish, Fail, stream
    <3> QED
      BY <3>1 DEF TypeOK
  <2> QED
    BY <2>1, <2>2
<1>4. pc = "displacement" => Judged # "INTERNAL"
  <2>1. ASSUME prefix.wait, pc = "displacement"
        PROVE  X87Waits(opcode, encoding.modrm)
    BY <2>1 DEF WaitInvariant, Promise, Kept
  <2>2. Verdict(opcode, encoding.modrm, prefix.lock)
          \in {"OK", "INVALID", "UNSUPPORTED"}
    BY Zenon DEF Verdict
  <2> QED
    BY <2>1, <2>2 DEF Judged
<1>5. /\ answer'.status # "INTERNAL"
      /\ pc' \in {"displacement", "immediates", "idle"}
  <2>1. answer.status # "INTERNAL"
    BY DEF WaitInvariant
  <2>2. \A count : Require(count) # "INTERNAL"
    BY RequireStatus
  <2>3. CASE SibMissing \/ DisplacementMissing \/ ImmediateMissing
    <3>1. PICK count : Fail(Require(count))
      BY <2>3 DEF SibMissing, DisplacementMissing, ImmediateMissing
    <3> QED
      BY <2>2, <3>1 DEF Fail, Return
  <2>4. CASE Sib \/ Immediate
    BY <2>1, <2>4 DEF Sib, Immediate, Goto
  <2>5. CASE Displacement
    BY <1>4, <2>1, <2>5 DEF Displacement, Goto, Return
  <2>6. CASE Finish
    BY <2>6 DEF Finish, Return
  <2> QED
    BY <2>3, <2>4, <2>5, <2>6
<1> QED
  BY <1>1, <1>2, <1>3, <1>5, WaitOfLater

\* A WAIT is fused with an x87 instruction that has a waiting form, and the
\* internal error of decode_x87 is never reported, whatever the limit and the
\* bytes.
THEOREM WaitsMeet == Spec => []WaitMeetsItsInstruction
<1>1. Init => WaitInvariant
  BY DEF Init, WaitInvariant, Scanned, NoPrefix, Unanswered
<1>2. TypeOK /\ WaitInvariant /\ [Next]_vars => WaitInvariant'
  <2> SUFFICES ASSUME TypeOK, WaitInvariant, [Next]_vars
               PROVE  WaitInvariant'
    OBVIOUS
  <2>1. CASE UNCHANGED vars
    BY <2>1 DEF vars, stream, decoder, WaitInvariant, Scanned, Promise, Kept,
                PrefixesUpTo, IsPrefix
  <2>2. CASE Next
    BY <2>2, WaitOfCall, WaitOfScanForWait, WaitOfScanForAlias, WaitOfPrefixes,
       WaitOfModrm, WaitOfFields DEF Next, Step
  <2> QED
    BY <2>1, <2>2
<1>3. WaitInvariant => WaitMeetsItsInstruction
  BY DEF WaitInvariant, WaitMeetsItsInstruction, Answered, Promise, Kept
<1> QED
  BY <1>1, <1>2, <1>3, CursorTypes, PTL DEF Spec

=============================================================================
