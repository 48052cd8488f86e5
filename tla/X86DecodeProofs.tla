-------------------------- MODULE X86DecodeProofs --------------------------
(***************************************************************************)
(* What the x86 decoders and contexts promise for every caller, selection, *)
(* stream and edit.  Of the decoders: what each reader finds lies in the   *)
(* buffer and within the limit, a full buffer lacks nothing, and the two   *)
(* builds differ as they should; a caller is then told the same, whatever  *)
(* it did before.  Of the contexts: an umbrella covers its flags.          *)
(***************************************************************************)
EXTENDS X86Decode, WellFoundedInduction, TLAPS

-----------------------------------------------------------------------------
(* Numbers.  A set of them has a least one: the library's theorem on        *)
(* well-founded relations gives it without an induction.                   *)

Less == {pair \in Nat \X Nat : pair[1] < pair[2]}

LEMMA LessWellFounded == IsWellFoundedOn(Less, Nat)
<1>1. OpToRel(<, Nat) = Less
  BY DEF OpToRel, Less
<1> QED BY <1>1, NatLessThanWellFounded

LEMMA LeastOf ==
  ASSUME NEW T, T \subseteq Nat, T # {}
  PROVE  \E x \in T : \A y \in T : x <= y
<1>1. PICK x \in T : \A y \in T : ~(<<y, x>> \in Less)
  BY LessWellFounded, WFMin
<1>2. \A y \in T : ~(y < x)
  BY <1>1 DEF Less
<1> QED BY <1>1, <1>2

\* A bounded set of numbers has a greatest one, which Max names.
LEMMA GreatestOf ==
  ASSUME NEW T, T \subseteq Nat, T # {}, NEW n \in Nat, \A x \in T : x <= n
  PROVE  /\ Max(T) \in T
         /\ \A y \in T : Max(T) >= y
<1> DEFINE U == {m \in Nat : \E x \in T : m + x = n}
<1>1. U \subseteq Nat /\ U # {}
  <2>1. PICK x \in T : TRUE
    OBVIOUS
  <2>2. n - x \in U
    BY <2>1
  <2> QED BY <2>2
<1>2. PICK u \in U : \A y \in U : u <= y
  BY <1>1, LeastOf
<1>3. PICK x \in T : u + x = n
  OBVIOUS
<1>4. \A y \in T : x >= y
  <2> TAKE y \in T
  <2>1. n - y \in U
    OBVIOUS
  <2> QED BY <1>2, <1>3, <2>1
<1> QED BY <1>4, Zenon DEF Max

-----------------------------------------------------------------------------
(* Reading.                                                                *)

Full(bytes) == Len(bytes) >= MaxInstructionSize

Within(bytes, end) ==
  end \in Nat \ {0} /\ end <= Len(bytes) /\ end <= MaxInstructionSize

\* What a test for bytes answers; a full buffer lacks none.
Tested(bytes, status) ==
  /\ status \in {"OK", "TRUNCATED", "INVALID"}
  /\ Full(bytes) => status # "TRUNCATED"

LEMMA RequireTests ==
  ASSUME NEW bytes \in Seq(Byte), NEW at \in Nat, NEW count \in Nat
  PROVE  /\ Tested(bytes, RequireAt(bytes, at, count))
         /\ RequireAt(bytes, at, count) = "OK" =>
              at + count <= Len(bytes) /\ at + count <= MaxInstructionSize
BY SizeAssumption DEF RequireAt, Tested, Full

LEMMA OneByOneTests ==
  ASSUME NEW bytes \in Seq(Byte), NEW at \in Nat, NEW count \in Nat
  PROVE  /\ Tested(bytes, OneByOne(bytes, at, count))
         /\ OneByOne(bytes, at, count) = "OK" =>
              at + count <= Len(bytes) /\ at + count <= MaxInstructionSize
<1> DEFINE T == {Len(bytes), MaxInstructionSize}
<1>1. Len(bytes) \in Nat /\ MaxInstructionSize \in Nat
  BY SizeAssumption
<1>2. \E x \in T : \A y \in T : x <= y
  BY <1>1
<1>3. Min(T) \in T /\ \A y \in T : Min(T) <= y
  BY <1>2, Zenon DEF Min
<1>4. Min(T) <= Len(bytes) /\ Min(T) <= MaxInstructionSize /\ Min(T) \in Nat
      /\ (Min(T) = Len(bytes) \/ Min(T) = MaxInstructionSize)
  BY <1>1, <1>3
<1> HIDE DEF T
<1>5. OneByOne(bytes, at, count) =
        IF at + count <= Min(T) THEN "OK"
        ELSE IF Len(bytes) < MaxInstructionSize THEN "TRUNCATED" ELSE "INVALID"
  BY DEF OneByOne, T
<1> QED BY <1>1, <1>4, <1>5 DEF Tested, Full

\* The prefixes are the longest run of prefix bytes the buffer begins with.
LEMMA PrefixesCounted ==
  ASSUME NEW bytes \in Seq(Byte), NEW mode
  PROVE  /\ PrefixBytes(bytes, mode) \in 0..Len(bytes)
         /\ \A i \in 1..PrefixBytes(bytes, mode) :
              bytes[i] \in Legacy \/ IsRex(bytes[i], mode)
         /\ PrefixBytes(bytes, mode) < Len(bytes) =>
              LET b == bytes[PrefixBytes(bytes, mode) + 1]
              IN  b \notin Legacy /\ ~IsRex(b, mode)
<1> DEFINE ok(n) == \A i \in 1..n : bytes[i] \in Legacy \/ IsRex(bytes[i], mode)
           T == {n \in 0..Len(bytes) : ok(n)}
           p == PrefixBytes(bytes, mode)
<1>1. Len(bytes) \in Nat
  OBVIOUS
<1>2. 0 \in T
  OBVIOUS
<1>3. p = Max(T)
  BY Zenon DEF PrefixBytes
<1>4. p \in T /\ \A y \in T : p >= y
  <2>1. T \subseteq Nat /\ T # {} /\ \A x \in T : x <= Len(bytes)
    BY <1>1, <1>2
  <2> HIDE DEF T, p
  <2> QED BY <1>1, <1>3, <2>1, GreatestOf
<1>5. p \in 0..Len(bytes) /\ ok(p)
  BY <1>4
<1>6. ASSUME p < Len(bytes), bytes[p + 1] \in Legacy \/ IsRex(bytes[p + 1], mode)
      PROVE  FALSE
  <2> HIDE DEF p
  <2>1. \A i \in 1..(p + 1) : i \in 1..p \/ i = p + 1
    BY <1>5
  <2>2. ok(p + 1)
    BY <1>5, <1>6, <2>1
  <2>3. p + 1 \in T
    BY <1>1, <1>5, <1>6, <2>2
  <2> QED BY <1>4, <1>5, <2>3
<1> QED BY <1>5, <1>6
-----------------------------------------------------------------------------
(* What the readers find lies in the buffer and within the limit.          *)

Found(bytes, r) ==
  /\ Tested(bytes, r.status)
  /\ r.status = "OK" => Within(bytes, r.end)

LEMMA RefusalTells ==
  ASSUME NEW status PROVE Refusal(status).status = status
BY DEF Refusal

LEMMA AddressBytesBounded ==
  ASSUME NEW modrm, NEW sib, NEW a PROVE AddressBytes(modrm, sib, a) \in {0, 1, 2, 4}
<1> DEFINE wide == IF a = 16 THEN 2 ELSE 4
           absolute == IF a = 16 THEN Rm(modrm) = 6
                       ELSE IF Rm(modrm) = 4 THEN sib % 8 = 5 ELSE Rm(modrm) = 5
<1>1. AddressBytes(modrm, sib, a) =
        CASE Mod(modrm) = 0 -> IF absolute THEN wide ELSE 0
          [] Mod(modrm) = 1 -> 1
          [] Mod(modrm) = 2 -> wide
          [] OTHER -> 0
  BY Zenon DEF AddressBytes
<1>2. wide \in {1, 2, 4} /\ (IF absolute THEN wide ELSE 0) \in {0, 1, 2, 4}
  OBVIOUS
<1> HIDE DEF wide, absolute
<1>3. wide \in {0, 1, 2, 4} /\ 0 \in {0, 1, 2, 4} /\ 1 \in {0, 1, 2, 4}
  BY <1>2
<1>4. 0 # 1 /\ 0 # 2 /\ 1 # 2
  OBVIOUS
<1> QED BY <1>1, <1>2, <1>3, <1>4, Zenon

LEMMA ModrmFound ==
  ASSUME NEW bytes \in Seq(Byte), NEW at \in Nat, NEW a
  PROVE  /\ Found(bytes, ModrmAt(bytes, at, a))
         /\ ModrmAt(bytes, at, a).status = "OK" =>
              /\ ModrmAt(bytes, at, a).modrm = bytes[at + 1]
              /\ ModrmAt(bytes, at, a).end >= at + 1
<1> DEFINE sibs == IF TakesSib(bytes[at + 1], a) THEN 1 ELSE 0
           sib == IF sibs = 1 THEN bytes[at + 2] ELSE 0
           end == at + 1 + sibs
           size == AddressBytes(bytes[at + 1], sib, a)
           last == [status |-> RequireAt(bytes, end, size), modrm |-> bytes[at + 1],
                    end |-> end + size]
           first == RequireAt(bytes, at, 1)
           second == RequireAt(bytes, at + 1, sibs)
<1>1. ModrmAt(bytes, at, a) =
        IF first # "OK" THEN Refusal(first)
        ELSE IF second # "OK" THEN Refusal(second) ELSE last
  BY DEF ModrmAt, AfterModrm, Addressed, Needing
<1>2. sibs \in {0, 1} /\ end \in Nat /\ end >= at + 1 /\ at + 1 \in Nat
  OBVIOUS
<1>3. size \in {0, 1, 2, 4}
  BY AddressBytesBounded
<1>4. /\ Tested(bytes, first) /\ Tested(bytes, second)
      /\ Tested(bytes, RequireAt(bytes, end, size))
      /\ RequireAt(bytes, end, size) = "OK" => Within(bytes, end + size)
  <2> HIDE DEF sibs, size, end
  <2>1. size \in Nat /\ sibs \in Nat
    BY <1>2, <1>3
  <2> QED BY <1>2, <2>1, RequireTests DEF Within
<1> HIDE DEF sibs, sib, end, size, first, second
<1>5. CASE first # "OK"
  BY <1>1, <1>4, <1>5, RefusalTells DEF Found
<1>6. CASE first = "OK" /\ second # "OK"
  BY <1>1, <1>4, <1>6, RefusalTells DEF Found
<1>7. CASE first = "OK" /\ second = "OK"
  <2>1. ModrmAt(bytes, at, a) = last
    BY <1>1, <1>7
  <2>2. /\ last.status = RequireAt(bytes, end, size) /\ last.end = end + size
        /\ last.modrm = bytes[at + 1]
    OBVIOUS
  <2> HIDE DEF last
  <2> QED BY <1>2, <1>3, <1>4, <2>1, <2>2 DEF Found
<1> QED BY <1>5, <1>6, <1>7

\* The opening has a status, and the place of the opcode if all is well.
LEMMA OpeningFound ==
  ASSUME NEW bytes \in Seq(Byte), NEW mode
  PROVE  /\ Tested(bytes, Opening(bytes, mode).status)
         /\ Opening(bytes, mode).status = "OK" => Opening(bytes, mode).at \in Nat
<1> DEFINE n == PrefixBytes(bytes, mode)
           p == LegacyOpening(bytes, n, mode)
<1>1. n \in Nat
  BY PrefixesCounted
<1>2. p.status = RequireAt(bytes, n, 1) /\ p.at = n
  BY DEF LegacyOpening
<1>3. "at" \in DOMAIN p /\ "status" \in DOMAIN p
  BY DEF LegacyOpening
<1>4. Opening(bytes, mode) =
        IF p.status # "OK" \/ ~IsRex2(bytes[p.at + 1], mode) THEN p
        ELSE IF p.rexPresent THEN Refusal("INVALID")
        ELSE IF RequireAt(bytes, p.at, 2) # "OK" THEN Refusal(RequireAt(bytes, p.at, 2))
        ELSE [p EXCEPT !.at = @ + 2, !.rex2 = TRUE, !.rex = bytes[p.at + 2] % 16,
                       !.high = bytes[p.at + 2] \div 16]
  BY Zenon DEF Opening, WithRex2, Needing
<1>5. Tested(bytes, RequireAt(bytes, n, 1)) /\ Tested(bytes, RequireAt(bytes, n, 2))
  BY <1>1, RequireTests
<1> HIDE DEF n, p
<1>6. Tested(bytes, "INVALID")
  BY DEF Tested
<1>7. CASE p.status # "OK" \/ ~IsRex2(bytes[p.at + 1], mode)
  BY <1>1, <1>2, <1>4, <1>5, <1>7
<1>8. CASE p.status = "OK" /\ p.rexPresent /\ IsRex2(bytes[p.at + 1], mode)
  BY <1>4, <1>6, <1>8, RefusalTells
<1>9. CASE /\ p.status = "OK" /\ ~p.rexPresent /\ IsRex2(bytes[p.at + 1], mode)
           /\ RequireAt(bytes, p.at, 2) # "OK"
  BY <1>2, <1>4, <1>5, <1>9, RefusalTells
<1>10. CASE /\ p.status = "OK" /\ ~p.rexPresent /\ IsRex2(bytes[p.at + 1], mode)
            /\ RequireAt(bytes, p.at, 2) = "OK"
  <2> DEFINE q == [p EXCEPT !.at = @ + 2, !.rex2 = TRUE, !.rex = bytes[p.at + 2] % 16,
                            !.high = bytes[p.at + 2] \div 16]
  <2>1. Opening(bytes, mode) = q
    BY <1>4, <1>10
  <2>2. q.status = p.status /\ q.at = p.at + 2
    BY <1>3
  <2> HIDE DEF q
  <2> QED BY <1>1, <1>2, <1>5, <1>10, <2>1, <2>2
<1> QED BY <1>7, <1>8, <1>9, <1>10

\* What the opcode reader finds; the place behind it survives a change of the
\* opcode.
Located(bytes, o) ==
  /\ Found(bytes, o)
  /\ o.status = "OK" => "status" \in DOMAIN o /\ "end" \in DOMAIN o

LEMMA RefusalLocated ==
  ASSUME NEW bytes, NEW status, Tested(bytes, status), status # "OK"
  PROVE  Located(bytes, Refusal(status))
BY RefusalTells DEF Located, Found

LEMMA RecordLocated ==
  ASSUME NEW bytes \in Seq(Byte), NEW space, NEW map, NEW fields, NEW opcode,
         NEW end, Within(bytes, end)
  PROVE  /\ Located(bytes, [status |-> "OK", space |-> space, map |-> map,
                            fields |-> fields, opcode |-> opcode, end |-> end])
         /\ Located(bytes, [status |-> "OK", space |-> space, map |-> map,
                            opcode |-> opcode, end |-> end, fields |-> fields])
<1> DEFINE r == [status |-> "OK", space |-> space, map |-> map, fields |-> fields,
                 opcode |-> opcode, end |-> end]
           q == [status |-> "OK", space |-> space, map |-> map, opcode |-> opcode,
                 end |-> end, fields |-> fields]
<1>1. /\ r.status = "OK" /\ r.end = end /\ "status" \in DOMAIN r /\ "end" \in DOMAIN r
      /\ q.status = "OK" /\ q.end = end /\ "status" \in DOMAIN q /\ "end" \in DOMAIN q
  OBVIOUS
<1> HIDE DEF r, q
<1>2. Located(bytes, r) /\ Located(bytes, q)
  BY <1>1 DEF Located, Found, Tested
<1> QED BY <1>2 DEF r, q

LEMMA VectorLocated ==
  ASSUME NEW bytes \in Seq(Byte), NEW p, p.at \in Nat, NEW mode
  PROVE  Located(bytes, Vector(bytes, p, mode))
<1> DEFINE lead == bytes[p.at + 1]
           size == VectorSize(lead)
           P(i) == bytes[p.at + 2 + i]
           none == PrefixFields(p, mode)
           found(space, map, fields) ==
             [status |-> "OK", space |-> space, map |-> map, fields |-> fields,
              opcode |-> bytes[p.at + size], end |-> p.at + size]
           need == RequireAt(bytes, p.at, size)
           v == Vector(bytes, p, mode)
           f == [VexFields(none, P(0)) EXCEPT !.REXR = Inverted(P(0), 7), !.VL = Bit(P(0), 2)]
           t == ThreeByteFields(none, mode, P(0), P(1))
           e == EvexFields(none, mode, P(0), P(1), P(2))
           barred == p.lock \/ p.operand \/ p.repeat # 0 \/ p.rexPresent
           other == IF mode # 64 /\ Inverted(P(2), 3) = 1 THEN Refusal("INVALID")
                    ELSE found("EVEX", P(0) % 8, e)
           vex2 == lead = \hC5
           vex3 == lead = \hC4
           xop == lead = \h8F
           cased == CASE vex2 -> found("VEX", 1, f)
                      [] vex3 -> found("VEX", P(0) % 32, t)
                      [] xop -> found("XOP", P(0) % 32, t)
                      [] OTHER -> other
<1>1. v = IF need # "OK" THEN Refusal(need)
          ELSE IF barred THEN Refusal("INVALID") ELSE cased
  BY Zenon DEF Vector, Needing
<1>2. size \in {3, 4, 5}
  <2>1. size = CASE lead = \hC5 -> 3 [] lead = \h62 -> 5 [] OTHER -> 4
    BY Zenon DEF VectorSize
  <2>2. \hC5 # \h62 /\ 3 \in {3, 4, 5} /\ 4 \in {3, 4, 5} /\ 5 \in {3, 4, 5}
    OBVIOUS
  <2> HIDE DEF lead, size
  <2> QED BY <2>1, <2>2, Zenon
<1>3. /\ Tested(bytes, need)
      /\ need = "OK" => Within(bytes, p.at + size)
  <2> HIDE DEF size
  <2> QED BY <1>2, RequireTests DEF Within
<1>4. ASSUME need = "OK"
      PROVE  /\ Located(bytes, found("VEX", 1, f))
             /\ Located(bytes, found("VEX", P(0) % 32, t))
             /\ Located(bytes, found("XOP", P(0) % 32, t))
             /\ Located(bytes, found("EVEX", P(0) % 8, e))
  <2>1. Within(bytes, p.at + size)
    BY <1>3, <1>4
  <2>2. \A space, map, fields : Located(bytes, found(space, map, fields))
    BY <2>1, RecordLocated, Zenon
  <2> HIDE DEF found, f, t, e
  <2> QED BY <2>2
<1>5. Located(bytes, Refusal("INVALID"))
  BY RefusalLocated DEF Tested
<1>6. ASSUME need = "OK" PROVE Located(bytes, cased)
  <2>1. Located(bytes, other)
    <3> HIDE DEF found, e
    <3> QED BY <1>4, <1>5, <1>6
  <2>2. ~(vex2 /\ vex3) /\ ~(vex2 /\ xop) /\ ~(vex3 /\ xop)
    OBVIOUS
  <2> HIDE DEF found, f, t, e, other, vex2, vex3, xop
  <2>3. CASE vex2
    <3>1. cased = found("VEX", 1, f)
      BY <2>2, <2>3, Zenon
    <3> QED BY <1>4, <1>6, <3>1
  <2>4. CASE vex3
    <3>1. cased = found("VEX", P(0) % 32, t)
      BY <2>2, <2>4, Zenon
    <3> QED BY <1>4, <1>6, <3>1
  <2>5. CASE xop
    <3>1. cased = found("XOP", P(0) % 32, t)
      BY <2>2, <2>5, Zenon
    <3> QED BY <1>4, <1>6, <3>1
  <2>6. CASE ~vex2 /\ ~vex3 /\ ~xop
    <3>1. cased = other
      BY <2>6, Zenon
    <3> QED BY <2>1, <3>1
  <2> QED BY <2>3, <2>4, <2>5, <2>6
<1> HIDE DEF v, need, barred, cased
<1>7. CASE need # "OK"
  BY <1>1, <1>3, <1>7, RefusalLocated DEF v
<1>8. CASE need = "OK"
  BY <1>1, <1>5, <1>6, <1>8 DEF v
<1> QED BY <1>7, <1>8

LEMMA ScalarLocated ==
  ASSUME NEW bytes \in Seq(Byte), NEW p, p.at \in Nat, NEW mode,
         RequireAt(bytes, p.at, 1) = "OK"
  PROVE  Located(bytes, Scalar(bytes, p, mode))
<1> DEFINE first == bytes[p.at + 1]
           second == bytes[p.at + 2]
           found(map, size, opcode) ==
             [status |-> "OK", space |-> "LEGACY", map |-> map, opcode |-> opcode,
              end |-> p.at + size, fields |-> PrefixFields(p, mode)]
           two == RequireAt(bytes, p.at, 2)
           three == RequireAt(bytes, p.at, 3)
           s == Scalar(bytes, p, mode)
<1>1. s = IF p.rex2 THEN found(Bit(p.high, 3), 1, first)
          ELSE IF first # \h0F THEN found(0, 1, first)
          ELSE IF two # "OK" THEN Refusal(two)
          ELSE IF second = \h0F THEN found(4, 2, 0)
          ELSE IF second \notin {\h38, \h3A} THEN found(1, 2, second)
          ELSE IF three # "OK" THEN Refusal(three)
          ELSE found(IF second = \h38 THEN 2 ELSE 3, 3, bytes[p.at + 3])
  BY Zenon DEF Scalar, Needing
<1>2. /\ Tested(bytes, two) /\ Tested(bytes, three) /\ Within(bytes, p.at + 1)
      /\ two = "OK" => Within(bytes, p.at + 2)
      /\ three = "OK" => Within(bytes, p.at + 3)
  BY RequireTests DEF Within
<1>3. \A map, size, opcode :
        Within(bytes, p.at + size) => Located(bytes, found(map, size, opcode))
  BY RecordLocated, Zenon
<1>4. two # "OK" => Located(bytes, Refusal(two))
  BY <1>2, RefusalLocated
<1>5. three # "OK" => Located(bytes, Refusal(three))
  BY <1>2, RefusalLocated
<1> HIDE DEF found, first, second, two, three
<1> QED BY <1>1, <1>2, <1>3, <1>4, <1>5

LEMMA OpcodeLocated ==
  ASSUME NEW bytes \in Seq(Byte), NEW mode
  PROVE  Located(bytes, OpcodeOf(bytes, Opening(bytes, mode), mode))
<1> DEFINE p == Opening(bytes, mode)
           one == RequireAt(bytes, p.at, 1)
<1>1. OpcodeOf(bytes, p, mode) =
        IF p.status # "OK" THEN Refusal(p.status)
        ELSE IF one # "OK" THEN Refusal(one)
        ELSE IF LeadsVector(bytes, p, mode) THEN Vector(bytes, p, mode)
        ELSE Scalar(bytes, p, mode)
  BY Zenon DEF OpcodeOf, Needing
<1>2. Tested(bytes, p.status) /\ (p.status = "OK" => p.at \in Nat)
  BY OpeningFound
<1> SUFFICES Located(bytes, OpcodeOf(bytes, p, mode))
  OBVIOUS
<1> HIDE DEF p
<1>3. CASE p.status # "OK"
  BY <1>1, <1>2, <1>3, RefusalLocated
<1>4. CASE p.status = "OK" /\ one # "OK"
  BY <1>1, <1>2, <1>4, RefusalLocated, RequireTests
<1>5. CASE p.status = "OK" /\ one = "OK"
  BY <1>1, <1>2, <1>5, VectorLocated, ScalarLocated
<1> QED BY <1>3, <1>4, <1>5

LEMMA SuffixedLocated ==
  ASSUME NEW bytes \in Seq(Byte), NEW o, Located(bytes, o),
         NEW operand, Found(bytes, operand)
  PROVE  Located(bytes, Suffixed(bytes, o, operand))
<1> DEFINE one == RequireAt(bytes, operand.end, 1)
           r == [o EXCEPT !.opcode = bytes[operand.end + 1]]
<1>1. Suffixed(bytes, o, operand) =
        IF o.status # "OK" \/ o.space # "LEGACY" \/ o.map # 4 THEN o
        ELSE IF operand.status # "OK" THEN Refusal(operand.status)
        ELSE IF one # "OK" THEN Refusal(one) ELSE r
  BY Zenon DEF Suffixed, Needing
<1>2. o.status = "OK" =>
        /\ r.status = o.status /\ r.end = o.end
        /\ "status" \in DOMAIN r /\ "end" \in DOMAIN r
  BY DEF Located
<1>3. operand.status = "OK" => operand.end \in Nat /\ Tested(bytes, one)
  BY RequireTests DEF Found, Within
<1>4. o.status = "OK" => Located(bytes, r)
  BY <1>2 DEF Located, Found
<1>5. operand.status # "OK" => Located(bytes, Refusal(operand.status))
  BY RefusalLocated DEF Found
<1>6. operand.status = "OK" /\ one # "OK" => Located(bytes, Refusal(one))
  BY <1>3, RefusalLocated
<1> HIDE DEF r, one
<1> QED BY <1>1, <1>4, <1>5, <1>6

-----------------------------------------------------------------------------
(* The order of the rows.                                                  *)

Specificities == 0..99

\* What the order of the rows compares.
Ranked(row) ==
  /\ {"specificity", "order"} \subseteq DOMAIN row
  /\ row.specificity \in Specificities /\ row.order \in Nat

LEMMA RowRanked ==
  ASSUME NEW name, NEW bit, NEW order \in Nat, NEW specificity \in Specificities, NEW fields
  PROVE  Ranked(Row(name, bit, order, specificity, fields))
BY DEF Ranked, Row

LEMMA ModrmRanked ==
  ASSUME NEW row, Ranked(row), NEW mods PROVE Ranked(WithModrm(row, mods))
BY DEF Ranked, WithModrm

\* The further fields of a row do not touch its place in the order.
LEMMA FormRanked ==
  ASSUME NEW row, Ranked(row), NEW a, NEW b, NEW c, NEW d
  PROVE  /\ Ranked([row EXCEPT !.rms = a])
         /\ Ranked([row EXCEPT !.modes = a, !.regs = b, !.evapx = c, !.noRsp = d])
         /\ Ranked([row EXCEPT !.modes = a, !.evapx = b])
BY DEF Ranked

LEMMA A1Ranked == ASSUME NEW row \in A1Rows PROVE Ranked(row)
<1> DEFINE jmpabs(order) == Row("JMPABS", "APX", order, 8,
             [REP |-> {0}, OSZ |-> {0}, ASZ |-> {0}, REXW |-> {0}, REX2 |-> {1}])
           mov(order) == Row("MOV", "NONE", order, 1, [REX2 |-> {0}])
<1>1. ASSUME NEW order \in Nat PROVE Ranked(jmpabs(order)) /\ Ranked(mov(order))
  <2>1. 8 \in Specificities /\ 1 \in Specificities
    BY DEF Specificities
  <2> QED BY <2>1, RowRanked, Zenon
<1> DEFINE Jmpabs(order) == [jmpabs(order) EXCEPT !.modes = {64}, !.immediate = "REL_64"]
           Mov(order) == [mov(order) EXCEPT !.immediate = "MEMDISP_V"]
<1>2. row = Jmpabs(10773) \/ row = Mov(1824)
  BY DEF A1Rows
<1> HIDE DEF jmpabs, mov
<1>3. ASSUME NEW order \in Nat PROVE Ranked(Jmpabs(order)) /\ Ranked(Mov(order))
  BY <1>1 DEF Ranked
<1>4. 10773 \in Nat /\ 1824 \in Nat
  OBVIOUS
<1> HIDE DEF Jmpabs, Mov
<1> QED BY <1>2, <1>3, <1>4

LEMMA LongRanked ==
  ASSUME NEW name, NEW bit, NEW order \in Nat, NEW specificity \in Specificities, NEW fields, NEW mods
  PROVE  Ranked(WithModrm(Row(name, bit, order, specificity, fields), mods))
BY RowRanked, ModrmRanked, Zenon

LEMMA FFRanked == ASSUME NEW row \in FFRows PROVE Ranked(row)
<1> DEFINE short(order) == Row("UD0", "UD0_SHORT", order, 0, <<>>)
           long(order, specificity, mods) ==
             WithModrm(Row("UD0", "UD0_LONG", order, specificity, <<>>), mods)
<1>1. ASSUME NEW order \in Nat PROVE Ranked(short(order))
  <2>1. 0 \in Specificities
    BY DEF Specificities
  <2> QED BY <2>1, RowRanked, Zenon
<1>2. ASSUME NEW order \in Nat, NEW specificity \in Specificities, NEW mods
      PROVE  Ranked(long(order, specificity, mods))
  BY LongRanked
<1>3. row = short(2670) \/ row = long(2672, 4, Registers) \/ row = long(2671, 2, Memory)
  BY DEF FFRows
<1>4. /\ 2670 \in Nat /\ 2671 \in Nat /\ 2672 \in Nat
      /\ 2 \in Specificities /\ 4 \in Specificities
  BY DEF Specificities
<1> HIDE DEF short, long
<1> QED BY <1>1, <1>2, <1>3, <1>4

LEMMA B9Ranked == ASSUME NEW row \in B9Rows PROVE Ranked(row)
<1> DEFINE long(order, specificity, mods) ==
             WithModrm(Row("UD1", "PPRO", order, specificity, <<>>), mods)
<1>1. ASSUME NEW order \in Nat, NEW specificity \in Specificities, NEW mods
      PROVE  Ranked(long(order, specificity, mods))
  BY LongRanked
<1>2. row = long(2674, 4, Registers) \/ row = long(2673, 2, Memory)
  BY DEF B9Rows
<1>3. 2673 \in Nat /\ 2674 \in Nat /\ 2 \in Specificities /\ 4 \in Specificities
  BY DEF Specificities
<1> HIDE DEF long
<1> QED BY <1>1, <1>2, <1>3

LEMMA GatherRanked == ASSUME NEW row \in GatherRows PROVE Ranked(row)
<1> DEFINE base(name, order, w, vl) ==
             Row(name, "AVX2GATHER", order, 14,
                 [EASZ |-> {2, 3}, REXW |-> {w}, REX2 |-> {0}, VEX_PREFIX |-> {1}, VL |-> {vl}])
           gather(name, order, w, vl) ==
             [WithModrm(base(name, order, w, vl), Memory) EXCEPT !.rms = {4}]
<1>1. ASSUME NEW name, NEW order \in Nat, NEW w, NEW vl
      PROVE  Ranked(gather(name, order, w, vl))
  <2>1. Ranked(base(name, order, w, vl))
    <3>1. 14 \in Specificities
      BY DEF Specificities
    <3> QED BY <3>1, RowRanked, Zenon
  <2> HIDE DEF base
  <2> QED BY <2>1, ModrmRanked, FormRanked, Zenon
<1>2. \/ row = gather("VGATHERDPD", 6115, 1, 0) \/ row = gather("VGATHERDPD", 6114, 1, 1)
      \/ row = gather("VGATHERDPS", 6120, 0, 0) \/ row = gather("VGATHERDPS", 6119, 0, 1)
  BY DEF GatherRows
<1> HIDE DEF gather
<1> QED BY <1>1, <1>2

LEMMA Pop2Ranked == ASSUME NEW row \in Pop2Rows PROVE Ranked(row)
<1> DEFINE base(name, order, w) ==
             Row(name, "APX_F_N3", order, 22,
                 [REXW |-> {w}, REX2 |-> {0}, VEX_PREFIX |-> {0}, VL |-> {0}, UBIT |-> {1},
                  ZEROING |-> {0}, ND |-> {1}, NF |-> {0}])
           Pop2(name, order, w) ==
             [WithModrm(base(name, order, w), Registers)
                EXCEPT !.modes = {64}, !.regs = {0}, !.evapx = TRUE, !.noRsp = TRUE]
<1>1. ASSUME NEW name, NEW order \in Nat, NEW w PROVE Ranked(Pop2(name, order, w))
  <2>1. Ranked(base(name, order, w))
    <3>1. 22 \in Specificities
      BY DEF Specificities
    <3> QED BY <3>1, RowRanked, Zenon
  <2> HIDE DEF base
  <2> QED BY <2>1, ModrmRanked, FormRanked, Zenon
<1>2. row = Pop2("POP2", 10769, 0) \/ row = Pop2("POP2P", 10770, 1)
  BY DEF Pop2Rows
<1> HIDE DEF Pop2
<1> QED BY <1>1, <1>2

LEMMA ImulRanked == ASSUME NEW row \in ImulRows PROVE Ranked(row)
<1> DEFINE order(pp, nd, nf, mods) ==
             1579 + 16 * pp + 4 * nf + 2 * nd + IF mods = Memory THEN 1 ELSE 0
           base(pp, nd, nf, mods) ==
             Row("IMUL", IF nd = 0 /\ nf = 0 THEN "APX" ELSE "APX_F_N3",
                 order(pp, nd, nf, mods), IF mods = Registers THEN 17 ELSE 15,
                 [REX2 |-> {0}, VEX_PREFIX |-> {pp}, VL |-> {0}, UBIT |-> {1},
                  ZEROING |-> {0}, ND |-> {nd}, NF |-> {nf}, VEXDEST3 |-> {1},
                  VEXDEST210 |-> {7}, VEXDEST4 |-> {0}])
           Imul(pp, nd, nf, mods) ==
             [WithModrm(base(pp, nd, nf, mods), mods)
                EXCEPT !.modes = {64}, !.evapx = TRUE, !.immediate = "IMM_Z"]
<1>1. PICK pp \in {0, 1}, nd \in {0, 1}, nf \in {0, 1}, mods \in {Registers, Memory} :
        row = Imul(pp, nd, nf, mods)
  BY DEF ImulRows
<1>2. order(pp, nd, nf, mods) \in Nat /\ (IF mods = Registers THEN 17 ELSE 15) \in Specificities
  BY DEF Specificities
<1> HIDE DEF order
<1>3. Ranked(base(pp, nd, nf, mods))
  BY <1>2, RowRanked, Zenon
<1> HIDE DEF base
<1>4. Ranked(WithModrm(base(pp, nd, nf, mods), mods))
  BY <1>3, ModrmRanked, Zenon
<1>5. Ranked(Imul(pp, nd, nf, mods))
  <2> DEFINE w == WithModrm(base(pp, nd, nf, mods), mods)
  <2>1. Ranked(w)
    BY <1>4
  <2> HIDE DEF w
  <2>2. Ranked([w EXCEPT !.modes = {64}, !.evapx = TRUE, !.immediate = "IMM_Z"])
    BY <2>1 DEF Ranked
  <2> QED BY <2>2, Zenon DEF w
<1> HIDE DEF Imul
<1> QED BY <1>1, <1>5

\* The fields of the rows of CFCMOV, CMOV and SETcc, with EVEX.vvvv free and not.
ZeroFields(pp, nd, nf) ==
  [REX2 |-> {0}, VEX_PREFIX |-> {pp}, VL |-> {0}, UBIT |-> {1}, ZEROING |-> {0},
   ND |-> {nd}, NF |-> {nf}]

Unused == [VEXDEST3 |-> {1}, VEXDEST210 |-> {7}, VEXDEST4 |-> {0}]

ZeroRow(name, pp, nd, nf, mods) ==
  [WithModrm(Row(name, "APX_F_N3", 0, IF mods = Registers THEN 14 ELSE 12,
                 ZeroFields(pp, nd, nf)), mods)
     EXCEPT !.modes = {64}, !.evapx = TRUE]

FixedRow(row) ==
  [row EXCEPT !.specificity = @ + 3,
     !.fields = [f \in DOMAIN @ \cup DOMAIN Unused |->
                   IF f \in DOMAIN Unused THEN Unused[f] ELSE @[f]]]

ZeroGroup(pp, nf, mods) ==
  {FixedRow(ZeroRow("CFCMOV", pp, 0, nf, mods)), ZeroRow("CFCMOV", pp, 1, 1, mods),
   ZeroRow("CMOV", pp, 1, 0, mods), FixedRow(ZeroRow("SETCC", 2, nf, 0, mods))}

LEMMA ZeroGroups ==
  ZeroRows = UNION {ZeroGroup(pp, nf, mods) :
                      pp \in {0, 1}, nf \in {0, 1}, mods \in {Registers, Memory}}
BY DEF ZeroRows, ZeroGroup, ZeroRow, FixedRow, ZeroFields, Unused

LEMMA ZeroRanked == ASSUME NEW row \in ZeroRows PROVE Ranked(row)
<1> DEFINE Low(r) == Ranked(r) /\ r.specificity <= 14
<1>1. ASSUME NEW name, NEW pp, NEW nd, NEW nf, NEW mods
      PROVE  Low(ZeroRow(name, pp, nd, nf, mods))
  <2> DEFINE s == IF mods = Registers THEN 14 ELSE 12
             b == Row(name, "APX_F_N3", 0, s, ZeroFields(pp, nd, nf))
             z == ZeroRow(name, pp, nd, nf, mods)
  <2>1. s \in Specificities /\ s <= 14 /\ b.specificity = s
    BY DEF Row, Specificities
  <2>2. z = [WithModrm(b, mods) EXCEPT !.modes = {64}, !.evapx = TRUE]
    BY Zenon DEF ZeroRow
  <2>3. Ranked(b)
    <3>1. 0 \in Nat /\ s \in Specificities
      BY <2>1
    <3> HIDE DEF s
    <3> QED BY <3>1, RowRanked DEF s
  <2> HIDE DEF b
  <2>4. Ranked(WithModrm(b, mods))
    BY <2>3, ModrmRanked
  <2> HIDE DEF z
  <2>5. Ranked(z)
    <3>1. Ranked([WithModrm(b, mods) EXCEPT !.modes = {64}, !.evapx = TRUE])
      BY <2>4, FormRanked, Zenon
    <3> QED BY <2>2, <3>1
  <2>6. z.specificity = b.specificity
    BY <2>2, <2>3 DEF Ranked, WithModrm
  <2> HIDE DEF s
  <2> QED BY <2>1, <2>5, <2>6 DEF z
<1>2. ASSUME NEW r, Low(r) PROVE Ranked(FixedRow(r))
  BY <1>2 DEF Ranked, Specificities, FixedRow
<1>3. PICK pp \in {0, 1}, nf \in {0, 1}, mods \in {Registers, Memory} :
        row \in ZeroGroup(pp, nf, mods)
  BY ZeroGroups
<1> QED BY <1>1, <1>2, <1>3 DEF ZeroGroup

LEMMA Fp16Ranked == ASSUME NEW row \in Fp16Rows PROVE Ranked(row)
<1> DEFINE Width(vl) == IF vl = 0 THEN "FP16_128" ELSE IF vl = 1 THEN "FP16_256" ELSE "FP16_512"
           Name(pp) == IF pp = 2 THEN "VFCMADDCPH" ELSE "VFMADDCPH"
           first(pp) == IF pp = 2 THEN 8873 ELSE 8923
           order(pp, vl, mods) ==
             first(pp) + 2 * vl + IF mods = Memory THEN IF vl = 2 THEN 2 ELSE 1 ELSE 0
           fields(pp, vl, mods) ==
             LET both == [REXW |-> {0}, REX2 |-> {0}, VEX_PREFIX |-> {pp},
                          VL |-> {vl}, UBIT |-> {1}, BCRC |-> {0, 1}]
             IN  IF mods = Memory THEN both ELSE [both EXCEPT !.BCRC = {0}]
           Fp16(pp, vl, mods) ==
             WithModrm(Row(Name(pp), Width(vl), order(pp, vl, mods),
                           IF mods = Memory THEN 7 ELSE 10, fields(pp, vl, mods)), mods)
           Rounded(pp) ==
             WithModrm(Row(Name(pp), "FP16_512", first(pp) + 5, 9,
                           [REXW |-> {0}, REX2 |-> {0}, VEX_PREFIX |-> {pp},
                            UBIT |-> {1}, BCRC |-> {1}]), Registers)
           Half(r) == [r EXCEPT !.fp16 = TRUE, !.masking = TRUE]
<1>1. \/ \E pp \in {2, 3}, vl \in 0..2, mods \in {Registers, Memory} :
           row = Half(Fp16(pp, vl, mods))
      \/ \E pp \in {2, 3} : row = Half(Rounded(pp))
  BY DEF Fp16Rows
<1>2. ASSUME NEW pp \in {2, 3}, NEW vl \in 0..2, NEW mods PROVE Ranked(Fp16(pp, vl, mods))
  <2>1. order(pp, vl, mods) \in Nat /\ (IF mods = Memory THEN 7 ELSE 10) \in Specificities
    BY DEF Specificities
  <2> HIDE DEF order, Width, Name, fields
  <2> QED BY <2>1, RowRanked, ModrmRanked, Zenon
<1>3. ASSUME NEW pp \in {2, 3} PROVE Ranked(Rounded(pp))
  <2>1. first(pp) + 5 \in Nat /\ 9 \in Specificities
    BY DEF Specificities
  <2> HIDE DEF first, Name
  <2> QED BY <2>1, RowRanked, ModrmRanked, Zenon
<1> HIDE DEF Fp16, Rounded
<1>4. ASSUME NEW r, Ranked(r) PROVE Ranked(Half(r))
  BY <1>4 DEF Ranked
<1> HIDE DEF Half
<1> QED BY <1>1, <1>2, <1>3, <1>4, Zenon

LEMMA BucketRanked ==
  ASSUME NEW space, NEW map, NEW opcode, NEW row \in Bucket(space, map, opcode)
  PROVE  Ranked(row)
<1> DEFINE key == <<space, map, opcode>>
           a == key = <<"LEGACY", 0, \hA1>>
           b == key = <<"LEGACY", 1, \hFF>>
           c == key = <<"LEGACY", 1, \hB9>>
           d == key = <<"VEX", 2, \h92>>
           e == key = <<"EVEX", 4, \h8F>>
           f == key = <<"EVEX", 4, \h69>>
           g == key = <<"EVEX", 4, \h44>>
           h == key = <<"EVEX", 6, \h56>>
<1>1. Bucket(space, map, opcode) =
        CASE a -> A1Rows [] b -> FFRows [] c -> B9Rows [] d -> GatherRows
          [] e -> Pop2Rows [] f -> ImulRows [] g -> ZeroRows [] h -> Fp16Rows
          [] OTHER -> {}
  BY Zenon DEF Bucket
<1> HIDE DEF a, b, c, d, e, f, g, h
<1>2. \/ row \in A1Rows \/ row \in FFRows \/ row \in B9Rows \/ row \in GatherRows
      \/ row \in Pop2Rows \/ row \in ImulRows \/ row \in ZeroRows \/ row \in Fp16Rows
  BY <1>1, Zenon
<1> QED BY <1>2, A1Ranked, FFRanked, B9Ranked, GatherRanked, Pop2Ranked, ImulRanked,
           ZeroRanked, Fp16Ranked

LEMMA ScoreBounded ==
  ASSUME NEW row, Ranked(row) PROVE Score(row) \in Nat /\ Score(row) <= 355
BY DEF Score, Ranked, Specificities

\* Some row is the best of a set of them.
LEMMA BestRowFound ==
  ASSUME NEW rows, rows # {}, \A row \in rows : Ranked(row)
  PROVE  BestRow(rows) \in rows
<1> DEFINE T == {Score(row) : row \in rows}
           m == Max(T)
           U == {row.order : row \in {r \in rows : Score(r) = m}}
<1>1. T \subseteq Nat /\ T # {} /\ \A x \in T : x <= 355
  BY ScoreBounded
<1>2. m \in T /\ \A y \in T : m >= y
  <2>1. 355 \in Nat
    OBVIOUS
  <2> HIDE DEF T
  <2> QED BY <1>1, <2>1, GreatestOf
<1>3. U \subseteq Nat /\ U # {}
  BY <1>2 DEF Ranked
<1>4. PICK u \in U : \A v \in U : u <= v
  BY <1>3, LeastOf
<1>5. PICK row \in rows : Score(row) = m /\ row.order = u
  BY <1>4
<1>6. ASSUME NEW other \in rows PROVE ~Better(other, row)
  <2>1. Score(other) <= m /\ Score(other) \in Nat /\ m \in Nat
    BY <1>2, ScoreBounded
  <2>2. Score(other) = m => u <= other.order
    BY <1>4
  <2>3. other.order \in Nat /\ u \in Nat
    BY <1>3 DEF Ranked
  <2> HIDE DEF m
  <2> QED BY <1>5, <2>1, <2>2, <2>3 DEF Better
<1> QED BY <1>6, Zenon DEF BestRow

-----------------------------------------------------------------------------
(* The generated decoder.                                                  *)

Answers == {"OK", "TRUNCATED", "INVALID", "UNSUPPORTED"}

\* An answer has a length exactly if it is an instruction, whose bytes are all
\* there; a full buffer lacks none.
Sound(bytes, r) ==
  /\ r.status \in Answers
  /\ IF r.status = "OK" THEN Within(bytes, r.length) ELSE r.length = 0
  /\ Full(bytes) => r.status # "TRUNCATED"

LEMMA UndecodedSound ==
  ASSUME NEW bytes, NEW status,
         (status # "OK" /\ Tested(bytes, status)) \/ status = "UNSUPPORTED"
  PROVE  Sound(bytes, Undecoded(status))
BY DEF Undecoded, Sound, Tested, Answers

\* What is decoded: an opcode within the buffer and its operand.
Placed(bytes, o) ==
  /\ Within(bytes, o.end) /\ Found(bytes, o.operand) /\ o.addressBits \in {16, 32, 64}

\* A row that needs no operand, or whose operand is there.
Readable(o, row) == row.modrm => o.operand.status = "OK"

LEMMA ImmediateCounted ==
  ASSUME NEW o, o.addressBits \in {16, 32, 64}, NEW row
  PROVE  ImmediateSize(o, row) \in Nat
<1> DEFINE a == row.immediate = "REL_64"
           b == row.immediate = "IMM_Z"
           c == row.immediate = "MEMDISP_V"
           z == IF WideBits(o) = 16 THEN 2 ELSE 4
           w == o.addressBits \div 8
<1>1. ImmediateSize(o, row) = CASE a -> 8 [] b -> z [] c -> w [] OTHER -> 0
  BY Zenon DEF ImmediateSize
<1>2. 8 \in Nat /\ z \in Nat /\ w \in Nat /\ 0 \in Nat
  OBVIOUS
<1>3. ~(a /\ b) /\ ~(a /\ c) /\ ~(b /\ c)
  OBVIOUS
<1> HIDE DEF a, b, c, z, w
<1> QED BY <1>1, <1>2, <1>3, Zenon

LEMMA FinishTests ==
  ASSUME NEW bytes \in Seq(Byte), NEW o, Placed(bytes, o), NEW row, Readable(o, row)
  PROVE  /\ Tested(bytes, Finish(bytes, o, row))
         /\ Finish(bytes, o, row) = "OK" => Within(bytes, LengthOf(o, row))
<1> DEFINE end == IF row.modrm THEN o.operand.end ELSE o.end
           size == ImmediateSize(o, row)
<1>1. end \in Nat \ {0}
  BY DEF Placed, Readable, Found, Within
<1>2. size \in Nat
  BY ImmediateCounted DEF Placed
<1>3. Finish(bytes, o, row) = RequireAt(bytes, end, size) /\ LengthOf(o, row) = end + size
  BY Zenon DEF Finish, LengthOf
<1> HIDE DEF end, size
<1> QED BY <1>1, <1>2, <1>3, RequireTests DEF Within

LEMMA ChosenSound ==
  ASSUME NEW bytes \in Seq(Byte), NEW o, NEW row, Within(bytes, LengthOf(o, row))
  PROVE  Sound(bytes, Chosen(o, row))
<1>1. Sound(bytes, Undecoded("INVALID"))
  BY UndecodedSound DEF Tested
<1>2. Decoded(o, row).status = "OK" /\ Decoded(o, row).length = LengthOf(o, row)
  BY DEF Decoded
<1>3. Sound(bytes, Decoded(o, row))
  BY <1>2 DEF Sound, Answers
<1> QED BY <1>1, <1>3 DEF Chosen

LEMMA AdmissionSound ==
  ASSUME NEW bytes \in Seq(Byte), NEW o, NEW usable,
         \A row \in usable : Ranked(row) /\ Within(bytes, LengthOf(o, row)),
         NEW unread \in BOOLEAN, Full(bytes) => ~unread,
         NEW chosen, NEW available
  PROVE  Sound(bytes, Admission(o, usable, unread, chosen, available))
<1> DEFINE admitted == {row \in usable : RequiredBits(o, row) \subseteq (chosen \cap available)}
           lacks == \E row \in usable : CallerLacks(o, row, chosen, available)
<1>1. Admission(o, usable, unread, chosen, available) =
        IF admitted # {} THEN Chosen(o, BestRow(admitted))
        ELSE IF unread THEN Undecoded("TRUNCATED")
        ELSE IF lacks THEN Undecoded("UNSUPPORTED") ELSE Undecoded("INVALID")
  BY Zenon DEF Admission
<1>2. ASSUME admitted # {} PROVE Sound(bytes, Chosen(o, BestRow(admitted)))
  <2>1. \A row \in admitted : row \in usable
    OBVIOUS
  <2> HIDE DEF admitted
  <2>2. BestRow(admitted) \in admitted
    BY <1>2, <2>1, BestRowFound
  <2> QED BY <2>1, <2>2, ChosenSound
<1>3. unread => Sound(bytes, Undecoded("TRUNCATED"))
  BY UndecodedSound DEF Tested
<1>4. Sound(bytes, Undecoded("UNSUPPORTED")) /\ Sound(bytes, Undecoded("INVALID"))
  BY UndecodedSound DEF Tested
<1> HIDE DEF admitted, lacks
<1> QED BY <1>1, <1>2, <1>3, <1>4

LEMMA WholeSound ==
  ASSUME NEW bytes \in Seq(Byte), NEW o, Placed(bytes, o), NEW matching,
         \A row \in matching : Ranked(row) /\ Readable(o, row),
         NEW unread \in BOOLEAN, Full(bytes) => ~unread,
         NEW chosen, NEW available
  PROVE  Sound(bytes, Whole(bytes, o, matching, unread, chosen, available))
<1> DEFINE whole == {row \in matching : Finish(bytes, o, row) = "OK"}
           usable == {row \in whole : BorrowsApx(o, row) => o.mode = 64}
           over == \E row \in matching : Finish(bytes, o, row) = "INVALID"
           lacking == unread \/ matching # whole
<1>1. Whole(bytes, o, matching, unread, chosen, available) =
        IF over THEN Undecoded("INVALID")
        ELSE Admission(o, usable, lacking, chosen, available)
  BY Zenon DEF Whole
<1>2. Sound(bytes, Undecoded("INVALID"))
  BY UndecodedSound DEF Tested
<1>3. \A row \in usable : Ranked(row) /\ Within(bytes, LengthOf(o, row))
  BY FinishTests
<1>4. ~over /\ Full(bytes) => ~lacking
  <2> SUFFICES ASSUME ~over, Full(bytes), NEW row \in matching PROVE row \in whole
    OBVIOUS
  <2>1. Tested(bytes, Finish(bytes, o, row))
    BY FinishTests
  <2> QED BY <2>1 DEF Tested
<1>5. lacking \in BOOLEAN
  OBVIOUS
<1> HIDE DEF usable, lacking, over
<1>6. ~over => Sound(bytes, Admission(o, usable, lacking, chosen, available))
  BY <1>3, <1>4, <1>5, AdmissionSound
<1> QED BY <1>1, <1>2, <1>6

LEMMA SelectionSound ==
  ASSUME NEW bytes \in Seq(Byte), NEW o, Placed(bytes, o), NEW rows,
         \A row \in rows : Ranked(row),
         NEW chosen, NEW available
  PROVE  Sound(bytes, Selection(bytes, o, rows, chosen, available))
<1> DEFINE readable == {row \in rows : ~row.modrm \/ o.operand.status = "OK"}
           matching == {row \in readable : Matches(o, row)}
           unread == rows # readable
<1>1. Selection(bytes, o, rows, chosen, available) =
        IF unread /\ o.operand.status = "INVALID" THEN Undecoded("INVALID")
        ELSE Whole(bytes, o, matching, unread, chosen, available)
  BY Zenon DEF Selection
<1>2. Sound(bytes, Undecoded("INVALID"))
  BY UndecodedSound DEF Tested
<1>3. \A row \in matching : Ranked(row) /\ Readable(o, row)
  BY DEF Readable
<1>4. Full(bytes) /\ unread => o.operand.status = "INVALID"
  BY DEF Placed, Found, Tested
<1>5. unread \in BOOLEAN
  OBVIOUS
<1> HIDE DEF matching, unread
<1>6. ~(unread /\ o.operand.status = "INVALID")
      => Sound(bytes, Whole(bytes, o, matching, unread, chosen, available))
  BY <1>3, <1>4, <1>5, WholeSound
<1> QED BY <1>1, <1>2, <1>6

LEMMA AddressSizes == ASSUME NEW p, NEW mode PROVE AddressSize(p, mode) \in {16, 32, 64}
<1> DEFINE a == mode = 16
           b == mode = 32
           first == IF p.address THEN 32 ELSE 16
           second == IF p.address THEN 16 ELSE 32
           third == IF p.address THEN 32 ELSE 64
           sizes == {16, 32, 64}
<1>1. AddressSize(p, mode) = CASE a -> first [] b -> second [] OTHER -> third
  BY Zenon DEF AddressSize, AddressBits
<1>2. first \in sizes /\ second \in sizes /\ third \in sizes /\ ~(a /\ b)
  OBVIOUS
<1> HIDE DEF a, b, first, second, third, sizes
<1>3. AddressSize(p, mode) \in sizes
  BY <1>1, <1>2, Zenon
<1> QED BY <1>3 DEF sizes

\* What the generated decoder says of any bytes, whoever asks.
LEMMA GeneratedSound ==
  ASSUME NEW bytes \in Seq(Byte), NEW mode, NEW chosen, NEW available
  PROVE  Sound(bytes, Generated(bytes, mode, chosen, available))
<1> DEFINE p == Opening(bytes, mode)
           found == OpcodeOf(bytes, p, mode)
           operand == ModrmAt(bytes, found.end, AddressSize(p, mode))
           opcode == Suffixed(bytes, found, operand)
           o == [fields |-> opcode.fields, space |-> opcode.space, end |-> opcode.end,
                 mode |-> mode, addressBits |-> AddressSize(p, mode), operand |-> operand]
           rows == {row \in Bucket(opcode.space, opcode.map, opcode.opcode) : mode \in row.modes}
<1>1. Generated(bytes, mode, chosen, available) =
        IF opcode.status # "OK" THEN Undecoded(opcode.status)
        ELSE Selection(bytes, o, rows, chosen, available)
  BY Zenon DEF Generated, FromOpening, FromPrefixes, FromOpcode
<1>2. Located(bytes, found)
  BY OpcodeLocated
<1>3. CASE found.status = "OK"
  <2>1. Found(bytes, operand)
    <3>1. found.end \in Nat
      BY <1>2, <1>3 DEF Located, Found, Within
    <3> HIDE DEF found, p
    <3> QED BY <3>1, ModrmFound
  <2>2. Located(bytes, opcode)
    <3> HIDE DEF found, operand
    <3> QED BY <1>2, <2>1, SuffixedLocated
  <2>3. Tested(bytes, opcode.status)
    BY <2>2 DEF Located, Found
  <2>4. o.end = opcode.end /\ o.operand = operand /\ o.addressBits = AddressSize(p, mode)
    BY Zenon
  <2>5. opcode.status = "OK" => Placed(bytes, o)
    <3>1. AddressSize(p, mode) \in {16, 32, 64}
      BY AddressSizes
    <3> HIDE DEF o, operand, opcode, p
    <3> QED BY <2>1, <2>2, <2>4, <3>1 DEF Placed, Located, Found
  <2>6. \A row \in rows : Ranked(row)
    BY BucketRanked
  <2> HIDE DEF o, rows, opcode
  <2>7. opcode.status = "OK" => Sound(bytes, Selection(bytes, o, rows, chosen, available))
    BY <2>5, <2>6, SelectionSound
  <2>8. opcode.status # "OK" => Sound(bytes, Undecoded(opcode.status))
    BY <2>3, UndecodedSound
  <2> QED BY <1>1, <2>7, <2>8
<1>4. CASE found.status # "OK"
  <2>1. opcode = found
    BY <1>4, Zenon DEF Suffixed
  <2>2. Tested(bytes, found.status)
    BY <1>2 DEF Located, Found
  <2> HIDE DEF found, opcode, o, rows
  <2>3. Sound(bytes, Undecoded(found.status))
    BY <1>4, <2>2, UndecodedSound
  <2> QED BY <1>1, <1>4, <2>1, <2>3
<1> QED BY <1>3, <1>4

-----------------------------------------------------------------------------
(* The hand-written decoder.                                               *)

\* A lack that a full buffer may have: the user-MSR opcode is its last byte.
Unsettled(bytes) ==
  LET n == PrefixBytes(bytes, 64)
  IN  /\ n + 5 = Len(bytes) /\ bytes[n + 1] = \h62
      /\ IsUserMsr(EvexOf(bytes, n + 1))

HandSound(bytes, r) ==
  /\ r.status \in Answers
  /\ IF r.status = "OK" THEN Within(bytes, r.length) ELSE r.length = 0
  /\ Full(bytes) /\ r.status = "TRUNCATED" => Unsettled(bytes)

LEMMA RefuseSound ==
  ASSUME NEW bytes, NEW status,
         (status # "OK" /\ Tested(bytes, status)) \/ status = "UNSUPPORTED"
  PROVE  HandSound(bytes, Refuse(status))
BY DEF Refuse, HandSound, Tested, Answers

LEMMA OptionalSound ==
  ASSUME NEW bytes, NEW length, Within(bytes, length), NEW extra
  PROVE  HandSound(bytes, Optional(length, extra))
<1>1. HandSound(bytes, Refuse("UNSUPPORTED"))
  BY RefuseSound
<1>2. Accept(length).status = "OK" /\ Accept(length).length = length
  BY DEF Accept
<1>3. HandSound(bytes, Accept(length))
  BY <1>2 DEF HandSound, Answers
<1> QED BY <1>1, <1>3 DEF Optional

LEMMA ImmediateBytesCounted == ASSUME NEW e PROVE ImmediateBytes(e) \in Nat
<1> DEFINE a == e.opcode \in {\h6B, \h80, \h83, \hC0, \hC1, \h24, \h2C}
           b == e.opcode \in {\h69, \h81}
           w == IF e.w = 0 /\ e.pp = 1 THEN 2 ELSE 4
<1>1. ImmediateBytes(e) = CASE a -> 1 [] b -> w [] OTHER -> 0
  BY Zenon DEF ImmediateBytes
<1>2. 1 \in Nat /\ w \in Nat /\ 0 \in Nat
  OBVIOUS
<1>3. ~(a /\ b)
  OBVIOUS
<1> HIDE DEF a, b, w
<1> QED BY <1>1, <1>2, <1>3, Zenon

LEMMA CompleteSound ==
  ASSUME NEW bytes \in Seq(Byte), NEW e, NEW operand, Found(bytes, operand),
         NEW count \in Nat, NEW extra
  PROVE  HandSound(bytes, Complete(bytes, e, operand, count, extra))
<1> DEFINE last == RequireAt(bytes, operand.end, count)
           illegal == IllegalOperand(e, operand.modrm)
<1>1. Complete(bytes, e, operand, count, extra) =
        IF operand.status # "OK" THEN Refuse(operand.status)
        ELSE IF illegal THEN Refuse("INVALID")
        ELSE IF last # "OK" THEN Refuse(last)
        ELSE Optional(operand.end + count, extra)
  BY Zenon DEF Complete
<1>2. operand.status # "OK" => HandSound(bytes, Refuse(operand.status))
  BY RefuseSound DEF Found
<1>3. HandSound(bytes, Refuse("INVALID"))
  BY RefuseSound DEF Tested
<1>4. operand.status = "OK" =>
        /\ Tested(bytes, last)
        /\ last = "OK" => Within(bytes, operand.end + count)
  BY RequireTests DEF Found, Within
<1> HIDE DEF last, illegal
<1>5. operand.status = "OK" /\ last # "OK" => HandSound(bytes, Refuse(last))
  BY <1>4, RefuseSound
<1>6. operand.status = "OK" /\ last = "OK"
      => HandSound(bytes, Optional(operand.end + count, extra))
  BY <1>4, OptionalSound
<1> QED BY <1>1, <1>2, <1>3, <1>5, <1>6

LEMMA ApxEvexSound ==
  ASSUME NEW bytes \in Seq(Byte), NEW e, NEW operand, Found(bytes, operand), NEW extra
  PROVE  HandSound(bytes, ApxEvex(bytes, e, operand, extra))
<1>1. HandSound(bytes, Refuse("INVALID")) /\ HandSound(bytes, Refuse("UNSUPPORTED"))
  BY RefuseSound DEF Tested
<1>2. HandSound(bytes, Complete(bytes, e, operand, ImmediateBytes(e), extra))
  BY ImmediateBytesCounted, CompleteSound
<1> QED BY <1>1, <1>2, Zenon DEF ApxEvex

LEMMA UserMsrSound ==
  ASSUME NEW bytes \in Seq(Byte), NEW e, NEW operand, Found(bytes, operand), NEW extra,
         e.next = None => Unsettled(bytes)
  PROVE  HandSound(bytes, UserMsr(e, operand, extra))
<1>1. e.next = None => HandSound(bytes, Refuse("TRUNCATED"))
  BY DEF HandSound, Refuse, Answers
<1>2. HandSound(bytes, Refuse("INVALID"))
  BY RefuseSound DEF Tested
<1>3. operand.status = "OK" => HandSound(bytes, Optional(operand.end, extra))
  BY OptionalSound DEF Found
<1>4. operand.status # "OK" => HandSound(bytes, Refuse(operand.status))
  BY RefuseSound DEF Found
<1> DEFINE bad == e.low # 0 \/ e.w = 1 \/ e.u = 0 \/ e.p2 # \h08
<1>5. UserMsr(e, operand, extra) =
        IF e.next = None THEN Refuse("TRUNCATED")
        ELSE IF bad THEN Refuse("INVALID")
        ELSE IF operand.status = "OK" THEN Optional(operand.end, extra)
        ELSE Refuse(operand.status)
  BY Zenon DEF UserMsr
<1> HIDE DEF bad
<1> QED BY <1>1, <1>2, <1>3, <1>4, <1>5, Zenon

\* The byte after the opcode of an EVEX instruction is there or is not.
LEMMA NextLacks ==
  ASSUME NEW bytes \in Seq(Byte), NEW at \in Nat, EvexOf(bytes, at).next = None
  PROVE  ~(at + 4 < Len(bytes))
<1> SUFFICES ASSUME at + 4 < Len(bytes) PROVE FALSE
  OBVIOUS
<1>1. bytes[at + 5] \in Byte
  OBVIOUS
<1>2. EvexOf(bytes, at).next = IF at + 4 < Len(bytes) THEN bytes[at + 5] ELSE None
  BY DEF EvexOf
<1>3. bytes[at + 5] = -1
  BY <1>2 DEF None
<1> QED BY <1>1, <1>3 DEF Byte

LEMMA EvexSound ==
  ASSUME NEW bytes \in Seq(Byte), NEW bits, NEW extra,
         PrefixBytes(bytes, 64) + 1 <= Len(bytes),
         bytes[PrefixBytes(bytes, 64) + 1] = \h62
  PROVE  HandSound(bytes, Evex(bytes, PrefixBytes(bytes, 64), bits, extra))
<1> DEFINE n == PrefixBytes(bytes, 64)
           read == OneByOne(bytes, n + 1, 4)
           e == EvexOf(bytes, n + 1)
           operand == ModrmAt(bytes, n + 5, bits)
           barred == Barred(bytes, n)
           other == e.map = 6 /\ e.u = 1
<1>1. Evex(bytes, n, bits, extra) =
        IF read # "OK" THEN Refuse(read)
        ELSE IF barred THEN Refuse("INVALID")
        ELSE IF e.map # 4 THEN Refuse(IF other THEN "UNSUPPORTED" ELSE "INVALID")
        ELSE IF IsUserMsr(e) THEN UserMsr(e, operand, extra)
        ELSE ApxEvex(bytes, e, operand, extra)
  BY Zenon DEF Evex, EvexMap
<1>2. n \in Nat /\ n + 1 \in Nat /\ n + 5 \in Nat
  BY PrefixesCounted
<1>3. Found(bytes, operand)
  BY <1>2, ModrmFound
<1>4. /\ Tested(bytes, read)
      /\ read = "OK" => n + 5 <= Len(bytes)
  BY <1>2, OneByOneTests
<1>5. read # "OK" => HandSound(bytes, Refuse(read))
  BY <1>4, RefuseSound
<1>6. /\ HandSound(bytes, Refuse("INVALID"))
      /\ HandSound(bytes, Refuse(IF other THEN "UNSUPPORTED" ELSE "INVALID"))
  BY RefuseSound DEF Tested
<1>7. HandSound(bytes, ApxEvex(bytes, e, operand, extra))
  BY <1>3, ApxEvexSound
<1>8. read = "OK" /\ IsUserMsr(e) /\ e.next = None => Unsettled(bytes)
  <2> SUFFICES ASSUME read = "OK", IsUserMsr(e), e.next = None PROVE Unsettled(bytes)
    OBVIOUS
  <2>1. ~(n + 1 + 4 < Len(bytes))
    BY <1>2, NextLacks
  <2>2. n + 5 = Len(bytes)
    BY <1>2, <1>4, <2>1
  <2> QED BY <2>2 DEF Unsettled
<1> HIDE DEF read, e, operand, barred, other, n
<1>9. read = "OK" /\ IsUserMsr(e) => HandSound(bytes, UserMsr(e, operand, extra))
  BY <1>3, <1>8, UserMsrSound
<1>10. HandSound(bytes, Evex(bytes, n, bits, extra))
  BY <1>1, <1>5, <1>6, <1>7, <1>9, Zenon
<1> QED BY <1>10 DEF n

\* What the hand-written decoder says of any bytes, in any build.
LEMMA HandIsSound ==
  ASSUME NEW bytes \in Seq(Byte), NEW extra
  PROVE  HandSound(bytes, Hand(bytes, extra))
<1> DEFINE n == PrefixBytes(bytes, 64)
           one == RequireAt(bytes, n, 1)
           bits == AddressBits(64, \E i \in 1..n : bytes[i] = \h67)
<1>1. Hand(bytes, extra) =
        IF one # "OK" THEN Refuse(one)
        ELSE IF bytes[n + 1] = \h62 THEN Evex(bytes, n, bits, extra)
        ELSE IF bytes[n + 1] = \hC4 THEN Gather(bytes, n) ELSE Rex2Ud0(bytes, n)
  BY DEF Hand, HandAt
<1>2. n \in Nat
  BY PrefixesCounted
<1>3. /\ Tested(bytes, one)
      /\ one = "OK" => n + 1 <= Len(bytes)
  BY <1>2, RequireTests
<1>4. one # "OK" => HandSound(bytes, Refuse(one))
  BY <1>3, RefuseSound
<1>5. one = "OK" /\ bytes[n + 1] = \h62 => HandSound(bytes, Evex(bytes, n, bits, extra))
  <2> HIDE DEF bits
  <2> QED BY <1>3, EvexSound
<1>6. HandSound(bytes, Refuse("INVALID")) /\ HandSound(bytes, Refuse("UNSUPPORTED"))
  BY RefuseSound DEF Tested
<1>7. HandSound(bytes, Gather(bytes, n))
  <2> DEFINE read == OneByOne(bytes, n + 1, 3)
  <2>1. Tested(bytes, read)
    BY <1>2, OneByOneTests
  <2>2. read # "OK" => HandSound(bytes, Refuse(read))
    BY <2>1, RefuseSound
  <2>3. Gather(bytes, n) = IF read # "OK" THEN Refuse(read)
                           ELSE IF Barred(bytes, n) THEN Refuse("INVALID") ELSE Refuse("UNSUPPORTED")
    BY Zenon DEF Gather
  <2> HIDE DEF read
  <2> QED BY <1>6, <2>2, <2>3
<1>8. HandSound(bytes, Rex2Ud0(bytes, n))
  <2> DEFINE read == OneByOne(bytes, n + 1, 2)
             rex == n > 0 /\ IsRex(bytes[n], 64)
  <2>1. Tested(bytes, read)
    BY <1>2, OneByOneTests
  <2>2. read # "OK" => HandSound(bytes, Refuse(read))
    BY <2>1, RefuseSound
  <2>3. Rex2Ud0(bytes, n) = IF rex THEN Refuse("INVALID")
                            ELSE IF read # "OK" THEN Refuse(read) ELSE Refuse("UNSUPPORTED")
    BY DEF Rex2Ud0
  <2> HIDE DEF read, rex
  <2> QED BY <1>6, <2>2, <2>3
<1> HIDE DEF n, one, bits
<1> QED BY <1>1, <1>4, <1>5, <1>7, <1>8

-----------------------------------------------------------------------------
(* The two builds.                                                         *)

\* The two builds of the hand-written decoder: without the extra opcodes it
\* accepts nothing, calls unsupported what the full one accepts, and otherwise
\* says the same or hands the encoding on.
Smaller(small, full) ==
  /\ small.status # "OK"
  /\ full.status = "OK" => small.status = "UNSUPPORTED"
  /\ small.status \in {full.status, "UNSUPPORTED"}

LEMMA RefuseSmaller ==
  ASSUME NEW status, status # "OK"
  PROVE  /\ Smaller(Refuse(status), Refuse(status))
         /\ \A full : Smaller(Refuse("UNSUPPORTED"), full)
BY DEF Smaller, Refuse

LEMMA OptionalSmaller ==
  ASSUME NEW length
  PROVE  Smaller(Optional(length, FALSE), Optional(length, TRUE))
BY DEF Smaller, Optional, Accept, Refuse

LEMMA CompleteSmaller ==
  ASSUME NEW bytes, NEW e, NEW operand, NEW count
  PROVE  Smaller(Complete(bytes, e, operand, count, FALSE),
                 Complete(bytes, e, operand, count, TRUE))
<1> DEFINE last == RequireAt(bytes, operand.end, count)
           illegal == IllegalOperand(e, operand.modrm)
<1> DEFINE at(extra) ==
             IF operand.status # "OK" THEN Refuse(operand.status)
             ELSE IF illegal THEN Refuse("INVALID")
             ELSE IF last # "OK" THEN Refuse(last)
             ELSE Optional(operand.end + count, extra)
<1>1. Complete(bytes, e, operand, count, FALSE) = at(FALSE)
      /\ Complete(bytes, e, operand, count, TRUE) = at(TRUE)
  BY Zenon DEF Complete
<1>2. /\ operand.status # "OK" => Smaller(Refuse(operand.status), Refuse(operand.status))
      /\ last # "OK" => Smaller(Refuse(last), Refuse(last))
      /\ Smaller(Refuse("INVALID"), Refuse("INVALID"))
  BY RefuseSmaller
<1>3. Smaller(Optional(operand.end + count, FALSE), Optional(operand.end + count, TRUE))
  BY OptionalSmaller
<1> HIDE DEF last, illegal
<1> QED BY <1>1, <1>2, <1>3, Zenon

LEMMA ApxEvexSmaller ==
  ASSUME NEW bytes, NEW e, NEW operand
  PROVE  Smaller(ApxEvex(bytes, e, operand, FALSE), ApxEvex(bytes, e, operand, TRUE))
<1> DEFINE rest(extra) ==
             IF Illegal(e) THEN Refuse("INVALID")
             ELSE IF ~Rowless(e) /\ e.opcode \notin Rows THEN Refuse("UNSUPPORTED")
             ELSE IF ~Rowless(e) /\ IllegalRow(e) THEN Refuse("INVALID")
             ELSE Complete(bytes, e, operand, ImmediateBytes(e), extra)
<1> DEFINE at(extra) ==
             IF HandedOver(e, extra) THEN Refuse("UNSUPPORTED") ELSE rest(extra)
<1>1. ApxEvex(bytes, e, operand, FALSE) = at(FALSE)
      /\ ApxEvex(bytes, e, operand, TRUE) = at(TRUE)
  BY Zenon DEF ApxEvex
<1>2. Smaller(rest(FALSE), rest(TRUE))
  BY RefuseSmaller, CompleteSmaller
<1>3. HandedOver(e, TRUE) => HandedOver(e, FALSE)
  BY DEF HandedOver, IsCfcmov
<1>4. \A full : Smaller(Refuse("UNSUPPORTED"), full)
  BY RefuseSmaller
<1> HIDE DEF rest
<1> QED BY <1>1, <1>2, <1>3, <1>4

LEMMA UserMsrSmaller ==
  ASSUME NEW e, NEW operand
  PROVE  Smaller(UserMsr(e, operand, FALSE), UserMsr(e, operand, TRUE))
<1> DEFINE bad == e.low # 0 \/ e.w = 1 \/ e.u = 0 \/ e.p2 # \h08
<1> DEFINE at(extra) ==
             IF e.next = None THEN Refuse("TRUNCATED")
             ELSE IF bad THEN Refuse("INVALID")
             ELSE IF operand.status = "OK" THEN Optional(operand.end, extra)
             ELSE Refuse(operand.status)
<1>1. UserMsr(e, operand, FALSE) = at(FALSE)
      /\ UserMsr(e, operand, TRUE) = at(TRUE)
  BY Zenon DEF UserMsr
<1>2. /\ operand.status # "OK" => Smaller(Refuse(operand.status), Refuse(operand.status))
      /\ Smaller(Refuse("TRUNCATED"), Refuse("TRUNCATED"))
      /\ Smaller(Refuse("INVALID"), Refuse("INVALID"))
  BY RefuseSmaller
<1>3. Smaller(Optional(operand.end, FALSE), Optional(operand.end, TRUE))
  BY OptionalSmaller
<1> HIDE DEF bad
<1> QED BY <1>1, <1>2, <1>3, Zenon

LEMMA EvexSmaller ==
  ASSUME NEW bytes \in Seq(Byte), NEW n \in Nat, NEW bits
  PROVE  Smaller(Evex(bytes, n, bits, FALSE), Evex(bytes, n, bits, TRUE))
<1> DEFINE read == OneByOne(bytes, n + 1, 4)
           e == EvexOf(bytes, n + 1)
           operand == ModrmAt(bytes, n + 5, bits)
           barred == Barred(bytes, n)
           other == e.map = 6 /\ e.u = 1
           answer4 == IF other THEN "UNSUPPORTED" ELSE "INVALID"
<1> DEFINE at(extra) ==
             IF read # "OK" THEN Refuse(read)
             ELSE IF barred THEN Refuse("INVALID")
             ELSE IF e.map # 4 THEN Refuse(answer4)
             ELSE IF IsUserMsr(e) THEN UserMsr(e, operand, extra)
             ELSE ApxEvex(bytes, e, operand, extra)
<1>1. Evex(bytes, n, bits, FALSE) = at(FALSE)
      /\ Evex(bytes, n, bits, TRUE) = at(TRUE)
  BY Zenon DEF Evex, EvexMap
<1>2. /\ read # "OK" => Smaller(Refuse(read), Refuse(read))
      /\ Smaller(Refuse("INVALID"), Refuse("INVALID"))
      /\ Smaller(Refuse(answer4), Refuse(answer4))
  BY RefuseSmaller
<1>3. /\ Smaller(UserMsr(e, operand, FALSE), UserMsr(e, operand, TRUE))
      /\ Smaller(ApxEvex(bytes, e, operand, FALSE), ApxEvex(bytes, e, operand, TRUE))
  BY UserMsrSmaller, ApxEvexSmaller
<1> HIDE DEF read, e, operand, barred, other, answer4
<1> QED BY <1>1, <1>2, <1>3, Zenon

LEMMA HandSmaller ==
  ASSUME NEW bytes \in Seq(Byte)
  PROVE  Smaller(Hand(bytes, FALSE), Hand(bytes, TRUE))
<1> DEFINE n == PrefixBytes(bytes, 64)
           one == RequireAt(bytes, n, 1)
           bits == AddressBits(64, \E i \in 1..n : bytes[i] = \h67)
           is62 == bytes[n + 1] = \h62
           isC4 == bytes[n + 1] = \hC4
<1> DEFINE at(extra) ==
             IF one # "OK" THEN Refuse(one)
             ELSE IF is62 THEN Evex(bytes, n, bits, extra)
             ELSE IF isC4 THEN Gather(bytes, n) ELSE Rex2Ud0(bytes, n)
<1>1. Hand(bytes, FALSE) = at(FALSE)
      /\ Hand(bytes, TRUE) = at(TRUE)
  BY DEF Hand, HandAt
<1>2. n \in Nat
  BY PrefixesCounted
<1>3. one # "OK" => Smaller(Refuse(one), Refuse(one))
  BY RefuseSmaller
<1>4. Smaller(Evex(bytes, n, bits, FALSE), Evex(bytes, n, bits, TRUE))
  <2> HIDE DEF n, bits
  <2> QED BY <1>2, EvexSmaller
<1>5. Smaller(Refuse("INVALID"), Refuse("INVALID"))
      /\ Smaller(Refuse("UNSUPPORTED"), Refuse("UNSUPPORTED"))
  BY RefuseSmaller
<1>6. Smaller(Gather(bytes, n), Gather(bytes, n))
  <2> DEFINE read == OneByOne(bytes, n + 1, 3)
  <2>1. read # "OK" => Smaller(Refuse(read), Refuse(read))
    BY RefuseSmaller
  <2>2. Gather(bytes, n) = IF read # "OK" THEN Refuse(read)
                           ELSE IF Barred(bytes, n) THEN Refuse("INVALID") ELSE Refuse("UNSUPPORTED")
    BY Zenon DEF Gather
  <2> HIDE DEF read
  <2> QED BY <1>5, <2>1, <2>2
<1>7. Smaller(Rex2Ud0(bytes, n), Rex2Ud0(bytes, n))
  <2> DEFINE read == OneByOne(bytes, n + 1, 2)
             rex == n > 0 /\ IsRex(bytes[n], 64)
  <2>1. read # "OK" => Smaller(Refuse(read), Refuse(read))
    BY RefuseSmaller
  <2>2. Rex2Ud0(bytes, n) = IF rex THEN Refuse("INVALID")
                            ELSE IF read # "OK" THEN Refuse(read) ELSE Refuse("UNSUPPORTED")
    BY DEF Rex2Ud0
  <2> HIDE DEF read, rex
  <2> QED BY <1>5, <2>1, <2>2
<1> HIDE DEF n, one, bits, is62, isC4
<1> QED BY <1>1, <1>3, <1>4, <1>6, <1>7, Zenon

-----------------------------------------------------------------------------
(* Both decoders.                                                          *)

\* What a caller is told of some bytes.
Told(bytes, r) ==
  /\ r.status \in Answers \cup {"END_OF_INPUT"}
  /\ IF r.status = "OK" THEN Within(bytes, r.length) ELSE r.length = 0
  /\ Full(bytes) /\ r.status = "TRUNCATED" => Unsettled(bytes)

LEMMA ReplyTells ==
  ASSUME NEW status, NEW length, NEW name
  PROVE  /\ Reply(status, length, name).status = status
         /\ Reply(status, length, name).length = length
BY DEF Reply

LEMMA RefusalTold ==
  ASSUME NEW bytes, NEW status \in (Answers \cup {"END_OF_INPUT"}) \ {"OK"}, NEW name,
         Full(bytes) /\ status = "TRUNCATED" => Unsettled(bytes)
  PROVE  Told(bytes, Reply(status, 0, name))
BY ReplyTells DEF Told

LEMMA InstructionTold ==
  ASSUME NEW bytes, NEW length, Within(bytes, length), NEW name
  PROVE  Told(bytes, Reply("OK", length, name))
BY ReplyTells DEF Told, Answers

LEMMA FallbackTold ==
  ASSUME NEW bytes, NEW hand, HandSound(bytes, hand), hand.status # "OK",
         NEW generated, Sound(bytes, generated)
  PROVE  Told(bytes, Fallback(hand, generated))
<1> DEFINE g == generated.status
           h == hand.status
<1>1. Fallback(hand, generated) =
        IF g = "OK" THEN Reply("OK", generated.length, generated.name)
        ELSE IF h = "UNSUPPORTED" /\ g # "INVALID" THEN Reply(g, 0, "") ELSE Reply(h, 0, "")
  BY Zenon DEF Fallback
<1>2. g = "OK" => Told(bytes, Reply("OK", generated.length, generated.name))
  BY InstructionTold DEF Sound
<1>3. g # "OK" => Told(bytes, Reply(g, 0, ""))
  BY RefusalTold DEF Sound
<1>4. Told(bytes, Reply(h, 0, ""))
  BY RefusalTold DEF HandSound
<1> HIDE DEF g, h
<1> QED BY <1>1, <1>2, <1>3, <1>4

LEMMA DecodeTold ==
  ASSUME NEW bytes \in Seq(Byte), NEW bits, NEW available, NEW extra
  PROVE  Told(bytes, Decode(bytes, bits, available, extra))
<1> DEFINE hand == Hand(bytes, extra)
           generated == Generated(bytes, 64, bits, available)
           asks == hand.status = "UNSUPPORTED" \/ (hand.status = "INVALID" /\ Retried(bytes))
           admitted == ~extra \/ HandBits(EvexOf(bytes, PrefixBytes(bytes, 64) + 1)) \subseteq bits
           refused == Reply("UNSUPPORTED", 0, "")
<1>1. Decode(bytes, bits, available, extra) =
        IF bytes = <<>> THEN Reply("END_OF_INPUT", 0, "")
        ELSE IF asks THEN IF extra THEN Fallback(hand, generated) ELSE refused
        ELSE IF hand.status # "OK" THEN Reply(hand.status, 0, "")
        ELSE IF admitted THEN Reply("OK", hand.length, "") ELSE refused
  BY Zenon DEF Decode, FromHand
<1>2. HandSound(bytes, hand) /\ Sound(bytes, generated)
  BY HandIsSound, GeneratedSound
<1>3. asks => hand.status # "OK"
  OBVIOUS
<1> HIDE DEF hand, generated, asks, admitted
<1>4. Told(bytes, Reply("END_OF_INPUT", 0, "")) /\ Told(bytes, refused)
  BY RefusalTold DEF Answers
<1>5. asks => Told(bytes, Fallback(hand, generated))
  BY <1>2, <1>3, FallbackTold
<1>6. hand.status # "OK" => Told(bytes, Reply(hand.status, 0, ""))
  BY <1>2, RefusalTold DEF HandSound
<1>7. hand.status = "OK" => Told(bytes, Reply("OK", hand.length, ""))
  BY <1>2, InstructionTold DEF HandSound
<1> HIDE DEF refused
<1> QED BY <1>1, <1>4, <1>5, <1>6, <1>7

\* What the full build accepts, the other one calls unsupported.
LEMMA DecodeSmaller ==
  ASSUME NEW bytes \in Seq(Byte), NEW bits, NEW available,
         Decode(bytes, bits, available, TRUE).status = "OK"
  PROVE  Decode(bytes, {}, available, FALSE).status = "UNSUPPORTED"
<1> DEFINE full == Hand(bytes, TRUE)
           small == Hand(bytes, FALSE)
           retried == Retried(bytes)
           asks(hand) == hand.status = "UNSUPPORTED" \/ (hand.status = "INVALID" /\ retried)
           refused == Reply("UNSUPPORTED", 0, "")
           admitted == HandBits(EvexOf(bytes, PrefixBytes(bytes, 64) + 1)) \subseteq bits
           fallback == Fallback(full, Generated(bytes, 64, bits, available))
<1>1. Decode(bytes, bits, available, TRUE) =
        IF bytes = <<>> THEN Reply("END_OF_INPUT", 0, "")
        ELSE IF asks(full) THEN fallback
        ELSE IF full.status # "OK" THEN Reply(full.status, 0, "")
        ELSE IF admitted THEN Reply("OK", full.length, "") ELSE refused
  BY Zenon DEF Decode, FromHand
<1>2. Decode(bytes, {}, available, FALSE) =
        IF bytes = <<>> THEN Reply("END_OF_INPUT", 0, "")
        ELSE IF asks(small) THEN refused
        ELSE IF small.status # "OK" THEN Reply(small.status, 0, "")
        ELSE Reply("OK", small.length, "")
  BY Zenon DEF Decode, FromHand
<1>3. Smaller(small, full)
  BY HandSmaller
<1> HIDE DEF full, small, fallback, admitted, retried
<1>4. bytes # <<>> /\ (asks(full) \/ full.status = "OK")
  <2>1. /\ Reply("END_OF_INPUT", 0, "").status = "END_OF_INPUT"
        /\ Reply(full.status, 0, "").status = full.status
        /\ "END_OF_INPUT" # "OK"
    BY DEF Reply
  <2> HIDE DEF asks, refused
  <2> QED BY <1>1, <2>1, Zenon
<1>5. asks(small)
  BY <1>3, <1>4 DEF Smaller
<1>6. Decode(bytes, {}, available, FALSE) = refused
  BY <1>2, <1>4, <1>5, Zenon
<1>7. refused.status = "UNSUPPORTED"
  BY DEF Reply
<1> HIDE DEF refused
<1> QED BY <1>6, <1>7, Zenon

\* The build without them accepts nothing.
LEMMA SmallBuildRefuses ==
  ASSUME NEW bytes \in Seq(Byte), NEW bits, NEW available
  PROVE  Decode(bytes, bits, available, FALSE).status # "OK"
<1> DEFINE small == Hand(bytes, FALSE)
           asks == small.status = "UNSUPPORTED" \/ (small.status = "INVALID" /\ Retried(bytes))
<1>1. Decode(bytes, bits, available, FALSE) =
        IF bytes = <<>> THEN Reply("END_OF_INPUT", 0, "")
        ELSE IF asks THEN Reply("UNSUPPORTED", 0, "")
        ELSE IF small.status # "OK" THEN Reply(small.status, 0, "")
        ELSE Reply("OK", small.length, "")
  BY Zenon DEF Decode, FromHand
<1>2. small.status # "OK"
  BY HandSmaller DEF Smaller
<1> HIDE DEF small, asks
<1>3. /\ Reply("END_OF_INPUT", 0, "").status # "OK"
      /\ Reply("UNSUPPORTED", 0, "").status # "OK"
      /\ Reply(small.status, 0, "").status = small.status
  BY DEF Reply
<1> QED BY <1>1, <1>2, <1>3, Zenon

-----------------------------------------------------------------------------
(* Where both decoders have an encoding: an EVEX opcode of map 4 that the   *)
(* hand-written one accepts is read from the same bytes by the other, all   *)
(* rows of its bucket make it as long, and one of them matches.             *)

\* The fields of an EVEX instruction behind prefixes that carry nothing.
EvexSays(f, p0, p1, p2) ==
  /\ f.REXW = Bit(p1, 7) /\ f.REX2 = 0 /\ f.VEX_PREFIX = VexPrefix(p1 % 4)
  /\ f.VL = (p2 \div 32) % 4 /\ f.UBIT = Bit(p1, 2) /\ f.ZEROING = Bit(p2, 7)
  /\ f.ND = Bit(p2, 4) /\ f.NF = Bit(p2, 2)
  /\ f.VEXDEST3 = Bit(p1, 6) /\ f.VEXDEST210 = (p1 \div 8) % 8
  /\ f.VEXDEST4 = Inverted(p2, 3)
  /\ f.REXB = Inverted(p0, 5) /\ f.REXB4 = Bit(p0, 3)

LEMMA EvexFieldsRead ==
  ASSUME NEW p, p.rex2 = FALSE, NEW p0 \in Byte, NEW p1 \in Byte, NEW p2 \in Byte
  PROVE  EvexSays(EvexFields(PrefixFields(p, 64), 64, p0, p1, p2), p0, p1, p2)
<1> DEFINE none == PrefixFields(p, 64)
           vex == VexFields(none, p1)
           low == [vex EXCEPT
                !.REXW = Bit(p1, 7), !.VEXDEST4 = Inverted(p2, 3),
                !.UBIT = Bit(p1, 2), !.VL = (p2 \div 32) % 4, !.BCRC = Bit(p2, 4),
                !.ZEROING = Bit(p2, 7), !.MASK = p2 % 8, !.ND = Bit(p2, 4),
                !.NF = Bit(p2, 2)]
           f == EvexFields(none, 64, p0, p1, p2)
<1>1. DOMAIN none = FieldNames /\ none["REX2"] = 0
  <2> DEFINE g(x) == CASE x = "EASZ" -> CASE AddressSize(p, 64) = 16 -> 1
                          [] AddressSize(p, 64) = 32 -> 2
                          [] OTHER -> 3
       [] x = "REP" -> p.repeat
       [] x = "OSZ" -> AsBit(p.operand)
       [] x = "ASZ" -> AsBit(p.address)
       [] x = "LOCK" -> AsBit(p.lock)
       [] x = "REXW" -> Bit(p.rex, 3)
       [] x = "REXR" -> Bit(p.rex, 2)
       [] x = "REXB" -> Bit(p.rex, 0)
       [] x = "REX2" -> AsBit(p.rex2)
       [] x = "REXR4" -> Bit(p.high, 2)
       [] x = "REXB4" -> Bit(p.high, 0)
       [] OTHER -> 0
  <2>1. none = [x \in FieldNames |-> g(x)]
    BY Zenon DEF PrefixFields
  <2>2. g("REX2") = AsBit(p.rex2)
    BY Zenon
  <2>3. "REX2" \in FieldNames
    BY DEF FieldNames
  <2>4. AsBit(p.rex2) = 0
    BY DEF AsBit
  <2> HIDE DEF g
  <2> QED BY <2>1, <2>2, <2>3, <2>4
<1>2. vex = [none EXCEPT !.VEXDEST3 = Bit(p1, 6), !.VEXDEST210 = (p1 \div 8) % 8,
                         !.VEX_PREFIX = VexPrefix(p1 % 4)]
  BY Zenon DEF VexFields
<1>3. f = [low EXCEPT !.REXR = Inverted(p0, 7), !.REXR4 = Inverted(p0, 4),
                      !.REXB = Inverted(p0, 5), !.REXB4 = Bit(p0, 3)]
  BY DEF EvexFields
<1> HIDE DEF none
<1>4. /\ DOMAIN vex = FieldNames /\ vex["REX2"] = 0
      /\ vex.VEXDEST3 = Bit(p1, 6) /\ vex.VEXDEST210 = (p1 \div 8) % 8
      /\ vex.VEX_PREFIX = VexPrefix(p1 % 4)
  BY <1>1, <1>2 DEF FieldNames
<1> HIDE DEF vex
<1>5. /\ DOMAIN low = FieldNames /\ low["REX2"] = 0
      /\ low.VEXDEST3 = Bit(p1, 6) /\ low.VEXDEST210 = (p1 \div 8) % 8
      /\ low.VEX_PREFIX = VexPrefix(p1 % 4)
      /\ low.REXW = Bit(p1, 7) /\ low.VEXDEST4 = Inverted(p2, 3)
      /\ low.UBIT = Bit(p1, 2) /\ low.VL = (p2 \div 32) % 4
      /\ low.ZEROING = Bit(p2, 7) /\ low.ND = Bit(p2, 4) /\ low.NF = Bit(p2, 2)
  BY <1>4 DEF FieldNames
<1> HIDE DEF low
<1> HIDE DEF f
<1>6. EvexSays(f, p0, p1, p2)
  BY <1>3, <1>5 DEF EvexSays, FieldNames
<1> QED BY <1>6, Zenon DEF f, none

\* The EVEX opcode as the generated decoder finds it behind n prefixes.
EvexAddress(bytes, n) == AddressBits(64, \E i \in 1..n : bytes[i] = \h67)

EvexOperand(bytes, n) == ModrmAt(bytes, n + 5, EvexAddress(bytes, n))

EvexOpcode(bytes, n) ==
  [fields |-> EvexFields(PrefixFields(LegacyOpening(bytes, n, 64), 64), 64,
                         bytes[n + 2], bytes[n + 3], bytes[n + 4]),
   space |-> "EVEX", end |-> n + 5, mode |-> 64,
   addressBits |-> EvexAddress(bytes, n), operand |-> EvexOperand(bytes, n)]

EvexRows(bytes, n) ==
  {row \in Bucket("EVEX", bytes[n + 2] % 8, bytes[n + 5]) : 64 \in row.modes}

\* An opening that ends before byte n and may go before a vector opcode.
Plain(p, n) ==
  /\ p.status = "OK" /\ p.at = n /\ p.rex2 = FALSE /\ p.rexPresent = FALSE
  /\ p.lock = FALSE /\ p.operand = FALSE /\ p.repeat = 0

\* Both decoders let the same prefixes through.
LEMMA EvexOpening ==
  ASSUME NEW bytes \in Seq(Byte), NEW n \in Nat, n = PrefixBytes(bytes, 64),
         RequireAt(bytes, n, 1) = "OK", bytes[n + 1] = \h62, ~Barred(bytes, n)
  PROVE  /\ Opening(bytes, 64) = LegacyOpening(bytes, n, 64)
         /\ Plain(Opening(bytes, 64), n)
         /\ AddressSize(Opening(bytes, 64), 64) = EvexAddress(bytes, n)
<1> DEFINE p == LegacyOpening(bytes, n, 64)
           repeats == {i \in 1..n : bytes[i] \in {\hF2, \hF3}}
<1>1. \A i \in 1..n : bytes[i] \notin {\hF0, \hF2, \hF3, \h66} \cup (\h40..\h4F)
  BY DEF Barred
<1>2. repeats = {}
  BY <1>1
<1>3. ~(n > 0 /\ IsRex(bytes[n], 64))
  BY <1>1 DEF IsRex
<1>4. ~(\E i \in 1..n : bytes[i] = \hF0) /\ ~(\E i \in 1..n : bytes[i] = \h66)
  BY <1>1
<1>5. /\ p.status = RequireAt(bytes, n, 1) /\ p.at = n /\ p.rex2 = FALSE
      /\ p.rexPresent = (n > 0 /\ IsRex(bytes[n], 64))
      /\ p.lock = (\E i \in 1..n : bytes[i] = \hF0)
      /\ p.operand = (\E i \in 1..n : bytes[i] = \h66)
      /\ p.address = (\E i \in 1..n : bytes[i] = \h67)
      /\ p.repeat = IF repeats = {} THEN 0 ELSE bytes[Max(repeats)] % 16
  BY DEF LegacyOpening
<1> HIDE DEF p, repeats
<1>6. Opening(bytes, 64) = p
  <2>1. ~IsRex2(bytes[n + 1], 64)
    BY DEF IsRex2
  <2>2. Opening(bytes, 64) = WithRex2(bytes, p, 64)
    BY Zenon DEF Opening, p
  <2> QED BY <1>5, <2>1, <2>2 DEF WithRex2
<1>7. AddressSize(p, 64) = EvexAddress(bytes, n)
  BY <1>5, Zenon DEF AddressSize, EvexAddress
<1>8. Plain(p, n)
  BY <1>2, <1>3, <1>4, <1>5 DEF Plain
<1> QED BY <1>6, <1>7, <1>8, Zenon DEF p

LEMMA EvexFound ==
  ASSUME NEW bytes \in Seq(Byte), NEW n \in Nat, n = PrefixBytes(bytes, 64),
         RequireAt(bytes, n, 1) = "OK", bytes[n + 1] = \h62, ~Barred(bytes, n),
         RequireAt(bytes, n, 5) = "OK"
  PROVE  OpcodeOf(bytes, Opening(bytes, 64), 64) =
           [status |-> "OK", space |-> "EVEX", map |-> bytes[n + 2] % 8,
            fields |-> EvexOpcode(bytes, n).fields, opcode |-> bytes[n + 5],
            end |-> n + 5]
<1>0. Opening(bytes, 64) = LegacyOpening(bytes, n, 64) /\ Plain(Opening(bytes, 64), n)
  BY EvexOpening
<1> DEFINE p == Opening(bytes, 64)
           lead == bytes[p.at + 1]
           size == VectorSize(lead)
           P(i) == bytes[p.at + 2 + i]
           none == PrefixFields(p, 64)
           found(space, map, fields) ==
             [status |-> "OK", space |-> space, map |-> map, fields |-> fields,
              opcode |-> bytes[p.at + size], end |-> p.at + size]
           need == RequireAt(bytes, p.at, size)
           f == [VexFields(none, P(0)) EXCEPT !.REXR = Inverted(P(0), 7), !.VL = Bit(P(0), 2)]
           t == ThreeByteFields(none, 64, P(0), P(1))
           e == EvexFields(none, 64, P(0), P(1), P(2))
           other == IF 64 # 64 /\ Inverted(P(2), 3) = 1 THEN Refusal("INVALID")
                    ELSE found("EVEX", P(0) % 8, e)
           vex2 == lead = \hC5
           vex3 == lead = \hC4
           xop == lead = \h8F
<1>1. /\ p = LegacyOpening(bytes, n, 64)
      /\ p.status = "OK" /\ p.at = n /\ p.rex2 = FALSE /\ p.rexPresent = FALSE
      /\ p.lock = FALSE /\ p.operand = FALSE /\ p.repeat = 0
  BY <1>0, Zenon DEF Plain
<1> HIDE DEF p
<1>2. lead = \h62 /\ size = 5
  BY <1>1 DEF VectorSize
<1>3. LeadsVector(bytes, p, 64)
  BY <1>1, <1>2 DEF LeadsVector
<1>4. Vector(bytes, p, 64) =
        Needing(need, IF p.lock \/ p.operand \/ p.repeat # 0 \/ p.rexPresent
                      THEN Refusal("INVALID")
                      ELSE CASE vex2 -> found("VEX", 1, f)
                             [] vex3 -> found("VEX", P(0) % 32, t)
                             [] xop -> found("XOP", P(0) % 32, t)
                             [] OTHER -> other)
  BY Zenon DEF Vector
<1>5. ~vex2 /\ ~vex3 /\ ~xop
  BY <1>2
<1>6. other = found("EVEX", P(0) % 8, e)
  BY Zenon
<1>7. need = "OK"
  BY <1>1, <1>2
<1>8. Vector(bytes, p, 64) = found("EVEX", P(0) % 8, e)
  <2> HIDE DEF need, vex2, vex3, xop, found, f, t, e, other
  <2>1. (CASE vex2 -> found("VEX", 1, f) [] vex3 -> found("VEX", P(0) % 32, t)
           [] xop -> found("XOP", P(0) % 32, t) [] OTHER -> other) = other
    BY <1>5, Zenon
  <2> HIDE DEF P
  <2> QED BY <1>1, <1>4, <1>6, <1>7, <2>1 DEF Needing
<1>9. e = EvexOpcode(bytes, n).fields
  <2>1. P(0) = bytes[n + 2] /\ P(1) = bytes[n + 3] /\ P(2) = bytes[n + 4]
    BY <1>1
  <2> HIDE DEF P
  <2> QED BY <1>1, <2>1 DEF EvexOpcode
<1>10. OpcodeOf(bytes, p, 64) = Vector(bytes, p, 64)
  BY <1>1, <1>3 DEF OpcodeOf, Needing
<1>11. P(0) = bytes[n + 2] /\ p.at + size = n + 5
  BY <1>1, <1>2
<1> HIDE DEF e, P, size
<1> QED BY <1>8, <1>9, <1>10, <1>11 DEF p

LEMMA EvexGenerated ==
  ASSUME NEW bytes \in Seq(Byte), NEW n \in Nat, n = PrefixBytes(bytes, 64),
         RequireAt(bytes, n, 1) = "OK", bytes[n + 1] = \h62, ~Barred(bytes, n),
         RequireAt(bytes, n, 5) = "OK", NEW chosen, NEW available
  PROVE  Generated(bytes, 64, chosen, available) =
           Selection(bytes, EvexOpcode(bytes, n), EvexRows(bytes, n), chosen, available)
<1> DEFINE p == Opening(bytes, 64)
           found == OpcodeOf(bytes, p, 64)
<1>1. found = [status |-> "OK", space |-> "EVEX", map |-> bytes[n + 2] % 8,
               fields |-> EvexOpcode(bytes, n).fields, opcode |-> bytes[n + 5],
               end |-> n + 5]
  BY EvexFound
<1>2. AddressSize(p, 64) = EvexAddress(bytes, n)
  BY EvexOpening
<1>3. Generated(bytes, 64, chosen, available) =
        FromPrefixes(bytes, 64, p, found, chosen, available)
  BY Zenon DEF Generated, FromOpening
<1> HIDE DEF p, found
<1>4. found.status = "OK" /\ found.space = "EVEX" /\ found.map = bytes[n + 2] % 8
      /\ found.opcode = bytes[n + 5] /\ found.end = n + 5
      /\ found.fields = EvexOpcode(bytes, n).fields
  BY <1>1
<1>5. \A operand : Suffixed(bytes, found, operand) = found
  BY <1>4 DEF Suffixed
<1>6. FromPrefixes(bytes, 64, p, found, chosen, available) =
        FromOpcode(bytes, 64, found, EvexOperand(bytes, n), EvexAddress(bytes, n),
                   chosen, available)
  BY <1>2, <1>4, <1>5 DEF FromPrefixes, EvexOperand
<1>7. EvexOpcode(bytes, n) =
        [fields |-> found.fields, space |-> found.space, end |-> found.end,
         mode |-> 64, addressBits |-> EvexAddress(bytes, n),
         operand |-> EvexOperand(bytes, n)]
  BY <1>4 DEF EvexOpcode
<1> QED BY <1>3, <1>4, <1>6, <1>7 DEF FromOpcode, EvexRows

\* The decode bits of APX.
ApxBits == {"APX", "APX_F_N3"}

\* The rows of APX, which ask for EVEX and a ModRM byte.
ApxForm(row, mods, regs, fields, immediate) ==
  /\ row.modrm = TRUE /\ row.mods = mods /\ row.regs = regs /\ row.rms = Any8
  /\ row.fields = fields /\ row.immediate = immediate
  /\ row.evapx = TRUE /\ row.modes = {64} /\ row.bit \in ApxBits

Pop2Fields(w) ==
  [REXW |-> {w}, REX2 |-> {0}, VEX_PREFIX |-> {0}, VL |-> {0}, UBIT |-> {1},
   ZEROING |-> {0}, ND |-> {1}, NF |-> {0}]

LEMMA Pop2Formed ==
  /\ \A row \in Pop2Rows : \E w \in {0, 1} : ApxForm(row, Registers, {0}, Pop2Fields(w), "NONE")
  /\ \A w \in {0, 1} : \E row \in Pop2Rows : ApxForm(row, Registers, {0}, Pop2Fields(w), "NONE")
<1> DEFINE Pop2(name, order, w) ==
             [WithModrm(Row(name, "APX_F_N3", order, 22, Pop2Fields(w)), Registers)
                EXCEPT !.modes = {64}, !.regs = {0}, !.evapx = TRUE, !.noRsp = TRUE]
<1>1. Pop2Rows = {Pop2("POP2", 10769, 0), Pop2("POP2P", 10770, 1)}
  BY DEF Pop2Rows, Pop2Fields
<1>2. ASSUME NEW name, NEW order, NEW w
      PROVE  ApxForm(Pop2(name, order, w), Registers, {0}, Pop2Fields(w), "NONE")
  <2> DEFINE fields == Pop2Fields(w)
             r == [WithModrm(Row(name, "APX_F_N3", order, 22, fields), Registers)
                     EXCEPT !.modes = {64}, !.regs = {0}, !.evapx = TRUE, !.noRsp = TRUE]
  <2> HIDE DEF fields
  <2>1. ApxForm(r, Registers, {0}, fields, "NONE")
    BY DEF ApxForm, WithModrm, Row, ApxBits
  <2> QED BY <2>1, Zenon DEF fields
<1> HIDE DEF Pop2
<1> QED BY <1>1, <1>2

ImulFields(pp, nd, nf) ==
  [REX2 |-> {0}, VEX_PREFIX |-> {pp}, VL |-> {0}, UBIT |-> {1}, ZEROING |-> {0},
   ND |-> {nd}, NF |-> {nf}, VEXDEST3 |-> {1}, VEXDEST210 |-> {7}, VEXDEST4 |-> {0}]

ImulForm(row, pp, nd, nf, mods) ==
  ApxForm(row, mods, Any8, ImulFields(pp, nd, nf), "IMM_Z") /\ row.noRsp = FALSE

LEMMA ImulFormed ==
  /\ \A row \in ImulRows : \E pp \in {0, 1}, nd \in {0, 1}, nf \in {0, 1}, mods \in {Registers, Memory} :
        ImulForm(row, pp, nd, nf, mods)
  /\ \A pp \in {0, 1}, nd \in {0, 1}, nf \in {0, 1}, mods \in {Registers, Memory} :
       \E row \in ImulRows : ImulForm(row, pp, nd, nf, mods)
<1> DEFINE Imul(pp, nd, nf, mods) ==
             [WithModrm(Row("IMUL", IF nd = 0 /\ nf = 0 THEN "APX" ELSE "APX_F_N3",
                       1579 + 16 * pp + 4 * nf + 2 * nd + IF mods = Memory THEN 1 ELSE 0,
                       IF mods = Registers THEN 17 ELSE 15, ImulFields(pp, nd, nf)), mods)
                EXCEPT !.modes = {64}, !.evapx = TRUE, !.immediate = "IMM_Z"]
<1>1. ImulRows = {Imul(pp, nd, nf, mods) :
         pp \in {0, 1}, nd \in {0, 1}, nf \in {0, 1}, mods \in {Registers, Memory}}
  BY DEF ImulRows, ImulFields
<1>2. ASSUME NEW pp, NEW nd, NEW nf, NEW mods
      PROVE  ImulForm(Imul(pp, nd, nf, mods), pp, nd, nf, mods)
  <2>1. (IF nd = 0 /\ nf = 0 THEN "APX" ELSE "APX_F_N3") \in ApxBits
    BY DEF ApxBits
  <2> DEFINE bit == IF nd = 0 /\ nf = 0 THEN "APX" ELSE "APX_F_N3"
             order == 1579 + 16 * pp + 4 * nf + 2 * nd + IF mods = Memory THEN 1 ELSE 0
             s == IF mods = Registers THEN 17 ELSE 15
             fields == ImulFields(pp, nd, nf)
             r == [WithModrm(Row("IMUL", bit, order, s, fields), mods)
                     EXCEPT !.modes = {64}, !.evapx = TRUE, !.immediate = "IMM_Z"]
  <2> HIDE DEF bit, order, s, fields
  <2>2. ApxForm(r, mods, Any8, fields, "IMM_Z") /\ r.noRsp = FALSE
    BY <2>1 DEF ApxForm, WithModrm, Row, bit, ApxBits
  <2>3. r = Imul(pp, nd, nf, mods)
    BY Zenon DEF bit, order, s, fields
  <2>4. fields = ImulFields(pp, nd, nf)
    BY DEF fields
  <2> HIDE DEF r, Imul
  <2> QED BY <2>2, <2>3, <2>4 DEF ImulForm
<1> HIDE DEF Imul
<1> QED BY <1>1, <1>2

FixedFields(pp, nd, nf) ==
  [f \in DOMAIN ZeroFields(pp, nd, nf) \cup DOMAIN Unused |->
     IF f \in DOMAIN Unused THEN Unused[f] ELSE ZeroFields(pp, nd, nf)[f]]

ZeroForm(row, fields, mods) ==
  ApxForm(row, mods, Any8, fields, "NONE") /\ row.noRsp = FALSE

LEMMA ZeroFormed ==
  /\ \A row \in ZeroRows : \E fields, mods : ZeroForm(row, fields, mods)
  /\ \A mods \in {Registers, Memory} :
       /\ \A pp \in {0, 1} : \E row \in ZeroRows : ZeroForm(row, ZeroFields(pp, 1, 0), mods)
       /\ \A nd \in {0, 1} : \E row \in ZeroRows : ZeroForm(row, FixedFields(2, nd, 0), mods)
<1>1. ASSUME NEW name, NEW pp, NEW nd, NEW nf, NEW mods
      PROVE  ZeroForm(ZeroRow(name, pp, nd, nf, mods), ZeroFields(pp, nd, nf), mods)
  <2> DEFINE s == IF mods = Registers THEN 14 ELSE 12
             fields == ZeroFields(pp, nd, nf)
             r == [WithModrm(Row(name, "APX_F_N3", 0, s, fields), mods)
                     EXCEPT !.modes = {64}, !.evapx = TRUE]
  <2> HIDE DEF s, fields
  <2>1. ZeroForm(r, fields, mods)
    BY DEF ZeroForm, ApxForm, WithModrm, Row, ApxBits
  <2> QED BY <2>1, Zenon DEF s, fields, ZeroRow
<1>2. ASSUME NEW name, NEW pp, NEW nd, NEW nf, NEW mods
      PROVE  ZeroForm(FixedRow(ZeroRow(name, pp, nd, nf, mods)), FixedFields(pp, nd, nf), mods)
  <2> DEFINE z == ZeroRow(name, pp, nd, nf, mods)
  <2>1. ZeroForm(z, ZeroFields(pp, nd, nf), mods)
    BY <1>1
  <2>2. "fields" \in DOMAIN z
    BY DEF ZeroRow, WithModrm, Row
  <2> HIDE DEF z
  <2> QED BY <2>1, <2>2 DEF ZeroForm, ApxForm, FixedFields, FixedRow, z
<1>3. ASSUME NEW row \in ZeroRows PROVE \E fields, mods : ZeroForm(row, fields, mods)
  <2>1. PICK pp \in {0, 1}, nf \in {0, 1}, mods \in {Registers, Memory} :
          row \in ZeroGroup(pp, nf, mods)
    BY ZeroGroups
  <2> QED BY <1>1, <1>2, <2>1 DEF ZeroGroup
<1>4. \A pp \in {0, 1}, nf \in {0, 1}, mods \in {Registers, Memory} :
        ZeroGroup(pp, nf, mods) \subseteq ZeroRows
  BY ZeroGroups
<1>5. ASSUME NEW mods \in {Registers, Memory}, NEW pp \in {0, 1}
      PROVE  \E row \in ZeroRows : ZeroForm(row, ZeroFields(pp, 1, 0), mods)
  <2>1. ZeroRow("CMOV", pp, 1, 0, mods) \in ZeroGroup(pp, 0, mods)
    BY DEF ZeroGroup
  <2> QED BY <1>1, <1>4, <2>1
<1>6. ASSUME NEW mods \in {Registers, Memory}, NEW nd \in {0, 1}
      PROVE  \E row \in ZeroRows : ZeroForm(row, FixedFields(2, nd, 0), mods)
  <2>1. FixedRow(ZeroRow("SETCC", 2, nd, 0, mods)) \in ZeroGroup(0, nd, mods)
    BY DEF ZeroGroup
  <2> QED BY <1>2, <1>4, <2>1
<1> QED BY <1>3, <1>5, <1>6

Flag == {0, 1}

\* The fields of the one decoder in the terms of the other.
Carries(f, e) ==
  /\ f.REXW = e.w /\ f.REX2 = 0 /\ f.VEX_PREFIX = VexPrefix(e.pp)
  /\ f.VL = (e.p2 \div 32) % 4 /\ f.UBIT = e.u /\ f.ZEROING = Bit(e.p2, 7)
  /\ f.ND = e.nd /\ f.NF = e.nf
  /\ e.destination = (7 - f.VEXDEST210) + 8 * (1 - f.VEXDEST3) + 16 * f.VEXDEST4
  /\ e.low = (7 - f.VEXDEST210) + 8 * (1 - f.VEXDEST3)
  /\ f.VEXDEST210 \in 0..7 /\ f.VEXDEST3 \in Flag /\ f.VEXDEST4 \in Flag
  /\ f.VEXDEST4 = Inverted(e.p2, 3) /\ f.REXB \in Flag /\ f.REXB4 \in Flag
  /\ e.w \in Flag /\ e.u \in Flag /\ e.nd \in Flag /\ e.nf \in Flag
  /\ e.pp \in 0..3 /\ e.p2 \in Byte
  /\ e.nd = Bit(e.p2, 4) /\ e.nf = Bit(e.p2, 2)

LEMMA VvvvSplit ==
  ASSUME NEW p1 \in Byte
  PROVE  15 - ((p1 \div 8) % 16) = (7 - ((p1 \div 8) % 8)) + 8 * (1 - Bit(p1, 6))
<1>1. Bit(p1, 6) = (p1 \div 64) % 2
  BY DEF Bit
<1> QED BY <1>1 DEF Byte

LEMMA BitIsFlag ==
  /\ \A b \in Byte : Bit(b, 2) \in Flag /\ Bit(b, 4) \in Flag /\ Bit(b, 6) \in Flag
                     /\ Bit(b, 7) \in Flag /\ Bit(b, 3) \in Flag /\ Bit(b, 5) \in Flag
  /\ \A b \in Byte : Inverted(b, 3) \in Flag /\ Inverted(b, 5) \in Flag
BY DEF Byte, Bit, Inverted, Flag

LEMMA EvexCarried ==
  ASSUME NEW bytes \in Seq(Byte), NEW n \in Nat, n + 5 <= Len(bytes),
         LegacyOpening(bytes, n, 64).rex2 = FALSE
  PROVE  Carries(EvexOpcode(bytes, n).fields, EvexOf(bytes, n + 1))
<1> DEFINE p0 == bytes[n + 2]
           p1 == bytes[n + 3]
           p2 == bytes[n + 4]
           f == EvexOpcode(bytes, n).fields
           e == EvexOf(bytes, n + 1)
<1>1. p0 \in Byte /\ p1 \in Byte /\ p2 \in Byte
  OBVIOUS
<1>2. f = EvexFields(PrefixFields(LegacyOpening(bytes, n, 64), 64), 64, p0, p1, p2)
  BY DEF EvexOpcode
<1>3. /\ f.REXW = Bit(p1, 7) /\ f.REX2 = 0 /\ f.VEX_PREFIX = VexPrefix(p1 % 4)
      /\ f.VL = (p2 \div 32) % 4 /\ f.UBIT = Bit(p1, 2) /\ f.ZEROING = Bit(p2, 7)
      /\ f.ND = Bit(p2, 4) /\ f.NF = Bit(p2, 2)
      /\ f.VEXDEST3 = Bit(p1, 6) /\ f.VEXDEST210 = (p1 \div 8) % 8
      /\ f.VEXDEST4 = Inverted(p2, 3)
      /\ f.REXB = Inverted(p0, 5) /\ f.REXB4 = Bit(p0, 3)
  <2> HIDE DEF p0, p1, p2, f
  <2>1. EvexSays(f, p0, p1, p2)
    BY <1>1, <1>2, EvexFieldsRead
  <2> QED BY <2>1 DEF EvexSays
<1>4. /\ e.w = Bit(p1, 7) /\ e.u = Bit(p1, 2) /\ e.pp = p1 % 4 /\ e.nd = Bit(p2, 4)
      /\ e.nf = Bit(p2, 2) /\ e.p2 = p2 /\ e.low = 15 - ((p1 \div 8) % 16)
      /\ e.destination = 15 - ((p1 \div 8) % 16) + 16 * Inverted(p2, 3)
  <2>1. n + 1 + 2 = n + 3 /\ n + 1 + 3 = n + 4
    OBVIOUS
  <2> QED BY <2>1 DEF EvexOf
<1> HIDE DEF p0, p1, p2, f, e
<1>5. /\ e.w \in Flag /\ e.u \in Flag /\ e.nd \in Flag /\ e.nf \in Flag
      /\ f.VEXDEST3 \in Flag /\ f.VEXDEST4 \in Flag /\ f.REXB \in Flag /\ f.REXB4 \in Flag
  BY <1>1, <1>3, <1>4, BitIsFlag
<1>6. f.VEXDEST210 \in 0..7 /\ e.pp \in 0..3 /\ e.p2 \in Byte
  <2>1. (p1 \div 8) % 8 \in 0..7 /\ p1 % 4 \in 0..3
    BY <1>1 DEF Byte
  <2> QED BY <1>1, <1>3, <1>4, <2>1
<1>7. e.low = (7 - f.VEXDEST210) + 8 * (1 - f.VEXDEST3)
  BY <1>1, <1>3, <1>4, VvvvSplit
<1>8. e.destination = e.low + 16 * f.VEXDEST4
  BY <1>3, <1>4
<1>9. e.destination = (7 - f.VEXDEST210) + 8 * (1 - f.VEXDEST3) + 16 * f.VEXDEST4
  BY <1>7, <1>8
<1> QED BY <1>3, <1>4, <1>5, <1>6, <1>7, <1>9 DEF Carries, f, e

\* A row of APX matches where its fields do.
LEMMA ApxMatches ==
  ASSUME NEW o, o.space = "EVEX", NEW row, NEW mods, NEW regs, NEW fields, NEW immediate,
         ApxForm(row, mods, regs, fields, immediate),
         Mod(o.operand.modrm) \in mods, Reg(o.operand.modrm) \in regs,
         o.operand.modrm \in Byte,
         \A name \in DOMAIN fields : FieldOf(o, row, name) \in fields[name]
  PROVE  Matches(o, row)
<1>1. Rm(o.operand.modrm) \in Any8
  BY DEF Rm, Any8, Byte
<1> QED BY <1>1 DEF ApxForm, Matches, PredicatesMatch, MaskMatches

\* What the rows ask of the fields, as the decoder reads them.
ReadsAs(o, row, e) ==
  /\ FieldOf(o, row, "UBIT") = 1
  /\ FieldOf(o, row, "REXW") = e.w /\ FieldOf(o, row, "REX2") = 0
  /\ FieldOf(o, row, "VEX_PREFIX") = VexPrefix(e.pp)
  /\ FieldOf(o, row, "VL") = (e.p2 \div 32) % 4
  /\ FieldOf(o, row, "ZEROING") = Bit(e.p2, 7)
  /\ FieldOf(o, row, "ND") = e.nd /\ FieldOf(o, row, "NF") = e.nf
  /\ FieldOf(o, row, "VEXDEST3") = o.fields.VEXDEST3
  /\ FieldOf(o, row, "VEXDEST210") = o.fields.VEXDEST210
  /\ FieldOf(o, row, "VEXDEST4") = o.fields.VEXDEST4

LEMMA FieldsRead ==
  ASSUME NEW o, o.space = "EVEX", o.mode = 64, NEW row, row.modrm = TRUE, NEW e,
         Carries(o.fields, e), e.u = 1 \/ InMemory(o.operand.modrm)
  PROVE  ReadsAs(o, row, e)
<1>1. FieldOf(o, row, "UBIT") = 1
  BY DEF FieldOf, InModrmMemory, Carries, Flag
<1>2. \A name : name # "UBIT" => FieldOf(o, row, name) = o.fields[name]
  BY DEF FieldOf
<1> QED BY <1>1, <1>2 DEF Carries, ReadsAs

\* Rows of APX that the bytes match are decoded by a caller with their bits.
ApxRows(bytes, o, rows, length) ==
  /\ \A row \in rows :
       /\ Ranked(row) /\ row.evapx = TRUE /\ row.bit \in ApxBits
       /\ ~(row.noRsp /\ NamesRsp(o))
       /\ Finish(bytes, o, row) = "OK" /\ LengthOf(o, row) = length
  /\ \E row \in rows : Matches(o, row)

Gives(answered, length) == answered.status = "OK" /\ answered.length = length

LEMMA NativeSelected ==
  ASSUME NEW bytes, NEW o, o.operand.status = "OK", NEW rows, NEW bits, NEW length,
         ApxBits \subseteq bits, ApxRows(bytes, o, rows, length)
  PROVE  Gives(Selection(bytes, o, rows, bits, bits), length)
<1>0. /\ {"APX", "APX_F_N3"} \subseteq bits
      /\ \A row \in rows :
           /\ Ranked(row) /\ row.evapx = TRUE /\ row.bit \in {"APX", "APX_F_N3"}
           /\ ~(row.noRsp /\ NamesRsp(o))
           /\ Finish(bytes, o, row) = "OK" /\ LengthOf(o, row) = length
      /\ \E row \in rows : Matches(o, row)
  BY DEF ApxRows, ApxBits
<1> DEFINE readable == {row \in rows : ~row.modrm \/ o.operand.status = "OK"}
           matching == {row \in readable : Matches(o, row)}
           whole == {row \in matching : Finish(bytes, o, row) = "OK"}
           usable == {row \in whole : BorrowsApx(o, row) => o.mode = 64}
           admitted == {row \in usable : RequiredBits(o, row) \subseteq (bits \cap bits)}
           over == \E row \in matching : Finish(bytes, o, row) = "INVALID"
           lacking == rows # readable \/ matching # whole
           lacks == \E row \in usable : CallerLacks(o, row, bits, bits)
           s == Selection(bytes, o, rows, bits, bits)
<1>1. s = IF rows # readable /\ o.operand.status = "INVALID" THEN Undecoded("INVALID")
          ELSE Whole(bytes, o, matching, rows # readable, bits, bits)
  BY Zenon DEF Selection
<1>2. Whole(bytes, o, matching, rows # readable, bits, bits) =
        IF over THEN Undecoded("INVALID")
        ELSE Admission(o, usable, lacking, bits, bits)
  BY Zenon DEF Whole
<1>3. Admission(o, usable, lacking, bits, bits) =
        IF admitted # {} THEN Chosen(o, BestRow(admitted))
        ELSE IF lacking THEN Undecoded("TRUNCATED")
        ELSE IF lacks THEN Undecoded("UNSUPPORTED") ELSE Undecoded("INVALID")
  BY Zenon DEF Admission
<1>4. readable = rows
  BY <1>0
<1>5. ~over
  BY <1>0
<1>6. \A row \in rows : ~BorrowsApx(o, row) /\ RequiredBits(o, row) \subseteq bits
  BY <1>0 DEF BorrowsApx, RequiredBits
<1>7. \A row \in rows : Matches(o, row) => row \in admitted
  BY <1>0, <1>6
<1>8. admitted \subseteq rows
  OBVIOUS
<1> HIDE DEF readable, matching, whole, usable, admitted, over, lacking, lacks
<1>9. s = Chosen(o, BestRow(admitted))
  BY <1>0, <1>1, <1>2, <1>3, <1>4, <1>5, <1>7
<1>10. BestRow(admitted) \in admitted
  BY <1>0, <1>7, <1>8, BestRowFound
<1>11. PICK row \in rows : row = BestRow(admitted)
  BY <1>8, <1>10
<1>12. Chosen(o, row) = Decoded(o, row)
  BY <1>0 DEF Chosen
<1>13. Decoded(o, row).status = "OK" /\ Decoded(o, row).length = LengthOf(o, row)
  BY <1>0 DEF Decoded
<1> HIDE DEF s
<1>14. s.status = "OK" /\ s.length = length
  <2>1. s = Decoded(o, row)
    BY <1>9, <1>11, <1>12
  <2> QED BY <1>0, <1>13, <2>1
<1> QED BY <1>14 DEF s, Gives

Shared == {\h8F, \h69, \h44}

\* The buckets of map 4.
LEMMA SharedBuckets ==
  ASSUME NEW map, NEW opcode, map = 4, Bucket("EVEX", map, opcode) # {}
  PROVE  /\ opcode \in Shared
         /\ opcode = \h8F => Bucket("EVEX", map, opcode) = Pop2Rows
         /\ opcode = \h69 => Bucket("EVEX", map, opcode) = ImulRows
         /\ opcode = \h44 => Bucket("EVEX", map, opcode) = ZeroRows
<1> DEFINE key == <<"EVEX", map, opcode>>
           a == key = <<"LEGACY", 0, \hA1>>
           b == key = <<"LEGACY", 1, \hFF>>
           c == key = <<"LEGACY", 1, \hB9>>
           d == key = <<"VEX", 2, \h92>>
           e == key = <<"EVEX", 4, \h8F>>
           f == key = <<"EVEX", 4, \h69>>
           g == key = <<"EVEX", 4, \h44>>
           h == key = <<"EVEX", 6, \h56>>
<1>1. Bucket("EVEX", map, opcode) =
        CASE a -> A1Rows [] b -> FFRows [] c -> B9Rows [] d -> GatherRows
          [] e -> Pop2Rows [] f -> ImulRows [] g -> ZeroRows [] h -> Fp16Rows
          [] OTHER -> {}
  BY Zenon DEF Bucket
<1>2. ~a /\ ~b /\ ~c /\ ~d /\ ~h
  OBVIOUS
<1>3. (e <=> opcode = \h8F) /\ (f <=> opcode = \h69) /\ (g <=> opcode = \h44)
  OBVIOUS
<1>4. ~(e /\ f) /\ ~(e /\ g) /\ ~(f /\ g)
  OBVIOUS
<1> HIDE DEF a, b, c, d, e, f, g, h
<1>5. e => Bucket("EVEX", map, opcode) = Pop2Rows
  BY <1>1, <1>2, <1>4
<1>6. f => Bucket("EVEX", map, opcode) = ImulRows
  BY <1>1, <1>2, <1>4
<1>7. g => Bucket("EVEX", map, opcode) = ZeroRows
  BY <1>1, <1>2, <1>4
<1>8. e \/ f \/ g
  BY <1>1, <1>2
<1> QED BY <1>3, <1>5, <1>6, <1>7, <1>8 DEF Shared

\* What the hand-written decoder has tested of an instruction of such a bucket.
PassedByHand(bytes, n, e, operand) ==
  /\ ~HandedOver(e, TRUE) /\ ~Illegal(e)
  /\ Rowless(e) \/ ~IllegalRow(e)
  /\ operand.status = "OK" /\ ~IllegalOperand(e, operand.modrm)
  /\ RequireAt(bytes, operand.end, ImmediateBytes(e)) = "OK"

AcceptsNative(bytes, n, e) ==
  /\ RequireAt(bytes, n, 1) = "OK" /\ bytes[n + 1] = \h62 /\ ~Barred(bytes, n)
  /\ RequireAt(bytes, n, 5) = "OK" /\ n + 5 <= Len(bytes)
  /\ e.map = 4 /\ e.opcode \in Shared
  /\ PassedByHand(bytes, n, e, EvexOperand(bytes, n))
  /\ Hand(bytes, TRUE).length = EvexOperand(bytes, n).end + ImmediateBytes(e)

LEMMA HandAccepts ==
  ASSUME NEW bytes \in Seq(Byte), NEW n \in Nat, n = PrefixBytes(bytes, 64),
         Hand(bytes, TRUE).status = "OK",
         NEW e, e = EvexOf(bytes, n + 1), Bucket("EVEX", e.map, e.opcode) # {}
  PROVE  AcceptsNative(bytes, n, e)
<1> DEFINE one == RequireAt(bytes, n, 1)
           bits == EvexAddress(bytes, n)
           hand == Hand(bytes, TRUE)
           read == OneByOne(bytes, n + 1, 4)
           operand == EvexOperand(bytes, n)
           barred == Barred(bytes, n)
           msr == IsUserMsr(e)
<1>0. hand.status = "OK"
  OBVIOUS
<1>1. hand =
        IF one # "OK" THEN Refuse(one)
        ELSE IF bytes[n + 1] = \h62 THEN Evex(bytes, n, bits, TRUE)
        ELSE IF bytes[n + 1] = \hC4 THEN Gather(bytes, n) ELSE Rex2Ud0(bytes, n)
  BY DEF Hand, HandAt, EvexAddress
<1>2. /\ \A status : Refuse(status).status = status
      /\ Refuse("INVALID").status # "OK" /\ Refuse("UNSUPPORTED").status # "OK"
  BY DEF Refuse
<1>3. Gather(bytes, n).status # "OK" /\ Rex2Ud0(bytes, n).status # "OK"
  BY <1>2 DEF Gather, Rex2Ud0
<1>4. \/ read # "OK" /\ Evex(bytes, n, bits, TRUE) = Refuse(read)
      \/ Evex(bytes, n, bits, TRUE) = Refuse("INVALID")
      \/ read = "OK" /\ ~barred /\ Evex(bytes, n, bits, TRUE) = EvexMap(bytes, e, operand, TRUE)
  BY Zenon DEF Evex, EvexOperand
<1>5. \/ EvexMap(bytes, e, operand, TRUE) \in {Refuse("UNSUPPORTED"), Refuse("INVALID")}
      \/ e.map = 4 /\ msr
      \/ e.map = 4 /\ ~msr /\ EvexMap(bytes, e, operand, TRUE) = ApxEvex(bytes, e, operand, TRUE)
  BY Zenon DEF EvexMap
<1> HIDE DEF one, bits, hand, read, operand, barred, msr
<1>6. one = "OK" /\ bytes[n + 1] = \h62 /\ hand = Evex(bytes, n, bits, TRUE)
  BY <1>0, <1>1, <1>2, <1>3
<1>7. read = "OK" /\ ~barred /\ hand = EvexMap(bytes, e, operand, TRUE)
  <2>1. read # "OK" => Refuse(read).status # "OK"
    BY <1>2
  <2> QED BY <1>0, <1>2, <1>4, <1>6, <2>1
<1>8. e.map = 4 /\ (~msr => hand = ApxEvex(bytes, e, operand, TRUE))
  BY <1>0, <1>2, <1>5, <1>7
<1>9. n + 5 <= Len(bytes) /\ n + 5 <= MaxInstructionSize
  BY <1>7, OneByOneTests DEF read
<1>10. RequireAt(bytes, n, 5) = "OK"
  BY <1>9, SizeAssumption DEF RequireAt
<1>11. e.opcode \in Shared
  BY <1>8, SharedBuckets
<1>12. ~msr
  BY <1>11 DEF IsUserMsr, Shared, msr
<1>13. hand = ApxEvex(bytes, e, operand, TRUE)
  BY <1>8, <1>12
<1> DEFINE count == ImmediateBytes(e)
           illegal == IllegalOperand(e, operand.modrm)
           last == RequireAt(bytes, operand.end, count)
           over == HandedOver(e, TRUE)
           bad == Illegal(e)
           row == Rowless(e)
           badrow == IllegalRow(e)
<1>14. \/ ApxEvex(bytes, e, operand, TRUE) \in {Refuse("UNSUPPORTED"), Refuse("INVALID")}
       \/ /\ ~over /\ ~bad /\ (row \/ ~badrow)
          /\ ApxEvex(bytes, e, operand, TRUE) = Complete(bytes, e, operand, count, TRUE)
  BY Zenon DEF ApxEvex
<1>15. \/ operand.status # "OK" /\ Complete(bytes, e, operand, count, TRUE) = Refuse(operand.status)
       \/ Complete(bytes, e, operand, count, TRUE) = Refuse("INVALID")
       \/ last # "OK" /\ Complete(bytes, e, operand, count, TRUE) = Refuse(last)
       \/ /\ operand.status = "OK" /\ ~illegal /\ last = "OK"
          /\ Complete(bytes, e, operand, count, TRUE) = Optional(operand.end + count, TRUE)
  BY Zenon DEF Complete
<1> HIDE DEF count, illegal, last, over, bad, row, badrow
<1>16. ~over /\ ~bad /\ (row \/ ~badrow) /\ hand = Complete(bytes, e, operand, count, TRUE)
  BY <1>0, <1>2, <1>13, <1>14
<1>17. operand.status = "OK" /\ ~illegal /\ last = "OK"
       /\ hand = Optional(operand.end + count, TRUE)
  BY <1>0, <1>2, <1>15, <1>16
<1>18. hand.length = operand.end + count
  BY <1>17 DEF Optional, Accept
<1>19. PassedByHand(bytes, n, e, operand)
  BY <1>16, <1>17, Zenon DEF PassedByHand, count, illegal, last, over, bad, row, badrow
<1> QED BY <1>6, <1>7, <1>8, <1>9, <1>10, <1>11, <1>18, <1>19, Zenon
        DEF one, hand, operand, barred, count, AcceptsNative

\* decode_apx_evex on the opcodes of the shared buckets, arm by arm.
LegalFields(e) ==
  (e.u = 1 \/ ~PeeksRegister(e)) /\ e.pp <= 1 /\ e.p2 \div 32 = 0 /\ e.p2 % 4 = 0

LEMMA IllegalSettled ==
  ASSUME NEW e, e.opcode \in Shared, e.u \in Flag, e.pp \in 0..3, ~Illegal(e)
  PROVE  /\ ~IsCmov(e) /\ ~IsSet(e) => LegalFields(e)
         /\ IsCmov(e) => e.p2 \in {\h10, \h18}
         /\ IsSet(e) => e.low = 0 /\ e.p2 \in {\h08, \h18}
<1> DEFINE fc == e.opcode = \hFC
           b66 == e.opcode = \h66
           cmov == IsCmov(e)
           set == IsSet(e)
           c1 == e.p2 \notin {\h10, \h18}
           s1 == e.low # 0 \/ e.p2 \notin {\h08, \h18}
           other == (e.u = 0 /\ PeeksRegister(e)) \/ e.pp > 1 \/ (e.p2 \div 32) # 0 \/ e.p2 % 4 # 0
<1>1. ~fc /\ ~b66
  BY DEF Shared
<1>2. ~(cmov /\ set)
  BY DEF IsCmov, IsSet
<1>3. Illegal(e) =
        CASE fc -> e.low # 0 \/ e.p2 # \h08
          [] b66 -> e.u = 0 \/ e.p2 \notin {\h08, \h10} \/ (e.nd = 0 /\ e.low # 0)
          [] cmov -> c1
          [] set -> s1
          [] OTHER -> other
  BY Zenon DEF Illegal
<1>4. ~other => LegalFields(e)
  BY DEF LegalFields, Flag
<1> HIDE DEF fc, b66, cmov, set, other, c1, s1
<1>5. /\ ~cmov /\ ~set => Illegal(e) = other
      /\ cmov => Illegal(e) = c1
      /\ set => Illegal(e) = s1
  BY <1>1, <1>2, <1>3, Zenon
<1>6. /\ ~cmov /\ ~set => ~other
      /\ cmov => ~c1
      /\ set => ~s1
  BY <1>5, Zenon
<1>7. ~c1 => e.p2 \in {\h10, \h18}
  BY DEF c1
<1>8. ~s1 => e.low = 0 /\ e.p2 \in {\h08, \h18}
  BY DEF s1
<1> QED BY <1>4, <1>6, <1>7, <1>8, Zenon DEF cmov, set

LEMMA IllegalRowSettled ==
  ASSUME NEW e, ~IllegalRow(e)
  PROVE  /\ e.opcode = \h8F => e.nd # 0 /\ e.w = 0 /\ e.nf = 0 /\ e.pp = 0
         /\ e.opcode = \h69 => e.destination = 0
<1> DEFINE alu == e.opcode \in AluNf \cup AluCarry
           pop == e.opcode = \h8F
           unary == e.opcode \in {\hF6, \hF7}
           af == e.opcode = \hAF
           imul == e.opcode \in {\h69, \h6B}
           f89 == e.opcode \in {\hF8, \hF9}
           a1 == \/ e.nf = 1 /\ e.opcode \in AluCarry
                 \/ StrayDestination(e) \/ (e.opcode % 2 = 0 /\ FixedByte(e))
           p1 == e.nd = 0 \/ e.w # 0 \/ e.nf # 0 \/ e.pp # 0
           u1 == StrayDestination(e) \/ (e.opcode = \hF6 /\ FixedByte(e))
           i1 == e.destination # 0
           f1 == e.nd = 1 \/ e.nf = 1 \/ e.destination # 0
                 \/ e.pp # (IF e.opcode = \hF8 THEN 1 ELSE 0)
<1>1. IllegalRow(e) = CASE alu -> a1 [] pop -> p1 [] unary -> u1
                        [] af -> StrayDestination(e) [] imul -> i1 [] f89 -> f1
                        [] OTHER -> FALSE
  BY Zenon DEF IllegalRow
<1>2. ~(alu /\ e.opcode = \h8F) /\ ~(alu /\ e.opcode = \h69)
  BY DEF AluNf, AluCarry
<1>3. e.opcode = \h8F => pop /\ ~unary /\ ~af /\ ~imul /\ ~f89
  OBVIOUS
<1>4. e.opcode = \h69 => imul /\ ~pop /\ ~unary /\ ~af /\ ~f89
  OBVIOUS
<1> DEFINE is8F == e.opcode = \h8F
           is69 == e.opcode = \h69
<1> HIDE DEF alu, pop, unary, af, imul, f89, a1, p1, u1, i1, f1, is8F, is69
<1>5. is8F => IllegalRow(e) = p1
  BY <1>1, <1>2, <1>3, Zenon DEF is8F
<1>6. is69 => IllegalRow(e) = i1
  BY <1>1, <1>2, <1>4, Zenon DEF is69
<1>7. (is8F => ~p1) /\ (is69 => ~i1)
  BY <1>5, <1>6, Zenon
<1>8. (~p1 => e.nd # 0 /\ e.w = 0 /\ e.nf = 0 /\ e.pp = 0) /\ (~i1 => e.destination = 0)
  BY DEF p1, i1
<1> QED BY <1>7, <1>8, Zenon DEF is8F, is69

LEMMA ImmediateSettled ==
  ASSUME NEW e
  PROVE  /\ e.opcode \in {\h8F, \h44} => ImmediateBytes(e) = 0
         /\ e.opcode = \h69 => ImmediateBytes(e) = IF e.w = 0 /\ e.pp = 1 THEN 2 ELSE 4
<1> DEFINE one == e.opcode \in {\h6B, \h80, \h83, \hC0, \hC1, \h24, \h2C}
           sized == e.opcode \in {\h69, \h81}
           size == IF e.w = 0 /\ e.pp = 1 THEN 2 ELSE 4
           is69 == e.opcode = \h69
           none == e.opcode \in {\h8F, \h44}
<1>1. ImmediateBytes(e) = CASE one -> 1 [] sized -> size [] OTHER -> 0
  BY Zenon DEF ImmediateBytes
<1>2. (is69 => sized /\ ~one) /\ (none => ~sized /\ ~one)
  OBVIOUS
<1> HIDE DEF one, sized, size, is69, none
<1>3. (is69 => ImmediateBytes(e) = size) /\ (none => ImmediateBytes(e) = 0)
  BY <1>1, <1>2, Zenon
<1> QED BY <1>3, Zenon DEF is69, none, size

LEMMA IllegalOperandSettled ==
  ASSUME NEW e, NEW modrm, e.opcode \in Shared, ~IllegalOperand(e, modrm)
  PROVE  /\ IsCmov(e) \/ IsSet(e) => e.u # 0 \/ InMemory(modrm)
         /\ e.opcode = \h8F => ~InMemory(modrm) /\ Reg(modrm) = 0
<1> DEFINE reg == Reg(modrm)
           fc == e.opcode = \hFC
           cond == IsCmov(e) \/ IsSet(e)
           pop == e.opcode = \h8F
           f89 == e.opcode \in {\hF8, \hF9}
           fef == e.opcode \in {\hFE, \hFF}
           group1 == e.opcode \in {\h80, \h81, \h83}
           shift == e.opcode \in Shift
           double == e.opcode \in DoubleShift
           unary == e.opcode \in {\hF6, \hF7}
           c1 == e.u = 0 /\ ~InMemory(modrm)
           p1 == InMemory(modrm) \/ reg # 0
           fe1 == IF e.opcode = \hFF /\ reg = 6
                  THEN e.nd = 0 \/ e.w # 0 \/ e.nf # 0 \/ e.pp # 0 \/ InMemory(modrm)
                  ELSE reg > 1 \/ StrayDestination(e) \/ (e.opcode = \hFE /\ FixedByte(e))
           g1 == \/ reg = 7 \/ (e.nf = 1 /\ reg \in {2, 3})
                 \/ StrayDestination(e) \/ (e.opcode = \h80 /\ FixedByte(e))
           sh1 == \/ e.nf = 1 /\ reg \in {2, 3}
                  \/ StrayDestination(e) \/ (e.opcode \in ByteShift /\ FixedByte(e))
           un1 == reg < 2 \/ (reg = 2 /\ e.nf = 1) \/ (reg > 3 /\ e.nd = 1)
           other == ~InMemory(modrm)
<1>1. IllegalOperand(e, modrm) =
        CASE fc -> other [] cond -> c1 [] pop -> p1 [] f89 -> other [] fef -> fe1
          [] group1 -> g1 [] shift -> sh1 [] double -> StrayDestination(e)
          [] unary -> un1 [] OTHER -> FALSE
  BY Zenon DEF IllegalOperand
<1>2. cond => e.opcode \in Condition
  BY DEF IsCmov, IsSet
<1>3. ~fc /\ ~f89 /\ ~fef /\ ~group1 /\ ~shift /\ ~double /\ ~unary /\ ~(pop /\ cond)
  BY <1>2 DEF Shared, Shift, ByteShift, DoubleShift, Condition
<1> HIDE DEF fc, cond, pop, f89, fef, group1, shift, double, unary, c1, p1, fe1, g1, sh1, un1, other
<1>4. (cond => IllegalOperand(e, modrm) = c1) /\ (pop => IllegalOperand(e, modrm) = p1)
  BY <1>1, <1>3, Zenon
<1>5. (cond => ~c1) /\ (pop => ~p1)
  BY <1>4, Zenon
<1>6. (~c1 => e.u # 0 \/ InMemory(modrm)) /\ (~p1 => ~InMemory(modrm) /\ Reg(modrm) = 0)
  BY DEF c1, p1
<1> QED BY <1>5, <1>6, Zenon DEF cond, pop

LEMMA OperandRead ==
  ASSUME NEW bytes \in Seq(Byte), NEW n \in Nat, n + 5 <= Len(bytes),
         EvexOperand(bytes, n).status = "OK"
  PROVE  /\ EvexOperand(bytes, n).modrm \in Byte
         /\ EvexOf(bytes, n + 1).next = EvexOperand(bytes, n).modrm
<1> DEFINE bits == EvexAddress(bytes, n)
           o == EvexOperand(bytes, n)
           need == RequireAt(bytes, n + 5, 1)
           sibs == IF TakesSib(bytes[n + 5 + 1], bits) THEN 1 ELSE 0
           rest == AfterModrm(bytes, n + 5, sibs, bits)
           more == RequireAt(bytes, n + 5 + 1, sibs)
<1>1. o = Needing(need, rest)
  BY DEF EvexOperand, ModrmAt
<1>2. rest = Needing(more, Addressed(bytes, n + 5, sibs, bits))
  BY Zenon DEF AfterModrm
<1>3. Addressed(bytes, n + 5, sibs, bits).modrm = bytes[n + 5 + 1]
  BY DEF Addressed
<1> HIDE DEF o, need, rest, more, sibs, bits
<1>4. \A status : Refusal(status).status = status
  BY DEF Refusal
<1>5. o.status = "OK"
  BY DEF o
<1>6. need = "OK" /\ o = rest
  BY <1>1, <1>4, <1>5 DEF Needing
<1>7. o = Addressed(bytes, n + 5, sibs, bits)
  BY <1>2, <1>4, <1>5, <1>6 DEF Needing
<1>8. n + 6 <= Len(bytes)
  BY <1>6 DEF RequireAt, need
<1>9. EvexOf(bytes, n + 1).next = bytes[n + 6]
  <2>1. EvexOf(bytes, n + 1).next = IF n + 1 + 4 < Len(bytes) THEN bytes[n + 1 + 5] ELSE None
    BY DEF EvexOf
  <2> QED BY <1>8, <2>1
<1>10. bytes[n + 6] \in Byte
  BY <1>8
<1> QED BY <1>3, <1>7, <1>9, <1>10 DEF o

\* A row whose instruction is as long as the hand-written decoder makes it.
Fits(o, e, row) ==
  /\ row.modrm = TRUE /\ row.evapx = TRUE /\ row.modes = {64}
  /\ row.bit \in ApxBits /\ ~(row.noRsp /\ NamesRsp(o))
  /\ ImmediateSize(o, row) = ImmediateBytes(e)

\* An EVEX opcode that the hand-written decoder has accepted.
Native(o, e) ==
  /\ o.space = "EVEX" /\ o.mode = 64 /\ o.operand.modrm \in Byte
  /\ e.next = o.operand.modrm /\ Carries(o.fields, e) /\ e.opcode \in Shared
  /\ ~HandedOver(e, TRUE) /\ ~Illegal(e) /\ (Rowless(e) \/ ~IllegalRow(e))
  /\ ~IllegalOperand(e, o.operand.modrm)

LEMMA NoImmediate ==
  ASSUME NEW o, NEW row, row.immediate = "NONE" PROVE ImmediateSize(o, row) = 0
<1> DEFINE rel == row.immediate = "REL_64"
           z == row.immediate = "IMM_Z"
           disp == row.immediate = "MEMDISP_V"
<1>1. ImmediateSize(o, row) =
        CASE rel -> 8 [] z -> IF WideBits(o) = 16 THEN 2 ELSE 4
          [] disp -> o.addressBits \div 8 [] OTHER -> 0
  BY Zenon DEF ImmediateSize
<1>2. ~rel /\ ~z /\ ~disp
  OBVIOUS
<1> HIDE DEF rel, z, disp
<1> QED BY <1>1, <1>2, Zenon

LEMMA SizedImmediateOf ==
  ASSUME NEW o, NEW row, row.immediate = "IMM_Z"
  PROVE  ImmediateSize(o, row) = IF WideBits(o) = 16 THEN 2 ELSE 4
<1> DEFINE rel == row.immediate = "REL_64"
           z == row.immediate = "IMM_Z"
           disp == row.immediate = "MEMDISP_V"
<1>1. ImmediateSize(o, row) =
        CASE rel -> 8 [] z -> IF WideBits(o) = 16 THEN 2 ELSE 4
          [] disp -> o.addressBits \div 8 [] OTHER -> 0
  BY Zenon DEF ImmediateSize
<1>2. ~rel /\ z /\ ~disp
  OBVIOUS
<1> HIDE DEF rel, z, disp
<1> QED BY <1>1, <1>2, Zenon

\* The ModRM byte is of one kind or of the other.
LEMMA ModOf ==
  ASSUME NEW modrm \in Byte
  PROVE  \E mods \in {Registers, Memory} :
           Mod(modrm) \in mods /\ Reg(modrm) \in Any8 /\ (~InMemory(modrm) => mods = Registers)
<1>1. Mod(modrm) \in 0..3 /\ Reg(modrm) \in 0..7
  BY DEF Mod, Reg, Byte
<1>2. CASE Mod(modrm) = 3
  BY <1>1, <1>2 DEF Registers, Any8
<1>3. CASE Mod(modrm) # 3
  BY <1>1, <1>3 DEF Memory, Any8, InMemory
<1> QED BY <1>2, <1>3

LEMMA ReservedVvvv ==
  ASSUME NEW f, NEW e, Carries(f, e)
  PROVE  /\ e.low = 0 => f.VEXDEST210 = 7 /\ f.VEXDEST3 = 1
         /\ e.destination = 0 => f.VEXDEST210 = 7 /\ f.VEXDEST3 = 1 /\ f.VEXDEST4 = 0
<1> DEFINE a == f.VEXDEST210
           b == f.VEXDEST3
           c == f.VEXDEST4
<1>1. /\ a \in 0..7 /\ b \in Flag /\ c \in Flag
      /\ e.low = (7 - a) + 8 * (1 - b) /\ e.destination = (7 - a) + 8 * (1 - b) + 16 * c
  BY DEF Carries
<1> HIDE DEF a, b, c
<1>2. /\ e.low = 0 => a = 7 /\ b = 1
      /\ e.destination = 0 => a = 7 /\ b = 1 /\ c = 0
  BY <1>1 DEF Flag
<1> QED BY <1>2 DEF a, b, c

\* A register is not named as RSP without the number of RSP in either place.
LEMMA NamesRspSeen ==
  ASSUME NEW o, NEW e, Carries(o.fields, e), o.operand.modrm \in Byte, NamesRsp(o)
  PROVE  e.destination = 4 \/ Rm(o.operand.modrm) = 4
<1> DEFINE f == o.fields
           rm == Rm(o.operand.modrm)
<1>1. \/ rm + 8 * f.REXB + 16 * f.REXB4 = 4
      \/ 7 - f.VEXDEST210 + 8 * (1 - f.VEXDEST3) + 16 * f.VEXDEST4 = 4
  BY DEF NamesRsp
<1>2. rm \in 0..7
  BY DEF Rm, Byte
<1>3. /\ f.REXB \in Flag /\ f.REXB4 \in Flag
      /\ e.destination = (7 - f.VEXDEST210) + 8 * (1 - f.VEXDEST3) + 16 * f.VEXDEST4
  BY DEF Carries
<1> DEFINE b == f.REXB
           b4 == f.REXB4
           v == (7 - f.VEXDEST210) + 8 * (1 - f.VEXDEST3) + 16 * f.VEXDEST4
<1>4. rm + 8 * b + 16 * b4 = 4 \/ v = 4
  BY <1>1
<1>5. b \in Flag /\ b4 \in Flag /\ e.destination = v
  BY <1>3
<1> HIDE DEF b, b4, v, rm
<1>6. rm + 8 * b + 16 * b4 = 4 => rm = 4
  BY <1>2, <1>5 DEF Flag
<1> QED BY <1>4, <1>5, <1>6 DEF rm

\* The rows of POP2.
LEMMA Pop2Native ==
  ASSUME NEW o, NEW e, Native(o, e), e.opcode = \h8F,
         ~(e.destination = 4 \/ Rm(e.next) = 4)
  PROVE  /\ \A row \in Pop2Rows : Fits(o, e, row)
         /\ \E row \in Pop2Rows : Matches(o, row)
<1> DEFINE modrm == o.operand.modrm
<1>0. /\ o.space = "EVEX" /\ o.mode = 64 /\ modrm \in Byte /\ e.next = modrm
      /\ Carries(o.fields, e) /\ e.opcode \in Shared /\ ~Illegal(e)
      /\ (Rowless(e) \/ ~IllegalRow(e)) /\ ~IllegalOperand(e, modrm)
  BY DEF Native
<1>1. ~IsCmov(e) /\ ~IsSet(e) /\ ~Rowless(e)
  BY DEF IsCmov, IsSet, Rowless, Condition
<1>2. e.u \in Flag /\ e.pp \in 0..3 /\ e.nd \in Flag /\ e.p2 \in Byte
  BY <1>0 DEF Carries
<1>3. LegalFields(e)
  BY <1>0, <1>1, <1>2, IllegalSettled
<1>4. e.nd = 1 /\ e.w = 0 /\ e.nf = 0 /\ e.pp = 0
  BY <1>0, <1>1, <1>2, IllegalRowSettled DEF Flag
<1>5. ~InMemory(modrm) /\ Reg(modrm) = 0
  BY <1>0, IllegalOperandSettled
<1>6. e.u = 1 \/ InMemory(modrm)
  <2>1. modrm # None
    BY <1>0 DEF None, Byte
  <2> QED BY <1>0, <1>3, <1>5, <2>1 DEF LegalFields, PeeksRegister
<1>7. ImmediateBytes(e) = 0
  BY ImmediateSettled
<1>8. ~NamesRsp(o)
  BY <1>0, NamesRspSeen
<1>9. ASSUME NEW row \in Pop2Rows PROVE Fits(o, e, row)
  <2>1. PICK w \in {0, 1} : ApxForm(row, Registers, {0}, Pop2Fields(w), "NONE")
    BY Pop2Formed
  <2>2. ImmediateSize(o, row) = 0
    BY <2>1, NoImmediate DEF ApxForm
  <2> QED BY <1>7, <1>8, <2>1, <2>2 DEF ApxForm, Fits
<1>10. PICK row \in Pop2Rows : ApxForm(row, Registers, {0}, Pop2Fields(0), "NONE")
  BY Pop2Formed
<1>11. VexPrefix(e.pp) = 0
  BY <1>4 DEF VexPrefix
<1>12. (e.p2 \div 32) % 4 = 0 /\ Bit(e.p2, 7) = 0
  <2>1. e.p2 \div 32 = 0
    BY <1>3 DEF LegalFields
  <2>2. Bit(e.p2, 7) = (e.p2 \div 128) % 2
    BY DEF Bit
  <2> QED BY <1>2, <2>1, <2>2 DEF Byte
<1>13. row.modrm = TRUE
  BY <1>10 DEF ApxForm
<1>14. /\ FieldOf(o, row, "UBIT") = 1
       /\ FieldOf(o, row, "REXW") = 0 /\ FieldOf(o, row, "REX2") = 0
       /\ FieldOf(o, row, "VEX_PREFIX") = 0 /\ FieldOf(o, row, "VL") = 0
       /\ FieldOf(o, row, "ZEROING") = 0
       /\ FieldOf(o, row, "ND") = 1 /\ FieldOf(o, row, "NF") = 0
  <2>1. ReadsAs(o, row, e)
    BY <1>0, <1>6, <1>13, FieldsRead
  <2> QED BY <1>4, <1>11, <1>12, <2>1 DEF ReadsAs
<1>15. \A name \in DOMAIN Pop2Fields(0) : FieldOf(o, row, name) \in Pop2Fields(0)[name]
  BY <1>14 DEF Pop2Fields
<1>16. Mod(modrm) \in Registers /\ Reg(modrm) \in {0}
  BY <1>5 DEF InMemory, Registers
<1>17. Matches(o, row)
  BY <1>0, <1>10, <1>15, <1>16, ApxMatches
<1> QED BY <1>9, <1>17

LEMMA ImulNative ==
  ASSUME NEW o, NEW e, Native(o, e), e.opcode = \h69, ~(e.w = 1 /\ e.pp = 1)
  PROVE  /\ \A row \in ImulRows : Fits(o, e, row)
         /\ \E row \in ImulRows : Matches(o, row)
<1> DEFINE modrm == o.operand.modrm
<1>0. /\ o.space = "EVEX" /\ o.mode = 64 /\ modrm \in Byte /\ e.next = modrm
      /\ Carries(o.fields, e) /\ e.opcode \in Shared /\ ~Illegal(e)
      /\ (Rowless(e) \/ ~IllegalRow(e))
  BY DEF Native
<1>1. ~IsCmov(e) /\ ~IsSet(e) /\ ~Rowless(e)
  BY DEF IsCmov, IsSet, Rowless, Condition
<1>2. /\ e.u \in Flag /\ e.pp \in 0..3 /\ e.nd \in Flag /\ e.nf \in Flag /\ e.w \in Flag
      /\ e.p2 \in Byte /\ o.fields.VEX_PREFIX = VexPrefix(e.pp)
  BY <1>0 DEF Carries
<1>3. LegalFields(e)
  BY <1>0, <1>1, <1>2, IllegalSettled
<1>4. o.fields.VEXDEST210 = 7 /\ o.fields.VEXDEST3 = 1 /\ o.fields.VEXDEST4 = 0
  <2>1. e.destination = 0
    BY <1>0, <1>1, IllegalRowSettled
  <2> QED BY <1>0, <2>1, ReservedVvvv
<1>5. e.u = 1 \/ InMemory(modrm)
  <2>1. modrm # None
    BY <1>0 DEF None, Byte
  <2> QED BY <1>0, <1>3, <2>1 DEF LegalFields, PeeksRegister
<1>6. e.pp \in {0, 1} /\ VexPrefix(e.pp) = e.pp
  <2>1. e.pp \in {0, 1}
    BY <1>2, <1>3 DEF LegalFields
  <2>2. CASE e.pp = 0
    BY <2>2 DEF VexPrefix
  <2>3. CASE e.pp = 1
    BY <2>3 DEF VexPrefix
  <2> QED BY <2>1, <2>2, <2>3
<1>7. ImmediateBytes(e) = IF e.pp = 1 THEN 2 ELSE 4
  <2>1. ImmediateBytes(e) = IF e.w = 0 /\ e.pp = 1 THEN 2 ELSE 4
    BY ImmediateSettled
  <2> QED BY <1>2, <2>1 DEF Flag
<1>8. WideBits(o) = 16 <=> e.pp = 1
  BY <1>0, <1>2, <1>6 DEF WideBits
<1>9. ASSUME NEW row \in ImulRows PROVE Fits(o, e, row)
  <2>1. PICK pp \in {0, 1}, nd \in {0, 1}, nf \in {0, 1}, mods \in {Registers, Memory} :
          ImulForm(row, pp, nd, nf, mods)
    BY ImulFormed
  <2>2. row.immediate = "IMM_Z" /\ row.modrm = TRUE /\ row.evapx = TRUE
        /\ row.modes = {64} /\ row.bit \in ApxBits /\ row.noRsp = FALSE
    BY <2>1 DEF ImulForm, ApxForm
  <2>3. ImmediateSize(o, row) = IF WideBits(o) = 16 THEN 2 ELSE 4
    BY <2>2, SizedImmediateOf
  <2> QED BY <1>7, <1>8, <2>2, <2>3 DEF Fits
<1>10. PICK mods \in {Registers, Memory} : Mod(modrm) \in mods /\ Reg(modrm) \in Any8
  BY <1>0, ModOf
<1>11. PICK row \in ImulRows : ImulForm(row, e.pp, e.nd, e.nf, mods)
  BY <1>2, <1>6, ImulFormed DEF Flag
<1>12. ApxForm(row, mods, Any8, ImulFields(e.pp, e.nd, e.nf), "IMM_Z") /\ row.modrm = TRUE
  BY <1>11 DEF ImulForm, ApxForm
<1>13. (e.p2 \div 32) % 4 = 0 /\ Bit(e.p2, 7) = 0
  <2>1. e.p2 \div 32 = 0
    BY <1>3 DEF LegalFields
  <2>2. Bit(e.p2, 7) = (e.p2 \div 128) % 2
    BY DEF Bit
  <2> QED BY <1>2, <2>1, <2>2 DEF Byte
<1>14. /\ FieldOf(o, row, "UBIT") = 1 /\ FieldOf(o, row, "REX2") = 0
       /\ FieldOf(o, row, "VEX_PREFIX") = e.pp /\ FieldOf(o, row, "VL") = 0
       /\ FieldOf(o, row, "ZEROING") = 0
       /\ FieldOf(o, row, "ND") = e.nd /\ FieldOf(o, row, "NF") = e.nf
       /\ FieldOf(o, row, "VEXDEST3") = 1 /\ FieldOf(o, row, "VEXDEST210") = 7
       /\ FieldOf(o, row, "VEXDEST4") = 0
  <2>1. ReadsAs(o, row, e)
    BY <1>0, <1>5, <1>12, FieldsRead
  <2> QED BY <1>4, <1>6, <1>13, <2>1 DEF ReadsAs
<1>15. \A name \in DOMAIN ImulFields(e.pp, e.nd, e.nf) :
         FieldOf(o, row, name) \in ImulFields(e.pp, e.nd, e.nf)[name]
  BY <1>14 DEF ImulFields
<1>16. Matches(o, row)
  BY <1>0, <1>10, <1>12, <1>15, ApxMatches
<1> QED BY <1>9, <1>16

\* CMOV and SETcc.
LEMMA ConditionTested ==
  ASSUME NEW o, NEW e, Native(o, e), e.opcode = \h44
  PROVE  /\ e.u = 1 \/ InMemory(o.operand.modrm)
         /\ (e.p2 \div 32) % 4 = 0 /\ Bit(e.p2, 7) = 0
         /\ \/ e.pp \in {0, 1} /\ e.nd = 1 /\ e.nf = 0
            \/ /\ e.pp = 3 /\ e.nf = 0
               /\ o.fields.VEXDEST210 = 7 /\ o.fields.VEXDEST3 = 1 /\ o.fields.VEXDEST4 = 0
<1> DEFINE modrm == o.operand.modrm
<1>0. /\ Carries(o.fields, e) /\ e.opcode \in Shared /\ ~Illegal(e)
      /\ ~HandedOver(e, TRUE) /\ ~IllegalOperand(e, modrm)
  BY DEF Native
<1>1. /\ e.u \in Flag /\ e.pp \in 0..3 /\ e.nd \in Flag /\ e.nf \in Flag
      /\ e.p2 \in Byte /\ o.fields.VEXDEST4 = Inverted(e.p2, 3) /\ e.nf = Bit(e.p2, 2)
  BY <1>0 DEF Carries
<1>2. IsCmov(e) \/ IsSet(e)
  <2> SUFFICES ASSUME ~IsCmov(e), ~IsSet(e) PROVE FALSE
    OBVIOUS
  <2>1. e.pp <= 1
    BY <1>0, <1>1, IllegalSettled DEF LegalFields
  <2> QED BY <1>1, <2>1 DEF IsCmov, Condition
<1>3. /\ IsCmov(e) => e.p2 \in {\h10, \h18}
      /\ IsSet(e) => e.low = 0 /\ e.p2 \in {\h08, \h18}
  BY <1>0, <1>1, IllegalSettled
<1>4. e.u = 1 \/ InMemory(modrm)
  BY <1>0, <1>1, <1>2, IllegalOperandSettled DEF Flag
<1>5. e.p2 \in {\h08, \h10, \h18}
  BY <1>2, <1>3
<1>6. (e.p2 \div 32) % 4 = 0 /\ Bit(e.p2, 7) = 0 /\ Bit(e.p2, 2) = 0
  BY <1>5 DEF Bit
<1>7. IsCmov(e) => e.pp \in {0, 1} /\ e.nd = 1 /\ e.nf = 0
  <2>1. IsCmov(e) => e.nd # 0 /\ e.nf # 1
    BY <1>0 DEF HandedOver, IsCfcmov
  <2>2. IsCmov(e) => e.pp < 2
    BY DEF IsCmov
  <2> QED BY <1>1, <2>1, <2>2 DEF Flag
<1>8. IsSet(e) => /\ e.pp = 3 /\ e.nf = 0
                  /\ o.fields.VEXDEST210 = 7 /\ o.fields.VEXDEST3 = 1 /\ o.fields.VEXDEST4 = 0
  <2> SUFFICES ASSUME IsSet(e)
               PROVE  /\ e.pp = 3 /\ e.nf = 0
                      /\ o.fields.VEXDEST210 = 7 /\ o.fields.VEXDEST3 = 1 /\ o.fields.VEXDEST4 = 0
    OBVIOUS
  <2>1. e.pp = 3 /\ e.nf = 0
    BY <1>1, <1>6 DEF IsSet
  <2>2. e.p2 \in {\h08, \h18} /\ e.low = 0
    BY <1>3
  <2>3. Inverted(e.p2, 3) = 0
    BY <2>2 DEF Inverted, Bit
  <2> QED BY <1>0, <1>1, <2>1, <2>2, <2>3, ReservedVvvv
<1> QED BY <1>2, <1>4, <1>6, <1>7, <1>8

LEMMA ZeroNative ==
  ASSUME NEW o, NEW e, Native(o, e), e.opcode = \h44
  PROVE  /\ \A row \in ZeroRows : Fits(o, e, row)
         /\ \E row \in ZeroRows : Matches(o, row)
<1> DEFINE modrm == o.operand.modrm
<1>0. /\ o.space = "EVEX" /\ o.mode = 64 /\ modrm \in Byte /\ Carries(o.fields, e)
      /\ e.nd \in Flag /\ e.nf \in Flag
  BY DEF Native, Carries
<1>1. e.u = 1 \/ InMemory(modrm)
  BY ConditionTested
<1>2. (e.p2 \div 32) % 4 = 0 /\ Bit(e.p2, 7) = 0
  BY ConditionTested
<1>3. \/ e.pp \in {0, 1} /\ e.nd = 1 /\ e.nf = 0
      \/ /\ e.pp = 3 /\ e.nf = 0
         /\ o.fields.VEXDEST210 = 7 /\ o.fields.VEXDEST3 = 1 /\ o.fields.VEXDEST4 = 0
  BY ConditionTested
<1>4. ImmediateBytes(e) = 0
  BY ImmediateSettled
<1>5. ASSUME NEW row \in ZeroRows PROVE Fits(o, e, row)
  <2>1. PICK fields, mods : ZeroForm(row, fields, mods)
    BY ZeroFormed
  <2>2. row.immediate = "NONE" /\ row.modrm = TRUE /\ row.evapx = TRUE
        /\ row.modes = {64} /\ row.bit \in ApxBits /\ row.noRsp = FALSE
    BY <2>1 DEF ZeroForm, ApxForm
  <2>3. ImmediateSize(o, row) = 0
    BY <2>2, NoImmediate
  <2> QED BY <1>4, <2>2, <2>3 DEF Fits
<1>6. PICK mods \in {Registers, Memory} : Mod(modrm) \in mods /\ Reg(modrm) \in Any8
  BY <1>0, ModOf
<1>7. CASE e.pp \in {0, 1} /\ e.nd = 1 /\ e.nf = 0
  <2>1. PICK row \in ZeroRows : ZeroForm(row, ZeroFields(e.pp, 1, 0), mods)
    BY <1>6, <1>7, ZeroFormed
  <2>2. ApxForm(row, mods, Any8, ZeroFields(e.pp, 1, 0), "NONE") /\ row.modrm = TRUE
    BY <2>1 DEF ZeroForm, ApxForm
  <2>3. ReadsAs(o, row, e)
    BY <1>0, <1>1, <2>2, FieldsRead
  <2>4. VexPrefix(e.pp) = e.pp
    <3>1. CASE e.pp = 0
      BY <3>1 DEF VexPrefix
    <3>2. CASE e.pp = 1
      BY <3>2 DEF VexPrefix
    <3> QED BY <1>7, <3>1, <3>2
  <2>5. \A name \in DOMAIN ZeroFields(e.pp, 1, 0) :
          FieldOf(o, row, name) \in ZeroFields(e.pp, 1, 0)[name]
    BY <1>2, <1>7, <2>3, <2>4 DEF ReadsAs, ZeroFields
  <2>6. Matches(o, row)
    BY <1>0, <1>6, <2>2, <2>5, ApxMatches
  <2> QED BY <1>5, <2>6
<1>8. CASE /\ e.pp = 3 /\ e.nf = 0
           /\ o.fields.VEXDEST210 = 7 /\ o.fields.VEXDEST3 = 1 /\ o.fields.VEXDEST4 = 0
  <2>1. PICK row \in ZeroRows : ZeroForm(row, FixedFields(2, e.nd, 0), mods)
    BY <1>0, <1>6, ZeroFormed DEF Flag
  <2>2. ApxForm(row, mods, Any8, FixedFields(2, e.nd, 0), "NONE") /\ row.modrm = TRUE
    BY <2>1 DEF ZeroForm, ApxForm
  <2>3. ReadsAs(o, row, e)
    BY <1>0, <1>1, <2>2, FieldsRead
  <2>4. VexPrefix(e.pp) = 2
    BY <1>8 DEF VexPrefix
  <2>5. FixedFields(2, e.nd, 0) =
          [REX2 |-> {0}, VEX_PREFIX |-> {2}, VL |-> {0}, UBIT |-> {1}, ZEROING |-> {0},
           ND |-> {e.nd}, NF |-> {0}, VEXDEST3 |-> {1}, VEXDEST210 |-> {7}, VEXDEST4 |-> {0}]
    <3> DEFINE z == ZeroFields(2, e.nd, 0)
    <3>1. z = [REX2 |-> {0}, VEX_PREFIX |-> {2}, VL |-> {0}, UBIT |-> {1}, ZEROING |-> {0},
               ND |-> {e.nd}, NF |-> {0}]
      BY DEF ZeroFields
    <3>2. FixedFields(2, e.nd, 0) = [f \in DOMAIN z \cup DOMAIN Unused |->
                                       IF f \in DOMAIN Unused THEN Unused[f] ELSE z[f]]
      BY DEF FixedFields
    <3> HIDE DEF z
    <3> QED BY <3>1, <3>2 DEF Unused
  <2>6. \A name \in DOMAIN FixedFields(2, e.nd, 0) :
          FieldOf(o, row, name) \in FixedFields(2, e.nd, 0)[name]
    BY <1>2, <1>8, <2>3, <2>4, <2>5 DEF ReadsAs
  <2>7. Matches(o, row)
    BY <1>0, <1>6, <2>2, <2>6, ApxMatches
  <2> QED BY <1>5, <2>7
<1> QED BY <1>3, <1>7, <1>8

\* What both decoders make of an EVEX opcode.
LEMMA NativeAgrees ==
  ASSUME NEW bytes \in Seq(Byte), NEW bits, ApxBits \subseteq bits,
         NEW n \in Nat, n = PrefixBytes(bytes, 64), NEW e, e = EvexOf(bytes, n + 1)
  PROVE  Agree(Hand(bytes, TRUE), Generated(bytes, 64, bits, bits), e)
<1> DEFINE hand == Hand(bytes, TRUE)
           generated == Generated(bytes, 64, bits, bits)
           popsRsp == e.opcode = \h8F /\ (e.destination = 4 \/ Rm(e.next) = 4)
           wide66 == e.w = 1 /\ e.pp = 1 /\ e.opcode = \h69
           bucket == Bucket("EVEX", e.map, e.opcode)
<1> SUFFICES ASSUME hand.status = "OK", bucket # {}, ~popsRsp, ~wide66
             PROVE  generated.status = "OK" /\ generated.length = hand.length
  BY DEF Agree
<1> DEFINE o == EvexOpcode(bytes, n)
           operand == EvexOperand(bytes, n)
           rows == EvexRows(bytes, n)
           length == operand.end + ImmediateBytes(e)
<1>0. AcceptsNative(bytes, n, e)
  BY HandAccepts
<1>1. /\ RequireAt(bytes, n, 1) = "OK" /\ bytes[n + 1] = \h62 /\ ~Barred(bytes, n)
      /\ RequireAt(bytes, n, 5) = "OK" /\ n + 5 <= Len(bytes)
      /\ e.map = 4 /\ e.opcode \in Shared
      /\ PassedByHand(bytes, n, e, operand) /\ hand.length = length
  BY <1>0, Zenon DEF AcceptsNative
<1>2. generated = Selection(bytes, o, rows, bits, bits)
  BY <1>1, EvexGenerated
<1>3. /\ o.space = "EVEX" /\ o.mode = 64 /\ o.operand = operand /\ o.end = n + 5
  BY DEF EvexOpcode
<1>4. /\ operand.status = "OK" /\ ~HandedOver(e, TRUE) /\ ~Illegal(e)
      /\ (Rowless(e) \/ ~IllegalRow(e)) /\ ~IllegalOperand(e, operand.modrm)
      /\ RequireAt(bytes, operand.end, ImmediateBytes(e)) = "OK"
  BY <1>1, Zenon DEF PassedByHand
<1>5. operand.modrm \in Byte /\ e.next = operand.modrm
  BY <1>1, <1>4, OperandRead
<1>6. Carries(o.fields, e)
  <2>1. LegacyOpening(bytes, n, 64).rex2 = FALSE
    BY DEF LegacyOpening
  <2> QED BY <1>1, <2>1, EvexCarried
<1>7. e.map = bytes[n + 2] % 8 /\ e.opcode = bytes[n + 5]
  <2>1. n + 1 + 1 = n + 2 /\ n + 1 + 4 = n + 5
    OBVIOUS
  <2> QED BY <2>1 DEF EvexOf
<1>8. rows = {row \in bucket : 64 \in row.modes}
  BY <1>7 DEF EvexRows
<1> HIDE DEF hand, generated, o, operand, rows, bucket
<1>9. Native(o, e)
  BY <1>1, <1>3, <1>4, <1>5, <1>6, Zenon DEF Native
<1>10. (\A row \in bucket : Fits(o, e, row)) /\ (\E row \in bucket : Matches(o, row))
  <2>1. CASE e.opcode = \h8F
    <3>1. bucket = Pop2Rows
      BY <1>1, <2>1, SharedBuckets DEF bucket
    <3>2. ~(e.destination = 4 \/ Rm(e.next) = 4)
      BY <2>1
    <3> QED BY <1>9, <2>1, <3>1, <3>2, Pop2Native
  <2>2. CASE e.opcode = \h69
    <3>1. bucket = ImulRows
      BY <1>1, <2>2, SharedBuckets DEF bucket
    <3>2. ~(e.w = 1 /\ e.pp = 1)
      BY <2>2
    <3> QED BY <1>9, <2>2, <3>1, <3>2, ImulNative
  <2>3. CASE e.opcode = \h44
    <3>1. bucket = ZeroRows
      BY <1>1, <2>3, SharedBuckets DEF bucket
    <3> QED BY <1>9, <2>3, <3>1, ZeroNative
  <2> QED BY <1>1, <2>1, <2>2, <2>3 DEF Shared
<1>11. \A row \in bucket : 64 \in row.modes /\ Ranked(row)
  BY <1>10, BucketRanked DEF Fits, bucket
<1>12. rows = bucket
  BY <1>8, <1>11
<1>13. ApxRows(bytes, o, rows, length)
  <2>1. ASSUME NEW row \in rows
        PROVE  /\ Ranked(row) /\ row.evapx = TRUE /\ row.bit \in ApxBits
               /\ ~(row.noRsp /\ NamesRsp(o))
               /\ Finish(bytes, o, row) = "OK" /\ LengthOf(o, row) = length
    <3>1. Fits(o, e, row) /\ Ranked(row)
      BY <1>10, <1>11, <1>12
    <3>2. row.modrm = TRUE /\ ImmediateSize(o, row) = ImmediateBytes(e)
      BY <3>1 DEF Fits
    <3>3. Finish(bytes, o, row) = RequireAt(bytes, operand.end, ImmediateBytes(e))
      BY <1>3, <3>2 DEF Finish
    <3>4. LengthOf(o, row) = length
      BY <1>3, <3>2 DEF LengthOf
    <3> HIDE DEF length
    <3> QED BY <1>4, <3>1, <3>3, <3>4, Zenon DEF Fits
  <2> QED BY <1>10, <1>12, <2>1, Zenon DEF ApxRows
<1>15. o.operand.status = "OK"
  BY <1>3, <1>4
<1> HIDE DEF length
<1>16. Gives(Selection(bytes, o, rows, bits, bits), length)
  BY <1>13, <1>15, NativeSelected
<1> QED BY <1>1, <1>2, <1>16 DEF Gives

-----------------------------------------------------------------------------
(* The contexts.                                                           *)

Contexts ==
  [cpu : Processors \cup {"NONE"}, mode : CpuModes \cup {0},
   flags : SUBSET Flags, mask : SUBSET Families, value : SUBSET Families]

\* A context exists only after the call that creates it, and names a processor
\* unless that call failed; what is selected is available.
Owned ==
  /\ context \in Contexts
  /\ returned = "none" => context = Cleared
  /\ context # Cleared => context.cpu \in Processors /\ context.mode \in CpuModes
  /\ context.value \subseteq context.mask

\* An umbrella is its own umbrella.
LEMMA UmbrellaOfUmbrella ==
  ASSUME NEW flag PROVE Umbrella(Umbrella(flag)) = Umbrella(flag)
BY DEF Umbrella, Avx512Slices, Avx10Slices, AmxFlags

\* No processor is called NONE.
LEMMA ProcessorsNamed == "NONE" \notin Processors
BY DEF Processors, Only16, Upto32, Upto64

\* Clearing a flag whose umbrella stays loses no admission.
LEMMA AdmittedUnderUmbrella ==
  ASSUME NEW flags, NEW flag, NEW cpu, NEW form,
         Umbrella(flag) \in flags \ {flag},
         Admits(flags, cpu, form)
  PROVE  Admits(flags \ {flag}, cpu, form)
<1> SUFFICES ASSUME NEW g \in Needed[cpu][form],
                    ~(form = "XSTORE" /\ g = "SYSTEM")
             PROVE  {g, Umbrella(g)} \cap (flags \ {flag}) # {}
  BY DEF Admits
<1>1. {g, Umbrella(g)} \cap flags # {}
  BY DEF Admits
<1>2. CASE g = flag
  BY <1>2
<1>3. CASE g # flag /\ Umbrella(g) = flag
  <2>1. Umbrella(flag) = flag
    BY <1>3, UmbrellaOfUmbrella
  <2> QED BY <2>1
<1>4. CASE g # flag /\ Umbrella(g) # flag
  BY <1>1, <1>4
<1> QED BY <1>2, <1>3, <1>4

\* What the creating call leaves is a context or the cleared one.
LEMMA NewContextsOwned ==
  ASSUME NEW cpu \in Processors, NEW mode
  PROVE  /\ NewContext(cpu, mode) \in Contexts
         /\ NewContext(cpu, mode).value \subseteq NewContext(cpu, mode).mask
         /\ NewContext(cpu, mode) # Cleared =>
              /\ NewContext(cpu, mode).cpu \in Processors
              /\ NewContext(cpu, mode).mode \in CpuModes
<1>1. CASE mode \in CpuModes /\ Runs(cpu, mode)
  <2>1. Flagged[cpu][mode] \subseteq Flags
    BY <1>1 DEF Flagged, FlagMask
  <2>2. Available[cpu][mode] \subseteq Families
    <3>1. FamiliesFromFlags(cpu, mode) \subseteq Families
      BY DEF FamiliesFromFlags, FlagFamilies, ExactFamilies
    <3> QED BY <1>1, <3>1 DEF Available, FamilyMask
  <2> QED BY <1>1, <2>1, <2>2 DEF NewContext, Contexts
<1>2. CASE ~(mode \in CpuModes /\ Runs(cpu, mode))
  BY <1>2 DEF NewContext, Contexts, Cleared
<1> QED BY <1>1, <1>2

\* Before the first call.
LEMMA OwnedInit == ContextInit => Owned
BY DEF ContextInit, Owned, Contexts, Cleared

\* Every call and every edit keeps it.
LEMMA OwnedNext == Owned /\ [ContextNext]_contextVars => Owned'
<1> SUFFICES ASSUME Owned, [ContextNext]_contextVars PROVE Owned'
  OBVIOUS
<1> USE DEF Owned
<1>1. ASSUME NEW r \in Requests, Create(r) PROVE Owned'
  <2>1. r.cpu \in Processors
    BY RequestsAssumption
  <2> QED BY <1>1, <2>1, NewContextsOwned DEF Create
<1>2. ASSUME NEW flag \in EditedFlags, SetFlag(flag) PROVE Owned'
  BY <1>2, RequestsAssumption, ProcessorsNamed DEF SetFlag, Edit, Contexts, Cleared
<1>3. ASSUME NEW flag \in EditedFlags, ClearFlag(flag) PROVE Owned'
  BY <1>3, ProcessorsNamed DEF ClearFlag, Edit, Contexts, Cleared
<1>4. ASSUME NEW family \in EditedFamilies, AddFamily(family) PROVE Owned'
  BY <1>4, RequestsAssumption, ProcessorsNamed DEF AddFamily, Edit, Contexts, Cleared
<1>5. ASSUME NEW family \in EditedFamilies, RemoveFamily(family) PROVE Owned'
  BY <1>5, ProcessorsNamed DEF RemoveFamily, Edit, Contexts, Cleared
<1>6. CASE UNCHANGED contextVars
  BY <1>6 DEF contextVars
<1> QED BY <1>1, <1>2, <1>3, <1>4, <1>5, <1>6 DEF ContextNext

\* One step that clears a flag and leaves its umbrella accepts what was accepted.
UmbrellaStep ==
  \A flag \in context.flags \ context'.flags :
    Umbrella(flag) \in context'.flags => Accepted(context) \subseteq Accepted(context')

\* Only ClearFlag takes a flag from a context that exists.
LEMMA UmbrellaNext == Owned /\ ContextNext => UmbrellaStep
<1> SUFFICES ASSUME Owned, ContextNext,
                    NEW flag \in context.flags \ context'.flags,
                    Umbrella(flag) \in context'.flags
             PROVE  Accepted(context) \subseteq Accepted(context')
  BY DEF UmbrellaStep
<1>1. ASSUME NEW r \in Requests, Create(r) PROVE FALSE
  BY <1>1 DEF Create, Owned, Cleared
<1>2. ASSUME NEW g \in EditedFlags, SetFlag(g) PROVE FALSE
  BY <1>2 DEF SetFlag, Edit, Owned, Contexts
<1>3. ASSUME NEW g \in EditedFlags, ClearFlag(g)
      PROVE  Accepted(context) \subseteq Accepted(context')
  <2>1. /\ context'.cpu = context.cpu /\ context'.mode = context.mode
        /\ context'.value = context.value /\ context'.flags = context.flags \ {g}
    BY <1>3 DEF ClearFlag, Edit, Owned, Contexts
  <2>2. context # Cleared /\ context.cpu \in Processors
    BY <1>3 DEF ClearFlag, Edit, Owned
  <2>3. context' # Cleared
    BY <2>1, <2>2, ProcessorsNamed DEF Cleared
  <2>4. flag = g
    BY <2>1
  <2>5. ASSUME NEW form, Admits(context.flags, context.cpu, form)
        PROVE  Admits(context'.flags, context.cpu, form)
    BY <2>1, <2>4, <2>5, AdmittedUnderUmbrella
  <2> QED BY <2>1, <2>2, <2>3, <2>5 DEF Accepted, Admitted
<1>4. ASSUME NEW family \in EditedFamilies, AddFamily(family) \/ RemoveFamily(family)
      PROVE  FALSE
  BY <1>4 DEF AddFamily, RemoveFamily, Edit, Owned, Contexts
<1> QED BY <1>1, <1>2, <1>3, <1>4 DEF ContextNext

\* A context names a processor, or none after a failed call, and selects only
\* available families, whatever its owner edits.
THEOREM ContextsOwned == ContextSpec => []Owned
<1>1. ContextInit => Owned
  BY OwnedInit
<1>2. Owned /\ [ContextNext]_contextVars => Owned'
  BY OwnedNext
<1> QED BY <1>1, <1>2, PTL DEF ContextSpec

\* While an umbrella flag is set, clearing a flag it covers refuses nothing,
\* for every instruction, processor, mode and selection.
THEOREM UmbrellasCover == ContextSpec => UmbrellasKeep
<1>1. Owned /\ [ContextNext]_contextVars => [UmbrellaStep]_contextVars
  BY UmbrellaNext
<1>2. ContextSpec => []Owned
  BY ContextsOwned
<1>3. ContextSpec => [][UmbrellaStep]_contextVars
  BY <1>1, <1>2, PTL DEF ContextSpec
<1> QED BY <1>3 DEF UmbrellasKeep, UmbrellaStep

-----------------------------------------------------------------------------
(* The callers and the owners of contexts.                                 *)

\* The last answer is what the decoder says of the bytes that are there to a
\* caller of these bits.
Answered ==
  /\ caller \in Callers /\ have \in 0..Len(caller.stream)
  /\ selected \subseteq caller.bits
  /\ answer = Ask(have, selected)

LEMMA FirstBytesTaken ==
  ASSUME NEW s \in Seq(Byte), NEW n \in 0..Len(s)
  PROVE  /\ FirstBytes(s, n) \in Seq(Byte)
         /\ Len(FirstBytes(s, n)) = n
         /\ n = 0 => FirstBytes(s, n) = <<>>
BY DEF FirstBytes

LEMMA AnsweredInit == Init => Answered
<1> SUFFICES ASSUME Init PROVE Answered
  OBVIOUS
<1>1. caller \in Callers /\ caller.stream \in Seq(Byte)
  BY CallersAssumption DEF Init
<1>2. FirstBytes(caller.stream, 0) = <<>> /\ Len(caller.stream) \in Nat
  BY <1>1, FirstBytesTaken
<1>3. Ask(0, {}) = Reply("END_OF_INPUT", 0, "")
  BY <1>2, Zenon DEF Ask, Decode
<1>4. answer = Ask(have, selected)
  BY <1>3, Zenon DEF Init
<1>5. have = 0
  BY DEF Init
<1>7. have \in 0..Len(caller.stream)
  BY <1>2, <1>5
<1>6. selected \subseteq caller.bits
  BY DEF Init
<1> QED BY <1>1, <1>4, <1>6, <1>7, Zenon DEF Answered

LEMMA AnsweredNext == Answered /\ [Next]_vars => Answered'
<1> SUFFICES ASSUME Answered, [Next]_vars PROVE Answered'
  OBVIOUS
<1>1. CASE Receive
  <2>1. caller.stream \in Seq(Byte)
    BY CallersAssumption DEF Answered
  <2> QED BY <1>1, <2>1 DEF Receive, Answered, Ask
<1>2. ASSUME NEW bit \in AllBits, Select(bit) PROVE Answered'
  BY <1>2 DEF Select, Answered, Ask
<1>3. CASE UNCHANGED vars
  BY <1>3 DEF vars, Answered, Ask
<1> QED BY <1>1, <1>2, <1>3 DEF Next

\* What holds of the answer to any bytes holds of the last answer.
LEMMA AnsweredTold ==
  ASSUME Answered
  PROVE  Bytes \in Seq(Byte) /\ Len(Bytes) = have /\ Told(Bytes, answer)
<1>1. caller.stream \in Seq(Byte) /\ have \in 0..Len(caller.stream)
  BY CallersAssumption DEF Answered
<1>2. Bytes \in Seq(Byte) /\ Len(Bytes) = have
  BY <1>1, FirstBytesTaken DEF Bytes
<1>3. answer = Decode(Bytes, selected, AllBits, Extra)
  BY DEF Answered, Ask, Bytes
<1> QED BY <1>2, <1>3, DecodeTold

LEMMA AnsweredTyped == Answered => TypeOK
<1> SUFFICES ASSUME Answered PROVE TypeOK
  OBVIOUS
<1>1. Len(Bytes) = have /\ Told(Bytes, answer)
  BY AnsweredTold
<1>2. MaxInstructionSize \in Nat /\ have \in Nat
  BY SizeAssumption, CallersAssumption DEF Answered
<1>3. /\ answer.length \in 0..MaxInstructionSize
      /\ answer.status = "OK" <=> answer.length # 0
      /\ answer.length <= have
  BY <1>1, <1>2 DEF Told, Within
<1> QED BY <1>1, <1>3 DEF Answered, TypeOK, Told, Answers

LEMMA AnsweredPrompt == Answered => Prompt
<1> SUFFICES ASSUME Answered, have >= MaxInstructionSize, answer.status = "TRUNCATED"
             PROVE  HasEvex /\ IsUserMsr(EvexHere) /\ EvexHere.end = have
  BY DEF Prompt
<1> DEFINE n == PrefixBytes(Bytes, 64)
<1>1. Bytes \in Seq(Byte) /\ Len(Bytes) = have /\ Told(Bytes, answer)
  BY AnsweredTold
<1>2. Unsettled(Bytes)
  BY <1>1 DEF Told, Full
<1>3. n \in Nat
  BY <1>1, PrefixesCounted
<1>4. EvexHere = EvexOf(Bytes, n + 1)
  BY Zenon DEF EvexHere
<1>5. EvexOf(Bytes, n + 1).end = n + 1 + 4
  BY DEF EvexOf
<1>6. n + 5 = have /\ Bytes[n + 1] = \h62 /\ IsUserMsr(EvexHere)
  BY <1>1, <1>2, <1>4 DEF Unsettled
<1>7. HasEvex
  BY <1>3, <1>6 DEF HasEvex
<1> HIDE DEF n
<1> QED BY <1>3, <1>4, <1>5, <1>6, <1>7

LEMMA AnsweredAgree == Answered => BuildsAgree
<1> SUFFICES ASSUME Answered, answer.status = "OK"
             PROVE  Decode(Bytes, {}, AllBits, FALSE).status = "UNSUPPORTED"
  BY DEF BuildsAgree
<1>1. Bytes \in Seq(Byte)
  BY AnsweredTold
<1>2. Decode(Bytes, selected, AllBits, Extra).status = "OK"
  BY DEF Answered, Ask, Bytes
<1>3. CASE Extra = TRUE
  BY <1>1, <1>2, <1>3, DecodeSmaller
<1>4. CASE Extra = FALSE
  BY <1>1, <1>2, <1>4, SmallBuildRefuses
<1> QED BY <1>3, <1>4, ExtraAssumption

\* A context that exists is of a processor that runs in its mode.
Runnable ==
  /\ context # Cleared => Runs(context.cpu, context.mode)
  /\ returned \in {"none", "OK", "INVALID_ARGUMENT", "done", "refused"}

\* The two decoders agree where they overlap, when some caller has the bits of
\* APX to select.
LEMMA AnsweredAgreed ==
  ASSUME ApxBits \subseteq AllBits
  PROVE  Answered => DecodersAgree
<1> SUFFICES ASSUME Answered, have > 0
             PROVE  Agree(Hand(Bytes, TRUE), Generated(Bytes, 64, AllBits, AllBits), EvexHere)
  BY DEF DecodersAgree
<1> DEFINE bytes == Bytes
           n == PrefixBytes(bytes, 64)
<1>1. bytes \in Seq(Byte)
  BY AnsweredTold
<1>2. n \in Nat
  BY <1>1, PrefixesCounted
<1>3. EvexHere = EvexOf(bytes, n + 1)
  BY DEF EvexHere
<1> HIDE DEF bytes, n
<1>4. Agree(Hand(bytes, TRUE), Generated(bytes, 64, AllBits, AllBits), EvexHere)
  BY <1>1, <1>2, <1>3, NativeAgrees DEF n
<1> QED BY <1>4 DEF bytes

LEMMA RunnableInit == ContextInit => Runnable
BY DEF ContextInit, Runnable

LEMMA RunnableNext == Owned /\ Runnable /\ [ContextNext]_contextVars => Runnable'
<1> SUFFICES ASSUME Owned, Runnable, [ContextNext]_contextVars PROVE Runnable'
  OBVIOUS
<1>1. ASSUME NEW r \in Requests, Create(r) PROVE Runnable'
  <2>1. context' = NewContext(r.cpu, r.mode)
    BY <1>1 DEF Create
  <2>2. NewContext(r.cpu, r.mode) # Cleared =>
          /\ Runs(r.cpu, r.mode)
          /\ NewContext(r.cpu, r.mode).cpu = r.cpu /\ NewContext(r.cpu, r.mode).mode = r.mode
    BY DEF NewContext
  <2> QED BY <1>1, <2>1, <2>2 DEF Create, Runnable
<1>2. ASSUME NEW flag \in EditedFlags, SetFlag(flag) \/ ClearFlag(flag) PROVE Runnable'
  <2>1. context # Cleared /\ context'.cpu = context.cpu /\ context'.mode = context.mode
    BY <1>2 DEF SetFlag, ClearFlag, Edit, Owned, Contexts
  <2> QED BY <1>2, <2>1 DEF SetFlag, ClearFlag, Runnable
<1>3. ASSUME NEW family \in EditedFamilies, AddFamily(family) \/ RemoveFamily(family)
      PROVE  Runnable'
  <2>1. \/ context' = context
        \/ context # Cleared /\ context'.cpu = context.cpu /\ context'.mode = context.mode
    BY <1>3 DEF AddFamily, RemoveFamily, Edit, Owned, Contexts
  <2>2. returned' \in {"done", "refused"}
    BY <1>3 DEF AddFamily, RemoveFamily
  <2> QED BY <2>1, <2>2 DEF Runnable
<1>4. CASE UNCHANGED contextVars
  BY <1>4 DEF contextVars, Runnable
<1> QED BY <1>1, <1>2, <1>3, <1>4 DEF ContextNext

\* The families that can be selected are the processor's, whatever is edited.
Masked == context # Cleared => context.mask = Available[context.cpu][context.mode]

LEMMA MaskedInit == ContextInit => Masked
BY DEF ContextInit, Masked

LEMMA MaskedNext == Owned /\ Masked /\ [ContextNext]_contextVars => Masked'
<1> SUFFICES ASSUME Owned, Masked, [ContextNext]_contextVars PROVE Masked'
  OBVIOUS
<1>1. ASSUME NEW r \in Requests, Create(r) PROVE Masked'
  <2>1. context' = NewContext(r.cpu, r.mode)
    BY <1>1 DEF Create
  <2>2. NewContext(r.cpu, r.mode) # Cleared =>
          NewContext(r.cpu, r.mode).mask
            = Available[NewContext(r.cpu, r.mode).cpu][NewContext(r.cpu, r.mode).mode]
    BY DEF NewContext
  <2> QED BY <2>1, <2>2 DEF Masked
<1>2. ASSUME \/ \E flag \in EditedFlags : SetFlag(flag) \/ ClearFlag(flag)
             \/ \E family \in EditedFamilies : AddFamily(family) \/ RemoveFamily(family)
      PROVE  Masked'
  <2>1. \/ context' = context
        \/ /\ context # Cleared /\ context'.mask = context.mask
           /\ context'.cpu = context.cpu /\ context'.mode = context.mode
    BY <1>2 DEF SetFlag, ClearFlag, AddFamily, RemoveFamily, Edit, Owned, Contexts
  <2> QED BY <2>1 DEF Masked
<1>3. CASE UNCHANGED contextVars
  BY <1>3 DEF contextVars, Masked
<1> QED BY <1>1, <1>2, <1>3 DEF ContextNext

\* More flags admit no less.
LEMMA AdmitsMore ==
  ASSUME NEW fewer, NEW flags, fewer \subseteq flags, NEW cpu, NEW form,
         Admits(fewer, cpu, form)
  PROVE  Admits(flags, cpu, form)
BY DEF Admits

\* What is decoded and refused has a family that is available and deselected.
LEMMA RefusedDeselected ==
  ASSUME TablesCover
  PROVE  Owned /\ Runnable /\ Masked => RefusalIsDeselection
<1> SUFFICES ASSUME Owned, Runnable, Masked, context.mode = 64,
                    Flagged[context.cpu][64] \subseteq context.flags,
                    NEW form \in Decodable[context.cpu][64] \ ({"SEAMCALL"} \cup Accepted(context))
             PROVE  \E family \in Family[context.cpu][form] :
                      family \in context.mask \ context.value
  BY DEF RefusalIsDeselection
<1>1. context # Cleared
  BY DEF Cleared
<1>2. context.cpu \in Upto64
  BY <1>1 DEF Runnable, Runs
<1>3. context.cpu \in Processors /\ 64 \in CpuModes
  BY <1>2 DEF Processors, CpuModes
<1>4. form \in Forms \ {"SEAMCALL"}
  BY <1>3 DEF Decodable
<1>5. /\ Admits(Flagged[context.cpu][64], context.cpu, form)
      /\ Family[context.cpu][form] \subseteq Available[context.cpu][64]
  BY <1>2, <1>4 DEF TablesCover
<1>6. form \in Admitted(context.cpu, context.mode, context.flags)
  BY <1>5, AdmitsMore DEF Admitted
<1>7. ~(Family[context.cpu][form] \subseteq context.value)
  BY <1>1, <1>6 DEF Accepted
<1> QED BY <1>1, <1>5, <1>7 DEF Masked

\* What a context without opt-in families accepts the generic processor does.
LEMMA AcceptedGenerically ==
  ASSUME GenericCovers
  PROVE  Owned /\ Masked => GenericKeeps
<1> SUFFICES ASSUME Owned, Masked, context.mode \in {32, 64}, context.value \cap OptIn = {},
                    NEW form \in Accepted(context)
             PROVE  form \in Accepted(NewContext("X86", context.mode))
  BY DEF GenericKeeps
<1>1. context # Cleared
  BY DEF Cleared
<1>2. context.cpu \in Processors /\ context.mode \in CpuModes
  BY <1>1 DEF Owned
<1>3. /\ form \in Decodable[context.cpu][context.mode]
      /\ Family[context.cpu][form] \subseteq context.value
  BY <1>1 DEF Accepted, Admitted
<1>4. form \in Forms
  BY <1>2, <1>3 DEF Decodable
<1>5. Family[context.cpu][form] \subseteq Available[context.cpu][context.mode] \ OptIn
  BY <1>1, <1>3 DEF Owned, Masked
<1> QED BY <1>2, <1>3, <1>4, <1>5 DEF GenericCovers

LEMMA RunnableTyped == Owned /\ Runnable => ContextTypeOK
BY DEF Owned, Runnable, Contexts, ContextTypeOK

Subjects == Answered /\ Owned /\ Runnable /\ Masked

LEMMA SubjectsKept == SubjectSpec => []Subjects
<1>1. SubjectInit => Subjects
  BY AnsweredInit, OwnedInit, RunnableInit, MaskedInit DEF SubjectInit, Subjects
<1>2. Subjects /\ [SubjectNext]_<<vars, contextVars, subject>> => Subjects'
  <2>1. [SubjectNext]_<<vars, contextVars, subject>> => [Next]_vars /\ [ContextNext]_contextVars
    BY Zenon DEF SubjectNext
  <2> QED BY <2>1, AnsweredNext, OwnedNext, RunnableNext, MaskedNext
           DEF Subjects
<1> QED BY <1>1, <1>2, PTL DEF SubjectSpec

\* Whatever a caller receives and selects, and whatever the owner of a context
\* edits: a reply has a length exactly if it accepts, never more than the bytes
\* that are there or an instruction can have, and a context is of a processor
\* that runs in its mode and selects available families.
THEOREM SubjectsTyped == SubjectSpec => []BothTypeOK
<1>1. Subjects => BothTypeOK
  BY AnsweredTyped, RunnableTyped DEF Subjects, BothTypeOK
<1> QED BY <1>1, SubjectsKept, PTL

\* Of any bytes, as many as an instruction can have are enough for an answer,
\* but for the user-MSR opcode in the last of them.
THEOREM AsksInTime == SubjectSpec => []Prompt
<1>1. Subjects => Prompt
  BY AnsweredPrompt DEF Subjects
<1> QED BY <1>1, SubjectsKept, PTL

\* Of any bytes, what the full build accepts the one without the extra opcodes
\* calls unsupported, and never invalid.
THEOREM SmallBuildSaysSo == SubjectSpec => []BuildsAgree
<1>1. Subjects => BuildsAgree
  BY AnsweredAgree DEF Subjects
<1> QED BY <1>1, SubjectsKept, PTL

\* Of any bytes, what both decoders have is as long for the one as for the
\* other, but for the two forms that are known to differ.
THEOREM DecodersMeet ==
  ASSUME ApxBits \subseteq AllBits
  PROVE  SubjectSpec => []DecodersAgree
<1>1. Subjects => DecodersAgree
  BY AnsweredAgreed DEF Subjects
<1> QED BY <1>1, SubjectsKept, PTL

\* Where the tables cover what is decoded, a 64-bit context with its processor's
\* flags refuses only what its owner deselected, whatever else is edited.
THEOREM RefusedIsDeselected ==
  ASSUME TablesCover
  PROVE  SubjectSpec => []RefusalIsDeselection
<1>1. Subjects => RefusalIsDeselection
  BY RefusedDeselected DEF Subjects
<1> QED BY <1>1, SubjectsKept, PTL

\* Where the generic processor's tables cover the others', its context accepts
\* what any other accepts without opt-in families, whatever else is edited.
THEOREM GenericAccepts ==
  ASSUME GenericCovers
  PROVE  SubjectSpec => []GenericKeeps
<1>1. Subjects => GenericKeeps
  BY AcceptedGenerically DEF Subjects
<1> QED BY <1>1, SubjectsKept, PTL


=============================================================================
