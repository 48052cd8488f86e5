-------------------------- MODULE ArmDetectionProofs ------------------------
(***************************************************************************)
(* Proofs about ARM CPU detection.  Of the parser of /proc/cpuinfo: what   *)
(* its operators do to its state; its number parser is exact; and it       *)
(* answers what the file says, for files of any lines and length.          *)
(*                                                                         *)
(* Of the detection: types; that a named answer is shared by every CPU     *)
(* that was online during the whole call; and that a machine at rest that  *)
(* tells its profile is answered with it.  For any number of CPUs of any   *)
(* cores and any form of /proc/cpuinfo that begins a CPU's lines with its  *)
(* processor line.                                                         *)
(***************************************************************************)
EXTENDS ArmDetection, ArmCpuinfoFile, ArmHexNumber, TLAPS

-----------------------------------------------------------------------------
(* The operators of the parser.                                            *)

\* Neither UNKNOWN nor "no answer yet" is a named profile.
LEMMA UnknownUnnamed ==
  /\ Unknown \notin Profiles
  /\ "NONE" \notin Profiles
  /\ Unknown # "NONE"
  BY DEF Unknown, Profiles, CoresOf

\* The profile of a core is one the catalog names, or UNKNOWN.
LEMMA ProfileType == \A k : Profile(k) \in Profiles \cup {Unknown}
<1> TAKE k
<1>1. CASE \E p \in DOMAIN CoresOf : k \in CoresOf[p]
  <2> DEFINE plain == CHOOSE p \in DOMAIN CoresOf : k \in CoresOf[p]
  <2>1. plain \in DOMAIN CoresOf
    BY <1>1
  <2>2. Profile(k) = NeonProfile(plain)
    BY <1>1 DEF Profile
  <2>3. NeonProfile(plain) \in {plain, "CORTEX_A7_NEON", "CORTEX_A9_NEON"}
    BY Zenon DEF NeonProfile
  <2> QED BY <2>1, <2>2, <2>3 DEF Profiles
<1>2. CASE ~\E p \in DOMAIN CoresOf : k \in CoresOf[p]
  BY <1>2 DEF Profile
<1> QED BY <1>1, <1>2

\* What finishing a record gives, and what it is good for.
LEMMA NewParserType == NewParser \in Parsers
  BY DEF NewParser, Parsers

LEMMA FinishRecordType ==
  ASSUME NEW s \in Parsers
  PROVE  FinishRecord(s) \in Parsers
<1> DEFINE candidate == Profile(<<s.implementer, s.part>>)
<1>1. candidate \in Profiles \cup {Unknown}
  BY ProfileType
<1> QED BY <1>1 DEF FinishRecord, Parsers, NewParser, Invalid

\* Feed, kind by kind.
LEMMA FeedCases ==
  ASSUME NEW s, NEW line, ~s.invalid
  PROVE  /\ line.kind = "blank" => Feed(s, line) = FinishRecord(s)
         /\ line.kind = "processor" => Feed(s, line) = FeedProcessor(s, line)
         /\ line.kind = "implementer" =>
              Feed(s, line) = FeedImplementer(s, line)
         /\ line.kind = "part" => Feed(s, line) = FeedPart(s, line)
         /\ line.kind = "other" => Feed(s, line) = s
  BY Zenon DEF Feed

LEMMA InvalidStartType ==
  ASSUME NEW s \in Parsers
  PROVE  Invalid(s) \in Parsers /\ Start(s) \in Parsers
  BY DEF Invalid, Start, Parsers

LEMMA FeedType ==
  ASSUME NEW s \in Parsers, ~s.invalid, NEW line, LineOK(line)
  PROVE  Feed(s, line) \in Parsers
<1>1. CASE line.kind = "blank"
  BY <1>1, FeedCases, FinishRecordType
<1>2. CASE line.kind = "processor"
  <2>1. Feed(s, line) = FeedProcessor(s, line)
    BY <1>2, FeedCases
  <2> QED BY <2>1, FinishRecordType, InvalidStartType DEF FeedProcessor
<1>3. CASE line.kind = "implementer"
  <2> DEFINE t == [s EXCEPT !.implementer = line.value,
                            !.have = @ \cup {"implementer"}]
  <2>1. t \in Parsers
    BY DEF Parsers, LineOK
  <2>2. Feed(s, line) = FeedImplementer(s, line)
    BY <1>3, FeedCases
  <2>3. FeedImplementer(s, line) \in {Invalid(s), Start(t)}
    BY Zenon DEF FeedImplementer
  <2> QED BY <2>1, <2>2, <2>3, InvalidStartType
<1>4. CASE line.kind = "part"
  <2> DEFINE t == [s EXCEPT !.part = line.value, !.have = @ \cup {"part"}]
  <2>1. t \in Parsers
    BY DEF Parsers, LineOK
  <2>2. Feed(s, line) = FeedPart(s, line)
    BY <1>4, FeedCases
  <2>3. FeedPart(s, line) \in {Invalid(s), Start(t)}
    BY Zenon DEF FeedPart
  <2> QED BY <2>1, <2>2, <2>3, InvalidStartType
<1>5. CASE line.kind = "other"
  BY <1>5, FeedCases
<1> QED BY <1>1, <1>2, <1>3, <1>4, <1>5 DEF LineOK, Kinds

\* A record that can be finished is whole, and names what is selected.
LEMMA FinishedRecord ==
  ASSUME NEW s \in Parsers, ~s.invalid, ~FinishRecord(s).invalid
  PROVE  /\ ~s.started => FinishRecord(s) = s
         /\ s.started =>
              /\ s.have = {"implementer", "part"}
              /\ FinishRecord(s).found
              /\ FinishRecord(s).selected = Profile(<<s.implementer, s.part>>)
              /\ s.found => s.selected = FinishRecord(s).selected
              /\ FinishRecord(s).have = {}
              /\ ~FinishRecord(s).started
<1>1. CASE ~s.started
  BY <1>1 DEF FinishRecord
<1>2. CASE s.started
  <2> DEFINE candidate == Profile(<<s.implementer, s.part>>)
  <2>1. /\ s.have = {"implementer", "part"}
        /\ ~(s.found /\ s.selected # candidate)
        /\ FinishRecord(s) =
             [NewParser EXCEPT !.selected = candidate, !.found = TRUE]
    BY <1>2 DEF FinishRecord, Invalid, Parsers
  <2> QED BY <1>2, <2>1 DEF NewParser
<1> QED BY <1>1, <1>2

\* What a line that keeps the parser valid does to it.
LEMMA ValidFeed ==
  ASSUME NEW s \in Parsers, ~s.invalid, NEW line, LineOK(line),
         ~Feed(s, line).invalid
  PROVE  /\ line.kind = "blank" =>
              ~FinishRecord(s).invalid /\ Feed(s, line) = FinishRecord(s)
         /\ line.kind = "processor" =>
              ~FinishRecord(s).invalid /\ Feed(s, line) = Start(FinishRecord(s))
         /\ line.kind = "implementer" =>
              Feed(s, line) =
                Start([s EXCEPT !.implementer = line.value,
                                !.have = @ \cup {"implementer"}])
         /\ line.kind = "part" =>
              Feed(s, line) =
                Start([s EXCEPT !.part = line.value,
                                !.have = @ \cup {"part"}])
         /\ line.kind = "other" => Feed(s, line) = s
<1>1. Invalid(s).invalid
  BY DEF Invalid, Parsers
<1>2. CASE line.kind = "processor"
  <2>1. Feed(s, line) = FeedProcessor(s, line)
    BY <1>2, FeedCases
  <2> QED BY <1>1, <1>2, <2>1 DEF FeedProcessor
<1>3. CASE line.kind = "implementer"
  <2>1. Feed(s, line) = FeedImplementer(s, line)
    BY <1>3, FeedCases
  <2> QED BY Zenon, <1>1, <1>3, <2>1 DEF FeedImplementer
<1>4. CASE line.kind = "part"
  <2>1. Feed(s, line) = FeedPart(s, line)
    BY <1>4, FeedCases
  <2> QED BY Zenon, <1>1, <1>4, <2>1 DEF FeedPart
<1>5. CASE line.kind \in {"blank", "other"}
  BY <1>5, FeedCases
<1> QED BY <1>2, <1>3, <1>4, <1>5 DEF LineOK, Kinds

-----------------------------------------------------------------------------
(* The number parser.                                                      *)

\* The check is the overflow test it stands for.
LEMMA OverflowCheck ==
  ASSUME NEW n \in 0..MaxWord, NEW d \in Digits
  PROVE  n > (MaxWord - d) \div 16 <=> n * 16 + d > MaxWord
<1> DEFINE q == (MaxWord - d) \div 16
<1>1. MaxWord - d \in Nat
  BY WordAssumption DEF Digits
<1>2. q \in Nat /\ 16 * q <= MaxWord - d /\ MaxWord - d < 16 * q + 16
  BY <1>1
<1> HIDE DEF q
<1>3. n \in Nat /\ d \in Nat /\ MaxWord \in Nat
  BY WordAssumption DEF Digits
<1>4. n > q <=> n * 16 + d > MaxWord
  BY <1>2, <1>3
<1> QED BY <1>4 DEF q

THEOREM NumbersAreExact == NumberSpec => [](NumberTypeOK /\ ReadsExactly)
<1> DEFINE Inv == NumberTypeOK /\ ReadsExactly
<1>1. NumberInit => Inv
  <2> SUFFICES ASSUME NumberInit
               PROVE  Inv
    OBVIOUS
  <2>1. NumberTypeOK
    <3>1. number \in 0..MaxWord /\ meant \in Nat
      BY WordAssumption DEF NumberInit
    <3>2. foundDigit \in BOOLEAN /\ refused \in BOOLEAN
      BY DEF NumberInit
    <3> QED BY <3>1, <3>2 DEF NumberTypeOK
  <2>2. ReadsExactly
    BY DEF NumberInit, ReadsExactly
  <2> QED BY <2>1, <2>2
<1>2. Inv /\ [NumberNext]_numberVars => Inv'
  <2> SUFFICES ASSUME Inv, [NumberNext]_numberVars
               PROVE  Inv'
    OBVIOUS
  <2>1. ASSUME NEW d \in Digits, Read(d)
        PROVE  Inv'
    <3>1. /\ ~refused /\ number = meant /\ number \in 0..MaxWord
          /\ meant' = 16 * meant + d
          /\ d \in Nat /\ meant \in Nat
      BY <2>1 DEF Read, NumberTypeOK, ReadsExactly, Digits
    <3>2. CASE Overflows(d)
      <4>1. meant' > MaxWord /\ meant' \in Nat
        BY <3>1, <3>2, OverflowCheck, WordAssumption DEF Overflows
      <4> QED BY <2>1, <3>2, <4>1 DEF Read, NumberTypeOK, ReadsExactly
    <3>3. CASE ~Overflows(d)
      <4>1. number * 16 + d \in 0..MaxWord
        BY <3>1, <3>3, OverflowCheck, WordAssumption DEF Overflows
      <4>2. (number * 16 + d) % (MaxWord + 1) = number * 16 + d
        BY <4>1, WordAssumption
      <4> QED BY <2>1, <3>1, <3>3, <4>1, <4>2 DEF Read, NumberTypeOK, ReadsExactly
    <3> QED BY <3>2, <3>3
  <2>2. CASE UNCHANGED numberVars
    BY <2>2 DEF numberVars, NumberTypeOK, ReadsExactly
  <2> QED BY <2>1, <2>2 DEF NumberNext
<1> QED BY <1>1, <1>2, PTL DEF NumberSpec

-----------------------------------------------------------------------------
(* The file.  A section is spelled out by its first and last line.         *)

Begins(i) ==
  i = 1 \/ fed[i].kind = "processor" \/ fed[i - 1].kind = "blank"

Section(i, j) ==
  /\ i \in 1..Len(fed) /\ j \in 1..Len(fed) /\ i <= j
  /\ Begins(i) /\ fed[i].kind # "blank"
  /\ j = Len(fed) \/ Cut(j + 1)
  /\ \A k \in i + 1..j : ~Cut(k)

Record(i, j) == Section(i, j) /\ \E k \in i..j : Relevant(fed[k])

\* The section that more lines may still join begins at o; there is none if o
\* is behind the last line.
OpenAt(o) ==
  /\ o \in 1..(Len(fed) + 1)
  /\ o = Len(fed) + 1 => Len(fed) = 0 \/ fed[Len(fed)].kind = "blank"
  /\ o <= Len(fed) => Section(o, Len(fed))

\* The kind occurs in the open section.
Seen(o, kind) == \E k \in o..Len(fed) : fed[k].kind = kind

\* What a parser that has refused nothing has kept of the open section.
Fields(o) ==
  /\ fileParser.started <=> \E k \in o..Len(fed) : Relevant(fed[k])
  /\ "implementer" \in fileParser.have <=> Seen(o, "implementer")
  /\ "part" \in fileParser.have <=> Seen(o, "part")
  /\ "implementer" \in fileParser.have =>
       Holds(o..Len(fed), "implementer", MaxImplementer, fileParser.implementer)
  /\ "part" \in fileParser.have =>
       Holds(o..Len(fed), "part", MaxPart, fileParser.part)
  /\ \A k \in o..Len(fed) : fed[k].kind = "processor" => fed[k].ok

\* And of those that begin at other lines than o.
Before(o) ==
  /\ fileParser.found =>
       \E v \in Profiles :
         /\ fileParser.selected = v
         /\ \E i, j \in Nat : i # o /\ Record(i, j)
         /\ \A i, j \in Nat : i # o /\ Record(i, j) => NamedBy(i..j, v)
  /\ ~fileParser.found => \A i, j \in Nat : ~(i # o /\ Record(i, j))

\* Some record does not name what another one names.
Unnamed ==
  \A q \in Profiles : \E i, j \in Nat : Record(i, j) /\ ~NamedBy(i..j, q)

FileInv ==
  /\ fed \in Seq(Text)
  /\ fileParser \in Parsers
  /\ fileParser.invalid => Unnamed
  /\ ~fileParser.invalid => \E o \in Nat : OpenAt(o) /\ Fields(o) /\ Before(o)

-----------------------------------------------------------------------------
(* What the property asks of the lines.                                    *)

LEMMA RecordsAre ==
  ASSUME fed \in Seq(Text), NEW r
  PROVE  r \in Records <=> \E i, j \in Nat : Record(i, j) /\ r = i..j
<1>1. Len(fed) \in Nat
  OBVIOUS
<1>2. ASSUME r \in Records
      PROVE  \E i, j \in Nat : Record(i, j) /\ r = i..j
  <2>1. PICK p \in (1..Len(fed)) \X (1..Len(fed)) :
          /\ r = p[1]..p[2] /\ p[1] <= p[2]
          /\ p[1] = 1 \/ fed[p[1]].kind = "processor" \/ fed[p[1] - 1].kind = "blank"
          /\ fed[p[1]].kind # "blank"
          /\ p[2] = Len(fed) \/ Cut(p[2] + 1)
          /\ \A k \in p[1] + 1..p[2] : ~Cut(k)
    BY <1>2 DEF Records, Sections
  <2>2. \E k \in r : Relevant(fed[k])
    BY <1>2 DEF Records
  <2>3. p[1] \in Nat /\ p[2] \in Nat
    BY <1>1, <2>1
  <2> DEFINE i == p[1]
             j == p[2]
  <2>4. Record(i, j) /\ r = i..j
    BY <1>1, <2>1, <2>2 DEF Record, Section, Begins
  <2> QED
    BY <2>3, <2>4
<1>3. ASSUME NEW i \in Nat, NEW j \in Nat, Record(i, j), r = i..j
      PROVE  r \in Records
  <2>1. <<i, j>> \in (1..Len(fed)) \X (1..Len(fed))
    BY <1>3 DEF Record, Section
  <2>2. r \in Sections
    BY <1>3, <2>1 DEF Record, Section, Begins, Sections
  <2> QED
    BY <1>3, <2>2 DEF Records, Record
<1> QED
  BY <1>2, <1>3

LEMMA HoldsOne ==
  ASSUME NEW r, NEW kind, NEW limit, NEW v, NEW w,
         Holds(r, kind, limit, v), Holds(r, kind, limit, w)
  PROVE  v = w
  BY DEF Holds

\* A record names one profile at most.
LEMMA NamesOne ==
  ASSUME NEW r, NEW p, NEW q, NamedBy(r, p), NamedBy(r, q)
  PROVE  p = q
  BY HoldsOne DEF NamedBy, IsCore

\* What is to be shown, in terms of first and last lines.
LEMMA SaysByLines ==
  ASSUME fed \in Seq(Text), NEW q
  PROVE  (Records # {} /\ \A r \in Records : NamedBy(r, q)) <=>
           /\ \E i, j \in Nat : Record(i, j)
           /\ \A i, j \in Nat : Record(i, j) => NamedBy(i..j, q)
<1>1. \A r : r \in Records <=> \E i, j \in Nat : Record(i, j) /\ r = i..j
  BY RecordsAre
<1>2. \A i, j \in Nat : Record(i, j) => i..j \in Records
  BY <1>1
<1>3. Records # {} <=> \E i, j \in Nat : Record(i, j)
  BY <1>1, <1>2
<1>4. (\A r \in Records : NamedBy(r, q)) <=>
        \A i, j \in Nat : Record(i, j) => NamedBy(i..j, q)
  BY <1>1, <1>2
<1> QED
  BY <1>3, <1>4

LEMMA LinesOK ==
  ASSUME fed \in Seq(Text)
  PROVE  /\ Len(fed) \in Nat
         /\ \A k \in 1..Len(fed) : fed[k] \in Text /\ LineOK(fed[k])
  BY TextAssumption

\* Only the open section reaches the last line.
LEMMA LastIsOpen ==
  ASSUME fed \in Seq(Text), NEW o \in Nat, OpenAt(o),
         NEW i \in Nat, Section(i, Len(fed))
  PROVE  i = o
<1>1. Len(fed) \in Nat /\ o \in 1..(Len(fed) + 1) /\ i \in 1..Len(fed)
  BY DEF OpenAt, Section
<1>2. ASSUME NEW a \in 1..Len(fed), NEW b \in 1..Len(fed), a < b,
             Section(a, Len(fed)), Section(b, Len(fed))
      PROVE  FALSE
  <2>1. b \in a + 1..Len(fed)
    BY <1>1, <1>2
  <2>2. fed[b - 1].kind = "blank"
    BY <1>1, <1>2, <2>1 DEF Section, Begins, Cut
  <2>3. b - 1 = a \/ b - 1 \in a + 1..Len(fed)
    BY <1>1, <1>2
  <2> QED
    BY <1>2, <2>2, <2>3 DEF Section, Cut
<1>3. CASE o = Len(fed) + 1
  <2>1. fed[Len(fed)].kind = "blank"
    BY <1>1, <1>3 DEF OpenAt
  <2>2. i = Len(fed) \/ Len(fed) \in i + 1..Len(fed)
    BY <1>1
  <2> QED
    BY <2>1, <2>2 DEF Section, Cut
<1>4. CASE o <= Len(fed)
  <2>1. Section(o, Len(fed)) /\ o \in 1..Len(fed)
    BY <1>1, <1>4 DEF OpenAt
  <2>2. ~(i < o) /\ ~(o < i)
    BY <1>1, <1>2, <2>1
  <2> QED
    BY <1>1, <2>2
<1> QED
  BY <1>1, <1>3, <1>4

\* The section that begins where the open one does is the open one.
LEMMA OpenReachesEnd ==
  ASSUME fed \in Seq(Text), NEW o \in Nat, OpenAt(o), NEW j \in Nat, Section(o, j)
  PROVE  j = Len(fed) /\ o <= Len(fed)
<1>1. Len(fed) \in Nat /\ o \in 1..Len(fed) /\ j \in 1..Len(fed) /\ o <= j
  BY DEF Section
<1>2. Section(o, Len(fed))
  BY <1>1 DEF OpenAt
<1>3. j # Len(fed) => j + 1 \in o + 1..Len(fed)
  BY <1>1
<1> QED
  BY <1>1, <1>2, <1>3 DEF Section

-----------------------------------------------------------------------------
(* One more line.                                                          *)

Appends(line) == line \in Text /\ fed' = Append(fed, line)

LEMMA Appended ==
  ASSUME fed \in Seq(Text), NEW line, Appends(line)
  PROVE  /\ fed' \in Seq(Text)
         /\ Len(fed) \in Nat /\ Len(fed') = Len(fed) + 1
         /\ \A k \in 1..Len(fed) : fed'[k] = fed[k]
         /\ fed'[Len(fed) + 1] = line
  BY DEF Appends

\* Sections that end before the last line stay as they are.
LEMMA EarlierSections ==
  ASSUME fed \in Seq(Text), NEW line, Appends(line), NEW i \in Nat, NEW j \in Nat,
         j < Len(fed)
  PROVE  Section(i, j)' <=> Section(i, j)
<1>1. /\ Len(fed) \in Nat /\ Len(fed') = Len(fed) + 1
      /\ \A k \in 1..Len(fed) : fed'[k] = fed[k]
  BY Appended
<1>2. CASE i \in 1..j
  <2>1. /\ fed'[i] = fed[i] /\ (i # 1 => fed'[i - 1] = fed[i - 1])
        /\ fed'[j + 1] = fed[j + 1]
    BY <1>1, <1>2
  <2>2. \A k \in i + 1..j : fed'[k] = fed[k]
    BY <1>1, <1>2
  <2>3. /\ Begins(i)' <=> Begins(i)
        /\ Cut(j + 1)' <=> Cut(j + 1)
        /\ \A k \in i + 1..j : Cut(k)' <=> Cut(k)
    BY <2>1, <2>2 DEF Begins, Cut
  <2>4. j # Len(fed) /\ j # Len(fed') /\ (i \in 1..Len(fed) <=> i \in 1..Len(fed'))
        /\ (j \in 1..Len(fed) <=> j \in 1..Len(fed'))
    BY <1>1, <1>2
  <2> QED
    BY <2>1, <2>3, <2>4 DEF Section
<1>3. CASE i \notin 1..j
  BY <1>3 DEF Section
<1> QED
  BY <1>2, <1>3

\* The open section ends where the line cuts, and takes the line in where it
\* does not.
LEMMA OpenSection ==
  ASSUME fed \in Seq(Text), NEW line, Appends(line), NEW n \in Nat, n = Len(fed),
         NEW i \in 1..n
  PROVE  /\ Section(i, n)' <=>
              Section(i, n) /\ line.kind \in {"processor", "blank"}
         /\ Section(i, n + 1)' <=>
              Section(i, n) /\ line.kind \notin {"processor", "blank"}
<1>1. /\ n = Len(fed) /\ Len(fed') = n + 1
      /\ \A k \in 1..n : fed'[k] = fed[k]
      /\ fed'[n + 1] = line
  BY Appended
<1>2. i \in 1..n
  OBVIOUS
<1>3. /\ fed'[i] = fed[i] /\ (i # 1 => fed'[i - 1] = fed[i - 1])
  BY <1>1, <1>2
<1>4. \A k \in i + 1..n : fed'[k] = fed[k]
  BY <1>1, <1>2
<1>5. /\ Begins(i)' <=> Begins(i)
      /\ Cut(n + 1)' <=> line.kind \in {"processor", "blank"}
      /\ \A k \in i + 1..n : Cut(k)' <=> Cut(k)
  BY <1>1, <1>3, <1>4 DEF Begins, Cut
<1>6. Section(i, n) <=>
        Begins(i) /\ fed[i].kind # "blank" /\ \A k \in i + 1..n : ~Cut(k)
  BY <1>1, <1>2 DEF Section
<1>7. /\ i \in 1..(n + 1) /\ n \in 1..(n + 1) /\ i <= n /\ n # n + 1
      /\ n + 1 \in 1..(n + 1) /\ i <= n + 1
      /\ \A k : k \in i + 1..(n + 1) <=> k \in i + 1..n \/ k = n + 1
  BY <1>1, <1>2
<1>8. Section(i, n)' <=>
        /\ Begins(i)' /\ fed'[i].kind # "blank" /\ Cut(n + 1)'
        /\ \A k \in i + 1..n : ~Cut(k)'
  BY <1>1, <1>7 DEF Section
<1>9. Section(i, n + 1)' <=>
        /\ Begins(i)' /\ fed'[i].kind # "blank"
        /\ \A k \in i + 1..n : ~Cut(k)'
        /\ ~Cut(n + 1)'
  BY <1>1, <1>7 DEF Section
<1>10. Section(i, n)' <=> Section(i, n) /\ line.kind \in {"processor", "blank"}
  BY <1>3, <1>5, <1>6, <1>8
<1>11. Section(i, n + 1)' <=>
         Section(i, n) /\ line.kind \notin {"processor", "blank"}
  BY <1>3, <1>5, <1>6, <1>9
<1> QED
  BY <1>10, <1>11

\* A section that has only the new line.
LEMMA NewSection ==
  ASSUME fed \in Seq(Text), NEW line, Appends(line), NEW n \in Nat, n = Len(fed),
         NEW o \in Nat, OpenAt(o)
  PROVE  Section(n + 1, n + 1)' <=>
           \/ line.kind = "processor"
           \/ line.kind # "blank" /\ o = n + 1
<1>1. /\ n = Len(fed) /\ Len(fed') = n + 1
      /\ \A k \in 1..n : fed'[k] = fed[k]
      /\ fed'[n + 1] = line
  BY Appended
<1>2. Section(n + 1, n + 1)' <=> line.kind # "blank" /\ Begins(n + 1)'
  <2>1. n + 1 \in 1..(n + 1) /\ (n + 1) + 1..(n + 1) = {}
    BY <1>1
  <2> QED
    BY <1>1, <2>1 DEF Section
<1>3. o \in 1..(n + 1)
  BY DEF OpenAt
<1>4. CASE o = n + 1
  <2>1. n = 0 \/ fed[n].kind = "blank"
    BY <1>4 DEF OpenAt
  <2>2. Begins(n + 1)'
    <3>1. CASE n = 0
      BY <3>1 DEF Begins
    <3>2. CASE n # 0
      <4>1. fed'[(n + 1) - 1].kind = "blank"
        BY <1>1, <2>1, <3>2
      <4> QED
        BY <4>1 DEF Begins
    <3> QED
      BY <3>1, <3>2
  <2> QED
    BY <1>2, <1>4, <2>2
<1>5. CASE o # n + 1
  <2>1. o <= n /\ n \in 1..n
    BY <1>1, <1>3, <1>5
  <2>2. Section(o, n)
    BY <2>1 DEF OpenAt
  <2>3. fed[n].kind # "blank"
    <3>1. n = o \/ n \in o + 1..n
      BY <1>1, <1>3, <2>1
    <3> QED
      BY <2>2, <3>1 DEF Section, Cut
  <2>4. /\ fed'[(n + 1) - 1].kind # "blank" /\ n + 1 # 1
        /\ fed'[n + 1] = line
    BY <1>1, <2>1, <2>3
  <2>5. Begins(n + 1)' <=> line.kind = "processor"
    BY <2>4 DEF Begins
  <2> QED
    BY <1>2, <1>5, <2>5
<1> QED
  BY <1>4, <1>5

\* Where the open section begins after a line.
NextOpen(n, o, line) ==
  IF line.kind = "blank" THEN n + 2
  ELSE IF line.kind = "processor" THEN n + 1 ELSE o

LEMMA OpenMoves ==
  ASSUME fed \in Seq(Text), NEW line, Appends(line), NEW n \in Nat, n = Len(fed),
         NEW o \in Nat, OpenAt(o)
  PROVE  /\ NextOpen(n, o, line) \in Nat
         /\ OpenAt(NextOpen(n, o, line))'
<1>1. /\ n = Len(fed) /\ Len(fed') = n + 1
      /\ fed'[n + 1] = line
  BY Appended
<1>2. o \in 1..(n + 1)
  BY DEF OpenAt
<1>3. CASE line.kind = "blank"
  <2>1. NextOpen(n, o, line) = n + 2
    BY <1>3 DEF NextOpen
  <2>2. OpenAt(n + 2)'
    BY <1>1, <1>3 DEF OpenAt
  <2> QED
    BY <1>1, <2>1, <2>2
<1>4. CASE line.kind # "blank" /\ (line.kind = "processor" \/ o = n + 1)
  <2>1. NextOpen(n, o, line) = n + 1
    BY <1>4 DEF NextOpen
  <2>2. Section(n + 1, n + 1)'
    BY <1>4, NewSection
  <2>3. OpenAt(n + 1)'
    BY <1>1, <2>2 DEF OpenAt
  <2> QED
    BY <1>1, <2>1, <2>3
<1>5. CASE line.kind \notin {"blank", "processor"} /\ o # n + 1
  <2>1. NextOpen(n, o, line) = o /\ o \in 1..n /\ o <= n
    BY <1>1, <1>2, <1>5 DEF NextOpen
  <2>2. Section(o, n)
    BY <2>1 DEF OpenAt
  <2>3. Section(o, n + 1)'
    BY <1>5, <2>1, <2>2, OpenSection
  <2>4. OpenAt(o)'
    BY <1>1, <2>1, <2>3 DEF OpenAt
  <2> QED
    BY <2>1, <2>4
<1> QED
  BY <1>3, <1>4, <1>5

\* The sections behind which the file has gone on: the line closes the open one
\* if it cuts.
LEMMA ClosedSections ==
  ASSUME fed \in Seq(Text), NEW line, Appends(line), NEW n \in Nat, n = Len(fed),
         NEW o \in Nat, OpenAt(o),
         NEW i \in Nat, NEW j \in Nat
  PROVE  (i # NextOpen(n, o, line) /\ Section(i, j)') <=>
           /\ Section(i, j)
           /\ i # o \/ line.kind \in {"processor", "blank"}
<1>1. /\ n = Len(fed) /\ Len(fed') = n + 1
  BY Appended
<1>2. o \in 1..(n + 1)
  BY DEF OpenAt
<1>3. CASE j < n
  <2>1. Section(i, j)' <=> Section(i, j)
    BY <1>3, EarlierSections
  <2>2. Section(i, j) => i # o
    BY <1>1, <1>3, OpenReachesEnd
  <2>3. Section(i, j) => i \in 1..n
    BY DEF Section
  <2>4. Section(i, j) => i # NextOpen(n, o, line)
    BY <1>1, <2>2, <2>3 DEF NextOpen
  <2> QED
    BY <2>1, <2>2, <2>4
<1>4. CASE j = n
  <2>1. CASE i \in 1..n
    <3>1. Section(i, j)' <=> Section(i, j) /\ line.kind \in {"processor", "blank"}
      BY <1>4, <2>1, OpenSection
    <3>2. line.kind \in {"processor", "blank"} => i # NextOpen(n, o, line)
      BY <1>1, <2>1 DEF NextOpen
    <3>3. Section(i, j) => i = o
      BY <1>4, LastIsOpen
    <3> QED
      BY <3>1, <3>2, <3>3
  <2>2. CASE i \notin 1..n
    <3>1. ~Section(i, j)
      BY <2>2 DEF Section
    <3>2. ~Section(i, j)'
      <4>1. ~(i \in 1..Len(fed') /\ i <= j)
        BY <1>1, <1>4, <2>2
      <4> QED
        BY <4>1 DEF Section
    <3> QED
      BY <3>1, <3>2
  <2> QED
    BY <2>1, <2>2
<1>5. CASE j > n
  <2>1. ~Section(i, j)
    BY <1>1, <1>5 DEF Section
  <2>2. ASSUME Section(i, j)'
        PROVE  i = NextOpen(n, o, line)
    <3>1. j = n + 1 /\ i \in 1..(n + 1)
      BY <1>1, <1>5, <2>2 DEF Section
    <3>2. CASE i = n + 1
      <4>1. line.kind = "processor" \/ (line.kind # "blank" /\ o = n + 1)
        BY <2>2, <3>1, <3>2, NewSection
      <4> QED
        BY <3>2, <4>1 DEF NextOpen
    <3>3. CASE i # n + 1
      <4>1. i \in 1..n
        BY <1>1, <3>1, <3>3
      <4>2. Section(i, n) /\ line.kind \notin {"processor", "blank"}
        BY <2>2, <3>1, <4>1, OpenSection
      <4>3. i = o
        BY <4>2, LastIsOpen
      <4> QED
        BY <4>2, <4>3 DEF NextOpen
    <3> QED
      BY <3>2, <3>3
  <2> QED
    BY <2>1, <2>2
<1> QED
  BY <1>1, <1>3, <1>4, <1>5

\* Lines that are there stay, and so does what they name.
LEMMA NamesStay ==
  ASSUME fed \in Seq(Text), NEW line, Appends(line), NEW i \in Nat, NEW j \in Nat,
         Section(i, j)
  PROVE  /\ (\E k \in i..j : Relevant(fed[k]))' <=> \E k \in i..j : Relevant(fed[k])
         /\ \A q : NamedBy(i..j, q)' <=> NamedBy(i..j, q)
<1>1. \A k \in i..j : fed'[k] = fed[k]
  <2>1. \A k \in i..j : k \in 1..Len(fed)
    BY Appended DEF Section
  <2> QED
    BY <2>1, Appended
<1> DEFINE r == i..j
<1> HIDE DEF r
<1>2. \A k \in r : fed'[k] = fed[k]
  BY <1>1 DEF r
<1>3. \A kind, limit, v : Holds(r, kind, limit, v)' <=> Holds(r, kind, limit, v)
  BY <1>2 DEF Holds
<1>4. \A a, p : IsCore(r, a, p)' <=> IsCore(r, a, p)
  BY <1>2, <1>3 DEF IsCore
<1>5. \A q : NamedBy(r, q)' <=> NamedBy(r, q)
  BY <1>4 DEF NamedBy
<1> QED
  BY <1>1, <1>5 DEF r

LEMMA ClosedRecords ==
  ASSUME fed \in Seq(Text), NEW line, Appends(line), NEW n \in Nat, n = Len(fed),
         NEW o \in Nat, OpenAt(o),
         NEW i \in Nat, NEW j \in Nat
  PROVE  /\ (i # NextOpen(n, o, line) /\ Record(i, j)') <=>
              /\ Record(i, j)
              /\ i # o \/ line.kind \in {"processor", "blank"}
         /\ Record(i, j) => \A q : NamedBy(i..j, q)' <=> NamedBy(i..j, q)
<1>1. (i # NextOpen(n, o, line) /\ Section(i, j)') <=>
        Section(i, j) /\ (i # o \/ line.kind \in {"processor", "blank"})
  BY ClosedSections
<1>2. Section(i, j) =>
        /\ (\E k \in i..j : Relevant(fed[k]))' <=> \E k \in i..j : Relevant(fed[k])
        /\ \A q : NamedBy(i..j, q)' <=> NamedBy(i..j, q)
  BY NamesStay
<1> QED
  BY <1>1, <1>2 DEF Record

-----------------------------------------------------------------------------
(* The parser and the open section.                                        *)

LEMMA OpenNames ==
  ASSUME fed \in Seq(Text), fileParser \in Parsers, NEW n \in Nat, n = Len(fed),
         NEW o \in Nat, OpenAt(o), Fields(o)
  PROVE  /\ fileParser.started => Record(o, n)
         /\ ~fileParser.started => fileParser.have = {} /\ \A j \in Nat : ~Record(o, j)
         /\ fileParser.have # {"implementer", "part"} => \A q : ~NamedBy(o..n, q)
         /\ fileParser.have = {"implementer", "part"} =>
              \A q : NamedBy(o..n, q) <=>
                       Profile(<<fileParser.implementer, fileParser.part>>) = q
<1>1. o \in 1..(n + 1)
  BY DEF OpenAt
<1>2. fileParser.have \subseteq {"implementer", "part"}
  BY DEF Parsers
<1>3. fileParser.started => Record(o, n)
  <2>1. fileParser.started => o <= n /\ \E k \in o..n : Relevant(fed[k])
    BY <1>1 DEF Fields
  <2> QED
    BY <2>1 DEF OpenAt, Record
<1>4. ~fileParser.started => fileParser.have = {} /\ \A j \in Nat : ~Record(o, j)
  <2>1. ~fileParser.started => \A k \in o..n : ~Relevant(fed[k])
    BY DEF Fields
  <2>2. ~fileParser.started => ~Seen(o, "implementer") /\ ~Seen(o, "part")
    BY <2>1 DEF Seen, Relevant
  <2>3. \A j \in Nat : Record(o, j) => j = n /\ \E k \in o..n : Relevant(fed[k])
    BY OpenReachesEnd DEF Record
  <2> QED
    BY <1>2, <2>1, <2>2, <2>3 DEF Fields
<1>5. ASSUME fileParser.have # {"implementer", "part"}, NEW q
      PROVE  ~NamedBy(o..n, q)
  <2>1. ~Seen(o, "implementer") \/ ~Seen(o, "part")
    BY <1>2, <1>5 DEF Fields
  <2>2. \A kind, limit, v : Holds(o..n, kind, limit, v) => Seen(o, kind)
    BY DEF Holds, Seen
  <2> QED
    BY <2>1, <2>2 DEF NamedBy, IsCore
<1>6. ASSUME fileParser.have = {"implementer", "part"}, NEW q
      PROVE  NamedBy(o..n, q) <=>
               Profile(<<fileParser.implementer, fileParser.part>>) = q
  <2> DEFINE i == fileParser.implementer
             p == fileParser.part
             r == o..n
  <2>1. /\ Holds(r, "implementer", MaxImplementer, i)
        /\ Holds(r, "part", MaxPart, p)
        /\ \A k \in r : fed[k].kind = "processor" => fed[k].ok
    BY <1>6 DEF Fields
  <2>2. \A k \in r : fed[k].value \in Numbers
    <3>1. \A k \in r : k \in 1..Len(fed)
      BY <1>1
    <3>2. \A k \in 1..Len(fed) : fed[k] \in Text
      BY LinesOK
    <3> QED
      BY <3>1, <3>2 DEF Numbers
  <2> HIDE DEF i, p, r
  <2>3. i \in Numbers /\ p \in Numbers
    BY <2>1, <2>2 DEF Holds
  <2>4. IsCore(r, i, p)
    BY <2>1 DEF IsCore
  <2>5. \A a, b : IsCore(r, a, b) => a = i /\ b = p
    BY <2>1, HoldsOne DEF IsCore
  <2>6. NamedBy(r, q) <=> Profile(<<i, p>>) = q
    BY <2>3, <2>4, <2>5 DEF NamedBy
  <2> QED
    BY <2>6 DEF i, p, r
<1> QED
  BY <1>3, <1>4, <1>5, <1>6

\* Finishing the open record tells whether the records so far agree.
LEMMA Closing ==
  ASSUME fed \in Seq(Text), fileParser \in Parsers, ~fileParser.invalid,
         NEW o \in Nat, OpenAt(o), Fields(o), Before(o)
  PROVE  LET t == FinishRecord(fileParser) IN
         /\ t.invalid => Unnamed
         /\ ~t.invalid =>
              /\ t \in Parsers /\ ~t.started /\ t.have = {}
              /\ t.found =>
                   \E v \in Profiles :
                     /\ t.selected = v
                     /\ \E i, j \in Nat : Record(i, j)
                     /\ \A i, j \in Nat : Record(i, j) => NamedBy(i..j, v)
              /\ ~t.found => \A i, j \in Nat : ~Record(i, j)
<1> DEFINE s == fileParser
           t == FinishRecord(s)
           candidate == Profile(<<s.implementer, s.part>>)
<1>1. PICK n \in Nat : n = Len(fed)
  OBVIOUS
<1>2. /\ s.started => Record(o, n)
      /\ ~s.started => s.have = {} /\ \A j \in Nat : ~Record(o, j)
      /\ s.have # {"implementer", "part"} => \A q : ~NamedBy(o..n, q)
      /\ s.have = {"implementer", "part"} =>
           \A q : NamedBy(o..n, q) <=> candidate = q
  BY <1>1, OpenNames
<1>3. \A j \in Nat : Record(o, j) => j = n
  BY <1>1, OpenReachesEnd DEF Record
<1>4. candidate \in Profiles \cup {Unknown}
  BY ProfileType
<1>5. t \in Parsers
  BY FinishRecordType
<1>6. CASE ~s.started
  <2>1. t = s
    BY <1>6 DEF FinishRecord
  <2>2. \A i, j \in Nat : Record(i, j) => i # o
    BY <1>2, <1>6
  <2> QED
    BY <1>2, <1>5, <1>6, <2>1, <2>2 DEF Before
<1>7. CASE s.started
  <2> HIDE DEF candidate
  <2>1. CASE s.have # {"implementer", "part"} \/ candidate = Unknown
    <3>1. \A q \in Profiles : ~NamedBy(o..n, q)
      BY <1>2, <2>1, UnknownUnnamed
    <3>2. Unnamed
      BY <1>1, <1>2, <1>7, <3>1 DEF Unnamed
    <3>3. t.invalid
      BY <1>7, <2>1 DEF FinishRecord, Invalid, Parsers, candidate
    <3> QED
      BY <3>2, <3>3
  <2>2. CASE s.found /\ s.selected # candidate /\ s.have = {"implementer", "part"}
    <3>1. PICK v \in Profiles :
            /\ s.selected = v
            /\ \E i, j \in Nat : i # o /\ Record(i, j)
            /\ \A i, j \in Nat : i # o /\ Record(i, j) => NamedBy(i..j, v)
      BY <2>2 DEF Before
    <3>2. PICK i \in Nat, j \in Nat : Record(i, j) /\ NamedBy(i..j, v)
      BY <3>1
    <3>3. ASSUME NEW q \in Profiles
          PROVE  \E a, b \in Nat : Record(a, b) /\ ~NamedBy(a..b, q)
      <4>1. CASE q = candidate
        <5>1. ~NamedBy(i..j, q)
          BY <2>2, <3>1, <3>2, <4>1, NamesOne
        <5> QED
          BY <3>2, <5>1
      <4>2. CASE q # candidate
        <5>1. ~NamedBy(o..n, q)
          BY <1>2, <2>2, <4>2
        <5> QED
          BY <1>1, <1>2, <1>7, <5>1
      <4> QED
        BY <4>1, <4>2
    <3>4. t.invalid
      BY <1>7, <2>2 DEF FinishRecord, Invalid, Parsers, candidate
    <3> QED
      BY <3>3, <3>4 DEF Unnamed
  <2>3. CASE /\ s.have = {"implementer", "part"} /\ candidate # Unknown
             /\ s.found => s.selected = candidate
    <3>1. t = [NewParser EXCEPT !.selected = candidate, !.found = TRUE]
      BY <1>7, <2>3 DEF FinishRecord, candidate
    <3>2. /\ ~t.invalid /\ ~t.started /\ t.have = {} /\ t.found
          /\ t.selected = candidate
      BY <3>1 DEF NewParser
    <3>3. candidate \in Profiles
      BY <1>4, <2>3 DEF candidate
    <3>4. NamedBy(o..n, candidate)
      BY <1>2, <2>3
    <3>5. ASSUME NEW i \in Nat, NEW j \in Nat, Record(i, j)
          PROVE  NamedBy(i..j, candidate)
      <4>1. CASE i = o
        BY <1>3, <3>4, <3>5, <4>1
      <4>2. CASE i # o
        BY <2>3, <3>5, <4>2 DEF Before
      <4> QED
        BY <4>1, <4>2
    <3>6. Record(o, n)
      BY <1>2, <1>7
    <3> HIDE DEF t
    <3>7. \E v \in Profiles :
            /\ t.selected = v
            /\ \E i, j \in Nat : Record(i, j)
            /\ \A i, j \in Nat : Record(i, j) => NamedBy(i..j, v)
      BY <3>2, <3>3, <3>5, <3>6
    <3> QED
      BY <1>5, <3>2, <3>7 DEF t
  <2> QED
    BY <2>1, <2>2, <2>3
<1> QED
  BY <1>6, <1>7

LEMMA SaysWhatFileSays == FileInv => AnswersWhatFileSays
<1> SUFFICES ASSUME FileInv, NEW q \in Profiles
             PROVE  Finish(fileParser) = q <=>
                      /\ \E i, j \in Nat : Record(i, j)
                      /\ \A i, j \in Nat : Record(i, j) => NamedBy(i..j, q)
  BY SaysByLines DEF FileInv, AnswersWhatFileSays
<1> DEFINE t == FinishRecord(fileParser)
<1>1. CASE fileParser.invalid \/ (t.invalid /\ Unnamed)
  <2>1. Unnamed /\ Finish(fileParser) = Unknown
    BY <1>1 DEF FileInv, Finish
  <2> QED
    BY <2>1, UnknownUnnamed DEF Unnamed
<1>2. CASE ~fileParser.invalid /\ ~(t.invalid /\ Unnamed)
  <2>1. PICK o \in Nat : OpenAt(o) /\ Fields(o) /\ Before(o)
    BY <1>2 DEF FileInv
  <2>2. /\ ~t.invalid
        /\ t.found =>
             \E v \in Profiles :
               /\ t.selected = v
               /\ \E i, j \in Nat : Record(i, j)
               /\ \A i, j \in Nat : Record(i, j) => NamedBy(i..j, v)
        /\ ~t.found => \A i, j \in Nat : ~Record(i, j)
    BY <1>2, <2>1, Closing DEF FileInv
  <2>3. CASE ~t.found
    <3>1. Finish(fileParser) = Unknown
      BY <2>3 DEF Finish
    <3> QED
      BY <2>2, <2>3, <3>1, UnknownUnnamed
  <2>4. CASE t.found
    <3>1. Finish(fileParser) = t.selected
      BY <1>2, <2>2, <2>4 DEF Finish
    <3> HIDE DEF t
    <3>2. PICK v \in Profiles :
            /\ t.selected = v
            /\ \E i, j \in Nat : Record(i, j)
            /\ \A i, j \in Nat : Record(i, j) => NamedBy(i..j, v)
      BY <2>2, <2>4
    <3> QED
      BY <3>1, <3>2, NamesOne
  <2> QED
    BY <2>3, <2>4
<1> QED
  BY <1>1, <1>2

-----------------------------------------------------------------------------
(* A line that cuts: the open section is closed.                           *)

LEMMA CutKeeps ==
  ASSUME FileInv, ~fileParser.invalid, NEW line, Appends(line),
         NEW n \in Nat, n = Len(fed), line.kind \in {"processor", "blank"}
  PROVE  /\ Unnamed => Unnamed'
         /\ (\E i, j \in Nat : Record(i, j)) =>
              \E i, j \in Nat : Record(i, j)' /\ i \in 1..n
         /\ \A i, j \in Nat : i \in 1..n => (Record(i, j)' <=> Record(i, j))
         /\ \A i, j \in Nat : Record(i, j) => i \in 1..n
         /\ \A i, j \in Nat : Record(i, j) =>
              \A q : NamedBy(i..j, q)' <=> NamedBy(i..j, q)
<1>1. PICK o \in Nat : OpenAt(o)
  BY DEF FileInv
<1>2. fed \in Seq(Text)
  BY DEF FileInv
<1>3. \A i, j \in Nat : i \in 1..n => i # NextOpen(n, o, line)
  BY DEF NextOpen
<1>4. \A i, j \in Nat : Record(i, j) => i \in 1..n
  BY DEF Record, Section
<1>5. ASSUME NEW i \in Nat, NEW j \in Nat
      PROVE  /\ (i # NextOpen(n, o, line) /\ Record(i, j)') <=> Record(i, j)
             /\ Record(i, j) => \A q : NamedBy(i..j, q)' <=> NamedBy(i..j, q)
  BY <1>1, <1>2, ClosedRecords
<1>6. \A i, j \in Nat : i \in 1..n => (Record(i, j)' <=> Record(i, j))
  BY <1>3, <1>5
<1>7. \A i, j \in Nat : Record(i, j) =>
        \A q : NamedBy(i..j, q)' <=> NamedBy(i..j, q)
  BY <1>5
<1>8. ASSUME Unnamed
      PROVE  Unnamed'
  <2> SUFFICES ASSUME NEW q \in Profiles
               PROVE  \E i, j \in Nat : Record(i, j)' /\ ~NamedBy(i..j, q)'
    BY DEF Unnamed
  <2>1. PICK i \in Nat, j \in Nat : Record(i, j) /\ ~NamedBy(i..j, q)
    BY <1>8 DEF Unnamed
  <2> QED
    BY <1>4, <1>6, <1>7, <2>1
<1> QED
  BY <1>4, <1>6, <1>7, <1>8

\* The parser has finished the record, and begun the next one if the line is a
\* processor line.
LEMMA CutFollows ==
  ASSUME FileInv, ~fileParser.invalid, NEW line, Appends(line),
         NEW n \in Nat, n = Len(fed), line.kind \in {"processor", "blank"},
         ~FinishRecord(fileParser).invalid,
         line.kind = "processor" => line.ok,
         fileParser' = IF line.kind = "blank" THEN FinishRecord(fileParser)
                       ELSE Start(FinishRecord(fileParser))
  PROVE  \E o \in Nat : OpenAt(o)' /\ Fields(o)' /\ Before(o)'
<1> DEFINE t == FinishRecord(fileParser)
<1>1. PICK o \in Nat : OpenAt(o) /\ Fields(o) /\ Before(o)
  BY DEF FileInv
<1>2. fed \in Seq(Text) /\ fileParser \in Parsers
  BY DEF FileInv
<1>3. /\ t \in Parsers /\ ~t.started /\ t.have = {}
      /\ t.found =>
           \E v \in Profiles :
             /\ t.selected = v
             /\ \E i, j \in Nat : Record(i, j)
             /\ \A i, j \in Nat : Record(i, j) => NamedBy(i..j, v)
      /\ ~t.found => \A i, j \in Nat : ~Record(i, j)
  BY <1>1, <1>2, Closing
<1> HIDE DEF t
<1>4. /\ fileParser'.have = {} /\ fileParser'.found = t.found
      /\ fileParser'.selected = t.selected
      /\ fileParser'.started <=> line.kind = "processor"
  <2>1. CASE line.kind = "blank"
    BY <1>3, <2>1 DEF t
  <2>2. CASE line.kind = "processor"
    <3>1. fileParser' = Start(t)
      BY <2>2 DEF t
    <3>2. /\ Start(t).have = t.have /\ Start(t).found = t.found
          /\ Start(t).selected = t.selected /\ Start(t).started
      BY <1>3 DEF Start, Parsers
    <3> QED
      BY <1>3, <2>2, <3>1, <3>2
  <2> QED
    BY <2>1, <2>2
<1>5. PICK m \in Nat : m = NextOpen(n, o, line)
  BY <1>1, <1>2, OpenMoves
<1>6. OpenAt(m)'
  BY <1>1, <1>2, <1>5, OpenMoves
<1>7. /\ Len(fed') = n + 1 /\ fed'[n + 1] = line
      /\ m = n + 2 \/ m = n + 1
      /\ m = n + 1 <=> line.kind = "processor"
  BY <1>2, <1>5, Appended DEF NextOpen
<1>8. /\ line.kind = "blank" => m..Len(fed') = {}
      /\ line.kind = "processor" => m..Len(fed') = {n + 1}
  BY <1>7
<1>9. Fields(m)'
  <2>1. CASE line.kind = "blank"
    BY <1>4, <1>8, <2>1 DEF Fields, Seen
  <2>2. CASE line.kind = "processor"
    <3>1. (\E k \in m..Len(fed) : Relevant(fed[k]))'
      BY <1>7, <1>8, <2>2 DEF Relevant
    <3>2. ~Seen(m, "implementer")' /\ ~Seen(m, "part")'
      BY <1>7, <1>8, <2>2 DEF Seen
    <3>3. (\A k \in m..Len(fed) : fed[k].kind = "processor" => fed[k].ok)'
      BY <1>7, <1>8, <2>2
    <3> QED
      BY <1>4, <2>2, <3>1, <3>2, <3>3 DEF Fields
  <2> QED
    BY <2>1, <2>2
<1>10. Before(m)'
  <2>1. ASSUME NEW i \in Nat, NEW j \in Nat
        PROVE  /\ (i # m /\ Record(i, j)') <=> Record(i, j)
               /\ Record(i, j) => \A q : NamedBy(i..j, q)' <=> NamedBy(i..j, q)
    BY <1>1, <1>2, <1>5, ClosedRecords
  <2>2. CASE t.found
    <3>1. PICK v \in Profiles :
            /\ t.selected = v
            /\ \E i, j \in Nat : Record(i, j)
            /\ \A i, j \in Nat : Record(i, j) => NamedBy(i..j, v)
      BY <1>3, <2>2
    <3>2. \E i, j \in Nat : i # m /\ Record(i, j)'
      BY <2>1, <3>1
    <3>3. \A i, j \in Nat : i # m /\ Record(i, j)' => NamedBy(i..j, v)'
      BY <2>1, <3>1
    <3> QED
      BY <1>4, <2>2, <3>1, <3>2, <3>3 DEF Before
  <2>3. CASE ~t.found
    BY <1>3, <1>4, <2>1, <2>3 DEF Before
  <2> QED
    BY <2>2, <2>3
<1> QED
  BY <1>6, <1>9, <1>10

-----------------------------------------------------------------------------
(* A line that does not cut joins the open section.                        *)

LEMMA Joins ==
  ASSUME fed \in Seq(Text), NEW line, Appends(line), NEW n \in Nat, n = Len(fed),
         NEW o \in Nat, OpenAt(o), line.kind \notin {"processor", "blank"}
  PROVE  /\ OpenAt(o)'
         /\ Section(o, n + 1)'
         /\ Len(fed') = n + 1 /\ fed'[n + 1] = line
         /\ n + 1 \in o..(n + 1)
         /\ \A k : k \in o..(n + 1) <=> k \in o..n \/ k = n + 1
         /\ \A k \in o..n : fed'[k] = fed[k] /\ k # n + 1
<1>1. NextOpen(n, o, line) = o
  BY DEF NextOpen
<1>2. OpenAt(o)'
  BY <1>1, OpenMoves
<1>3. /\ Len(fed') = n + 1 /\ fed'[n + 1] = line
      /\ \A k \in 1..n : fed'[k] = fed[k]
  BY Appended
<1>4. o \in 1..(n + 1)
  BY DEF OpenAt
<1>5. Section(o, n + 1)'
  BY <1>2, <1>3, <1>4 DEF OpenAt
<1>6. /\ n + 1 \in o..(n + 1)
      /\ \A k : k \in o..(n + 1) <=> k \in o..n \/ k = n + 1
  BY <1>4
<1>7. \A k \in o..n : k \in 1..n /\ k # n + 1
  BY <1>4
<1> QED
  BY <1>2, <1>3, <1>5, <1>6, <1>7

LEMMA JoinedSeen ==
  ASSUME fed \in Seq(Text), NEW line, Appends(line), NEW n \in Nat, n = Len(fed),
         NEW o \in Nat, OpenAt(o), line.kind \notin {"processor", "blank"}
  PROVE  /\ \A kind : Seen(o, kind)' <=> Seen(o, kind) \/ line.kind = kind
         /\ (\E k \in o..Len(fed) : Relevant(fed[k]))' <=>
              (\E k \in o..Len(fed) : Relevant(fed[k])) \/ Relevant(line)
         /\ (\A k \in o..Len(fed) : fed[k].kind = "processor" => fed[k].ok)' <=>
              \A k \in o..Len(fed) : fed[k].kind = "processor" => fed[k].ok
         /\ \A kind, limit, v : line.kind # kind =>
              (Holds(o..(n + 1), kind, limit, v)' <=> Holds(o..n, kind, limit, v))
         /\ \A kind, limit, v : line.kind = kind =>
              (Holds(o..(n + 1), kind, limit, v)' <=>
                 line.ok /\ line.value = v /\ v <= limit /\ ~Seen(o, kind))
<1> DEFINE new == o..(n + 1)
           old == o..n
<1>1. /\ Len(fed') = n + 1 /\ fed'[n + 1] = line
      /\ n + 1 \in new
      /\ \A k : k \in new <=> k \in old \/ k = n + 1
      /\ \A k \in old : fed'[k] = fed[k] /\ k # n + 1
  BY Joins
<1>2. o..Len(fed') = new /\ o..Len(fed) = old
  BY <1>1
<1> HIDE DEF new, old
<1>3. ASSUME NEW kind
      PROVE  Seen(o, kind)' <=> Seen(o, kind) \/ line.kind = kind
  BY <1>1, <1>2 DEF Seen
<1>4. (\E k \in o..Len(fed) : Relevant(fed[k]))' <=>
        (\E k \in o..Len(fed) : Relevant(fed[k])) \/ Relevant(line)
  <2>1. (\E k \in new : Relevant(fed'[k])) <=>
          (\E k \in old : Relevant(fed[k])) \/ Relevant(line)
    BY <1>1
  <2> QED
    BY <1>2, <2>1
<1>5. (\A k \in o..Len(fed) : fed[k].kind = "processor" => fed[k].ok)' <=>
        \A k \in o..Len(fed) : fed[k].kind = "processor" => fed[k].ok
  <2>1. (\A k \in new : fed'[k].kind = "processor" => fed'[k].ok) <=>
          \A k \in old : fed[k].kind = "processor" => fed[k].ok
    BY <1>1
  <2> QED
    BY <1>2, <2>1
<1>6. ASSUME NEW kind, NEW limit, NEW v, line.kind # kind
      PROVE  Holds(new, kind, limit, v)' <=> Holds(old, kind, limit, v)
  <2>1. ASSUME NEW k \in old
        PROVE  (\A m \in new \ {k} : fed'[m].kind # kind) <=>
                 \A m \in old \ {k} : fed[m].kind # kind
    BY <1>1, <1>6, <2>1
  <2>2. Holds(old, kind, limit, v) <=>
          \E k \in old :
            /\ fed[k].kind = kind /\ fed[k].ok
            /\ fed[k].value = v /\ v <= limit
            /\ \A m \in old \ {k} : fed[m].kind # kind
    BY DEF Holds
  <2>3. Holds(new, kind, limit, v)' <=>
          \E k \in new :
            /\ fed'[k].kind = kind /\ fed'[k].ok
            /\ fed'[k].value = v /\ v <= limit
            /\ \A m \in new \ {k} : fed'[m].kind # kind
    BY DEF Holds, new
  <2> QED
    BY <1>1, <1>6, <2>1, <2>2, <2>3
<1>7. ASSUME NEW kind, NEW limit, NEW v, line.kind = kind
      PROVE  Holds(new, kind, limit, v)' <=>
               line.ok /\ line.value = v /\ v <= limit /\ ~Seen(o, kind)
  <2>1. Seen(o, kind) <=> \E k \in old : fed[k].kind = kind
    BY <1>2 DEF Seen
  <2>2. Holds(new, kind, limit, v)' <=>
          \E k \in new :
            /\ fed'[k].kind = kind /\ fed'[k].ok
            /\ fed'[k].value = v /\ v <= limit
            /\ \A m \in new \ {k} : fed'[m].kind # kind
    BY DEF Holds, new
  <2>3. ASSUME Holds(new, kind, limit, v)'
        PROVE  line.ok /\ line.value = v /\ v <= limit /\ ~Seen(o, kind)
    <3>1. PICK k \in new :
            /\ fed'[k].kind = kind /\ fed'[k].ok
            /\ fed'[k].value = v /\ v <= limit
            /\ \A m \in new \ {k} : fed'[m].kind # kind
      BY <2>2, <2>3
    <3>2. k = n + 1
      BY <1>1, <1>7, <3>1
    <3> QED
      BY <1>1, <2>1, <3>1, <3>2
  <2>4. ASSUME line.ok, line.value = v, v <= limit, ~Seen(o, kind)
        PROVE  Holds(new, kind, limit, v)'
    <3>1. \A m \in new \ {n + 1} : fed'[m].kind # kind
      BY <1>1, <2>1, <2>4
    <3> QED
      BY <1>1, <1>7, <2>2, <2>4, <3>1
  <2> QED
    BY <2>3, <2>4
<1>8. /\ \A kind, limit, v : line.kind # kind =>
           (Holds(new, kind, limit, v)' <=> Holds(old, kind, limit, v))
      /\ \A kind, limit, v : line.kind = kind =>
           (Holds(new, kind, limit, v)' <=>
              line.ok /\ line.value = v /\ v <= limit /\ ~Seen(o, kind))
  BY <1>6, <1>7
<1> QED
  BY <1>3, <1>4, <1>5, <1>8 DEF new, old

\* The records before the open one are not touched.
LEMMA JoinedBefore ==
  ASSUME fed \in Seq(Text), NEW line, Appends(line), NEW n \in Nat, n = Len(fed),
         NEW o \in Nat, OpenAt(o), line.kind \notin {"processor", "blank"},
         Before(o), fileParser'.found = fileParser.found,
         fileParser'.selected = fileParser.selected
  PROVE  Before(o)'
<1>1. NextOpen(n, o, line) = o
  BY DEF NextOpen
<1>2. ASSUME NEW i \in Nat, NEW j \in Nat
      PROVE  /\ (i # o /\ Record(i, j)') <=> (i # o /\ Record(i, j))
             /\ Record(i, j) => \A q : NamedBy(i..j, q)' <=> NamedBy(i..j, q)
  BY <1>1, ClosedRecords
<1>3. CASE fileParser.found
  <2>1. PICK v \in Profiles :
          /\ fileParser.selected = v
          /\ \E i, j \in Nat : i # o /\ Record(i, j)
          /\ \A i, j \in Nat : i # o /\ Record(i, j) => NamedBy(i..j, v)
    BY <1>3 DEF Before
  <2>2. \E i, j \in Nat : i # o /\ Record(i, j)'
    BY <1>2, <2>1
  <2>3. \A i, j \in Nat : i # o /\ Record(i, j)' => NamedBy(i..j, v)'
    BY <1>2, <2>1
  <2> QED
    BY <1>3, <2>1, <2>2, <2>3 DEF Before
<1>4. CASE ~fileParser.found
  BY <1>2, <1>4 DEF Before
<1> QED
  BY <1>3, <1>4

\* A field that does not fit spoils its record.
LEMMA SpoiltRecord ==
  ASSUME fed \in Seq(Text), NEW line, Appends(line), NEW n \in Nat, n = Len(fed),
         NEW o \in Nat, OpenAt(o),
         \/ /\ line.kind = "implementer"
            /\ ~line.ok \/ Seen(o, "implementer") \/ ~(line.value <= MaxImplementer)
         \/ /\ line.kind = "part"
            /\ ~line.ok \/ Seen(o, "part") \/ ~(line.value <= MaxPart)
  PROVE  Unnamed'
<1>0. line.kind \notin {"processor", "blank"}
  OBVIOUS
<1>1. Section(o, n + 1)' /\ fed'[n + 1] = line /\ n + 1 \in o..(n + 1)
  BY <1>0, Joins
<1>2. Record(o, n + 1)'
  BY <1>1 DEF Record, Relevant
<1>3. \/ \A v : ~Holds(o..(n + 1), "implementer", MaxImplementer, v)'
      \/ \A v : ~Holds(o..(n + 1), "part", MaxPart, v)'
  <2>1. \A kind, limit, v : line.kind = kind =>
          (Holds(o..(n + 1), kind, limit, v)' <=>
             line.ok /\ line.value = v /\ v <= limit /\ ~Seen(o, kind))
    BY <1>0, JoinedSeen
  <2>2. CASE /\ line.kind = "implementer"
             /\ ~line.ok \/ Seen(o, "implementer") \/ ~(line.value <= MaxImplementer)
    <3>1. ASSUME NEW v
          PROVE  ~Holds(o..(n + 1), "implementer", MaxImplementer, v)'
      BY <2>1, <2>2
    <3> QED
      BY <3>1
  <2>3. CASE /\ line.kind = "part"
             /\ ~line.ok \/ Seen(o, "part") \/ ~(line.value <= MaxPart)
    <3>1. ASSUME NEW v
          PROVE  ~Holds(o..(n + 1), "part", MaxPart, v)'
      BY <2>1, <2>3
    <3> QED
      BY <3>1
  <2> QED
    BY <2>2, <2>3
<1>4. \A q : ~NamedBy(o..(n + 1), q)'
  BY <1>3 DEF NamedBy, IsCore
<1> QED
  BY <1>2, <1>4 DEF Unnamed

\* The parser takes a field in.
LEMMA JoinFollows ==
  ASSUME FileInv, ~fileParser.invalid, NEW line, Appends(line), LineOK(line),
         NEW o \in Nat, OpenAt(o), Fields(o), Before(o),
         line.kind \in {"implementer", "part", "other"},
         fileParser' = Feed(fileParser, line), ~fileParser'.invalid
  PROVE  OpenAt(o)' /\ Fields(o)' /\ Before(o)'
<1>1. PICK n \in Nat : n = Len(fed)
  BY DEF FileInv
<1>2. fed \in Seq(Text) /\ fileParser \in Parsers
  BY DEF FileInv
<1>3. OpenAt(o)' /\ Len(fed') = n + 1
  BY <1>1, <1>2, Joins
<1>4. /\ \A kind : Seen(o, kind)' <=> Seen(o, kind) \/ line.kind = kind
      /\ (\E k \in o..Len(fed) : Relevant(fed[k]))' <=>
           (\E k \in o..Len(fed) : Relevant(fed[k])) \/ Relevant(line)
      /\ (\A k \in o..Len(fed) : fed[k].kind = "processor" => fed[k].ok)' <=>
           \A k \in o..Len(fed) : fed[k].kind = "processor" => fed[k].ok
  BY <1>1, <1>2, JoinedSeen, SMTT(40)
<1>5. /\ \A kind, limit, v : line.kind # kind =>
           (Holds(o..(n + 1), kind, limit, v)' <=> Holds(o..n, kind, limit, v))
      /\ \A kind, limit, v : line.kind = kind =>
           (Holds(o..(n + 1), kind, limit, v)' <=>
              line.ok /\ line.value = v /\ v <= limit /\ ~Seen(o, kind))
  BY <1>1, <1>2, JoinedSeen
<1>6. /\ line.kind = "implementer" =>
           /\ Feed(fileParser, line) =
                Start([fileParser EXCEPT !.implementer = line.value,
                                         !.have = @ \cup {"implementer"}])
           /\ line.ok /\ "implementer" \notin fileParser.have
           /\ line.value <= MaxImplementer
      /\ line.kind = "part" =>
           /\ Feed(fileParser, line) =
                Start([fileParser EXCEPT !.part = line.value,
                                         !.have = @ \cup {"part"}])
           /\ line.ok /\ "part" \notin fileParser.have /\ line.value <= MaxPart
      /\ line.kind = "other" => Feed(fileParser, line) = fileParser
  <2>1. Invalid(fileParser).invalid
    BY <1>2 DEF Invalid, Parsers
  <2>2. ASSUME line.kind = "implementer"
        PROVE  line.ok /\ "implementer" \notin fileParser.have
               /\ ~(line.value > MaxImplementer)
    <3>1. Feed(fileParser, line) = FeedImplementer(fileParser, line)
      BY <2>2, FeedCases
    <3> QED
      BY <2>1, <3>1 DEF FeedImplementer
  <2>3. ASSUME line.kind = "part"
        PROVE  line.ok /\ "part" \notin fileParser.have /\ ~(line.value > MaxPart)
    <3>1. Feed(fileParser, line) = FeedPart(fileParser, line)
      BY <2>3, FeedCases
    <3> QED
      BY <2>1, <3>1 DEF FeedPart
  <2>4. /\ ~(line.value > MaxImplementer) => line.value <= MaxImplementer
        /\ ~(line.value > MaxPart) => line.value <= MaxPart
    BY DEF LineOK, MaxImplementer, MaxPart
  <2>5. ~Feed(fileParser, line).invalid
    OBVIOUS
  <2> QED
    BY <1>2, <2>2, <2>3, <2>4, <2>5, ValidFeed
<1>7. CASE line.kind = "implementer"
  <2> DEFINE t == Start([fileParser EXCEPT !.implementer = line.value,
                                           !.have = @ \cup {"implementer"}])
  <2>1. fileParser' = t
    BY <1>6, <1>7
  <2>2. /\ t.started /\ t.found = fileParser.found
        /\ t.selected = fileParser.selected
        /\ t.have = fileParser.have \cup {"implementer"}
        /\ t.implementer = line.value /\ t.part = fileParser.part
    BY <1>2 DEF Start, Parsers
  <2> HIDE DEF t
  <2>3. Before(o)'
    BY <1>1, <1>2, <1>7, <2>1, <2>2, JoinedBefore
  <2>4. fileParser'.started <=> (\E k \in o..Len(fed) : Relevant(fed[k]))'
    BY <1>4, <1>7, <2>1, <2>2 DEF Relevant
  <2>5. /\ "implementer" \in fileParser'.have /\ Seen(o, "implementer")'
        /\ "part" \in fileParser'.have <=> Seen(o, "part")'
        /\ "part" \in fileParser'.have => "part" \in fileParser.have
    BY <1>4, <1>7, <2>1, <2>2 DEF Fields
  <2>6. PICK v, w : v = fileParser.part /\ w = line.value
    OBVIOUS
  <2>7. Holds(o..(n + 1), "implementer", MaxImplementer, w)'
    <3>1. w <= MaxImplementer /\ line.ok /\ ~Seen(o, "implementer")
      BY <1>6, <1>7, <2>6 DEF Fields
    <3> QED
      BY <1>5, <1>7, <2>6, <3>1
  <2>8. "part" \in fileParser'.have => Holds(o..(n + 1), "part", MaxPart, v)'
    <3>1. "part" \in fileParser.have => Holds(o..n, "part", MaxPart, v)
      BY <1>1, <2>6 DEF Fields
    <3> QED
      BY <1>5, <1>7, <2>5, <3>1
  <2>9. (\A k \in o..Len(fed) : fed[k].kind = "processor" => fed[k].ok)'
    BY <1>4 DEF Fields
  <2>10. fileParser'.implementer = w /\ fileParser'.part = v
    BY <2>1, <2>2, <2>6
  <2>11. Fields(o)'
    BY <1>3, <2>4, <2>5, <2>7, <2>8, <2>9, <2>10 DEF Fields
  <2> QED
    BY <1>3, <2>3, <2>11
<1>8. CASE line.kind = "part"
  <2> DEFINE t == Start([fileParser EXCEPT !.part = line.value,
                                           !.have = @ \cup {"part"}])
  <2>1. fileParser' = t
    BY <1>6, <1>8
  <2>2. /\ t.started /\ t.found = fileParser.found
        /\ t.selected = fileParser.selected
        /\ t.have = fileParser.have \cup {"part"}
        /\ t.part = line.value /\ t.implementer = fileParser.implementer
    BY <1>2 DEF Start, Parsers
  <2> HIDE DEF t
  <2>3. Before(o)'
    BY <1>1, <1>2, <1>8, <2>1, <2>2, JoinedBefore
  <2>4. fileParser'.started <=> (\E k \in o..Len(fed) : Relevant(fed[k]))'
    BY <1>4, <1>8, <2>1, <2>2 DEF Relevant
  <2>5. /\ "part" \in fileParser'.have /\ Seen(o, "part")'
        /\ "implementer" \in fileParser'.have <=> Seen(o, "implementer")'
        /\ "implementer" \in fileParser'.have => "implementer" \in fileParser.have
    BY <1>4, <1>8, <2>1, <2>2 DEF Fields
  <2>6. PICK v, w : v = fileParser.implementer /\ w = line.value
    OBVIOUS
  <2>7. Holds(o..(n + 1), "part", MaxPart, w)'
    <3>1. w <= MaxPart /\ line.ok /\ ~Seen(o, "part")
      BY <1>6, <1>8, <2>6 DEF Fields
    <3> QED
      BY <1>5, <1>8, <2>6, <3>1
  <2>8. "implementer" \in fileParser'.have => Holds(o..(n + 1), "implementer", MaxImplementer, v)'
    <3>1. "implementer" \in fileParser.have => Holds(o..n, "implementer", MaxImplementer, v)
      BY <1>1, <2>6 DEF Fields
    <3> QED
      BY <1>5, <1>8, <2>5, <3>1
  <2>9. (\A k \in o..Len(fed) : fed[k].kind = "processor" => fed[k].ok)'
    BY <1>4 DEF Fields
  <2>10. fileParser'.part = w /\ fileParser'.implementer = v
    BY <2>1, <2>2, <2>6
  <2>11. Fields(o)'
    BY <1>3, <2>4, <2>5, <2>7, <2>8, <2>9, <2>10 DEF Fields
  <2> QED
    BY <1>3, <2>3, <2>11
<1>9. CASE line.kind = "other"
  <2>1. fileParser' = fileParser
    BY <1>6, <1>9
  <2>2. Before(o)'
    BY <1>1, <1>2, <1>9, <2>1, JoinedBefore
  <2>3. /\ fileParser'.started <=> (\E k \in o..Len(fed) : Relevant(fed[k]))'
        /\ "implementer" \in fileParser'.have <=> Seen(o, "implementer")'
        /\ "part" \in fileParser'.have <=> Seen(o, "part")'
        /\ (\A k \in o..Len(fed) : fed[k].kind = "processor" => fed[k].ok)'
    BY <1>4, <1>9, <2>1 DEF Fields, Relevant
  <2>4. PICK v, w : v = fileParser.implementer /\ w = fileParser.part
    OBVIOUS
  <2>5. /\ "implementer" \in fileParser.have =>
             Holds(o..n, "implementer", MaxImplementer, v)
        /\ "part" \in fileParser.have => Holds(o..n, "part", MaxPart, w)
    BY <1>1, <2>4 DEF Fields
  <2>6. /\ "implementer" \in fileParser'.have =>
             Holds(o..(n + 1), "implementer", MaxImplementer, v)'
        /\ "part" \in fileParser'.have => Holds(o..(n + 1), "part", MaxPart, w)'
    BY <1>5, <1>9, <2>1, <2>5
  <2>7. fileParser'.implementer = v /\ fileParser'.part = w
    BY <2>1, <2>4
  <2>8. Fields(o)'
    BY <1>3, <2>3, <2>6, <2>7 DEF Fields
  <2> QED
    BY <1>3, <2>2, <2>8
<1> QED
  BY <1>7, <1>8, <1>9

-----------------------------------------------------------------------------
(* The invariant of the file.                                              *)

\* A processor line that is not well formed spoils the record it begins.
LEMMA SpoiltProcessor ==
  ASSUME fed \in Seq(Text), NEW line, Appends(line), NEW n \in Nat, n = Len(fed),
         NEW o \in Nat, OpenAt(o), line.kind = "processor", ~line.ok
  PROVE  Unnamed'
<1>0. PICK m \in Nat : m = n + 1
  OBVIOUS
<1>1. Section(m, m)'
  BY <1>0, NewSection
<1>2. fed'[m] = line /\ m \in m..m
  BY <1>0, Appended
<1>3. Record(m, m)'
  BY <1>1, <1>2 DEF Record, Relevant
<1>4. \A q : ~NamedBy(m..m, q)'
  BY <1>2 DEF NamedBy, IsCore
<1> QED
  BY <1>3, <1>4 DEF Unnamed

LEMMA FileInvInit == FileInit => FileInv
<1> SUFFICES ASSUME FileInit
             PROVE  FileInv
  OBVIOUS
<1>1. fed = <<>> /\ fed \in Seq(Text) /\ Len(fed) = 0 /\ 1..Len(fed) = {}
  BY DEF FileInit
<1>2. /\ fileParser \in Parsers /\ ~fileParser.invalid /\ ~fileParser.started
      /\ fileParser.have = {} /\ ~fileParser.found
  BY NewParserType DEF FileInit, NewParser
<1>3. OpenAt(1) /\ Fields(1) /\ Before(1)
  <2>1. OpenAt(1)
    BY <1>1 DEF OpenAt
  <2>2. Fields(1)
    BY <1>1, <1>2 DEF Fields, Seen
  <2>3. Before(1)
    BY <1>1, <1>2 DEF Before, Record, Section
  <2> QED
    BY <2>1, <2>2, <2>3
<1> QED
  BY <1>1, <1>2, <1>3 DEF FileInv

\* One line keeps the invariant.
LEMMA FileInvNext == FileInv /\ FileNext => FileInv'
<1> SUFFICES ASSUME FileInv, FileNext
             PROVE  FileInv'
  OBVIOUS
<1>1. PICK line \in Text : /\ fileParser' = Feed(fileParser, line)
                           /\ fed' = Append(fed, line)
  BY DEF FileNext
<1>2. PICK n \in Nat : n = Len(fed)
  BY DEF FileInv
<1>3. /\ fed \in Seq(Text) /\ fileParser \in Parsers /\ ~fileParser.invalid
      /\ LineOK(line) /\ Appends(line)
  BY <1>1, TextAssumption DEF FileInv, FileNext, Appends
<1>4. PICK o \in Nat : OpenAt(o) /\ Fields(o) /\ Before(o)
  BY <1>3 DEF FileInv
<1>5. fed' \in Seq(Text) /\ fileParser' \in Parsers
  BY <1>1, <1>3, Appended, FeedType
<1>6. /\ fileParser'.invalid => Unnamed'
      /\ ~fileParser'.invalid => \E m \in Nat : OpenAt(m)' /\ Fields(m)' /\ Before(m)'
  <2>1. CASE line.kind \in {"blank", "processor"} /\ FinishRecord(fileParser).invalid
    <3>1. Unnamed
      BY <1>3, <1>4, <2>1, Closing
    <3>2. Unnamed'
      BY <1>2, <1>3, <2>1, <3>1, CutKeeps
    <3>3. fileParser'.invalid
      <4>1. CASE line.kind = "blank"
        BY <1>1, <1>3, <2>1, <4>1, FeedCases
      <4>2. CASE line.kind = "processor"
        <5>1. Invalid(fileParser).invalid
          BY <1>3 DEF Invalid, Parsers
        <5>2. fileParser' = FeedProcessor(fileParser, line)
          BY <1>1, <1>3, <4>2, FeedCases
        <5> QED
          BY <2>1, <5>1, <5>2 DEF FeedProcessor
      <4> QED
        BY <2>1, <4>1, <4>2
    <3> QED
      BY <3>2, <3>3
  <2>2. CASE line.kind = "processor" /\ ~line.ok
    <3>1. Unnamed'
      BY <1>2, <1>3, <1>4, <2>2, SpoiltProcessor
    <3>2. Invalid(fileParser).invalid
      BY <1>3 DEF Invalid, Parsers
    <3>3. fileParser'.invalid
      BY <1>1, <1>3, <2>2, <3>2, FeedCases DEF FeedProcessor
    <3> QED
      BY <3>1, <3>3
  <2>3. CASE /\ line.kind \in {"blank", "processor"}
             /\ line.kind = "processor" => line.ok
             /\ ~FinishRecord(fileParser).invalid
    <3>1. fileParser' = IF line.kind = "blank" THEN FinishRecord(fileParser)
                        ELSE Start(FinishRecord(fileParser))
      <4>1. CASE line.kind = "blank"
        BY <1>1, <1>3, <4>1, FeedCases
      <4>2. CASE line.kind = "processor"
        <5>1. fileParser' = FeedProcessor(fileParser, line)
          BY <1>1, <1>3, <4>2, FeedCases
        <5> QED
          BY <2>3, <4>2, <5>1 DEF FeedProcessor
      <4> QED
        BY <2>3, <4>1, <4>2
    <3>2. \E m \in Nat : OpenAt(m)' /\ Fields(m)' /\ Before(m)'
      BY <1>2, <1>3, <2>3, <3>1, CutFollows
    <3>3. ~fileParser'.invalid
      <4>1. FinishRecord(fileParser) \in Parsers
        BY <1>3, FinishRecordType
      <4>2. ~Start(FinishRecord(fileParser)).invalid
        BY <2>3, <4>1 DEF Start, Parsers
      <4> QED
        BY <2>3, <3>1, <4>2
    <3> QED
      BY <3>2, <3>3
  <2>4. CASE line.kind \in {"implementer", "part", "other"} /\ ~fileParser'.invalid
    <3>1. OpenAt(o)' /\ Fields(o)' /\ Before(o)'
      BY <1>1, <1>3, <1>4, <2>4, JoinFollows
    <3> QED
      BY <2>4, <3>1
  <2>5. CASE line.kind \in {"implementer", "part", "other"} /\ fileParser'.invalid
    <3>1. /\ "implementer" \in fileParser.have <=> Seen(o, "implementer")
          /\ "part" \in fileParser.have <=> Seen(o, "part")
      BY <1>4 DEF Fields
    <3>2. /\ line.value > MaxImplementer => ~(line.value <= MaxImplementer)
          /\ line.value > MaxPart => ~(line.value <= MaxPart)
      BY <1>3 DEF LineOK, MaxImplementer, MaxPart
    <3>3. CASE line.kind = "implementer"
      <4>1. fileParser' = FeedImplementer(fileParser, line)
        BY <1>1, <1>3, <3>3, FeedCases
      <4>2. ~line.ok \/ Seen(o, "implementer") \/ ~(line.value <= MaxImplementer)
        <5> SUFFICES ASSUME line.ok, ~Seen(o, "implementer"),
                            ~(line.value > MaxImplementer)
                     PROVE  FALSE
          BY <3>2
        <5>1. fileParser' =
                Start([fileParser EXCEPT !.implementer = line.value,
                                         !.have = @ \cup {"implementer"}])
          BY <3>1, <4>1 DEF FeedImplementer
        <5> QED
          BY <1>3, <2>5, <5>1 DEF Start, Parsers
      <4> QED
        BY <1>2, <1>3, <1>4, <2>5, <3>3, <4>2, SpoiltRecord
    <3>4. CASE line.kind = "part"
      <4>1. fileParser' = FeedPart(fileParser, line)
        BY <1>1, <1>3, <3>4, FeedCases
      <4>2. ~line.ok \/ Seen(o, "part") \/ ~(line.value <= MaxPart)
        <5> SUFFICES ASSUME line.ok, ~Seen(o, "part"), ~(line.value > MaxPart)
                     PROVE  FALSE
          BY <3>2
        <5>1. fileParser' =
                Start([fileParser EXCEPT !.part = line.value,
                                         !.have = @ \cup {"part"}])
          BY <3>1, <4>1 DEF FeedPart
        <5> QED
          BY <1>3, <2>5, <5>1 DEF Start, Parsers
      <4> QED
        BY <1>2, <1>3, <1>4, <2>5, <3>4, <4>2, SpoiltRecord
    <3>5. CASE line.kind = "other"
      BY <1>1, <1>3, <2>5, <3>5, FeedCases
    <3> QED
      BY <2>5, <3>3, <3>4, <3>5
  <2>6. line.kind \in Kinds
    BY <1>3 DEF LineOK
  <2> QED
    BY <2>1, <2>2, <2>3, <2>4, <2>5, <2>6 DEF Kinds
<1> QED
  BY <1>5, <1>6 DEF FileInv

\* Whatever lines are fed, in whatever order and number, the answer of
\* cdisasm_internal_arm_cpuinfo_finish is the profile that every record of the
\* file names, and UNKNOWN where there is none or they differ.
THEOREM ParserSaysWhatFileSays == FileSpec => []AnswersWhatFileSays
<1>1. FileInit => FileInv
  BY FileInvInit
<1>2. FileInv /\ [FileNext]_fileVars => FileInv'
  <2>1. FileInv /\ FileNext => FileInv'
    BY FileInvNext
  <2>2. FileInv /\ UNCHANGED fileVars => FileInv'
    <3> SUFFICES ASSUME FileInv, fed' = fed, fileParser' = fileParser
                 PROVE  FileInv'
      BY DEF fileVars
    <3>1. \A i, j : Section(i, j)' <=> Section(i, j)
      BY DEF Section, Begins, Cut
    <3>2. \A i, j : Record(i, j)' <=> Record(i, j)
      BY <3>1 DEF Record
    <3>3. \A r, kind, limit, v :
            Holds(r, kind, limit, v)' <=> Holds(r, kind, limit, v)
      BY DEF Holds
    <3>4. \A r, i, p : IsCore(r, i, p)' <=> IsCore(r, i, p)
      BY <3>3 DEF IsCore
    <3>5. \A r, q : NamedBy(r, q)' <=> NamedBy(r, q)
      BY <3>4 DEF NamedBy
    <3>6. Unnamed' <=> Unnamed
      BY <3>2, <3>5 DEF Unnamed
    <3>7. \A o : /\ OpenAt(o)' <=> OpenAt(o)
                 /\ Before(o)' <=> Before(o)
                 /\ Fields(o)' <=> Fields(o)
      <4> TAKE o
      <4>1. OpenAt(o)' <=> OpenAt(o)
        BY <3>1 DEF OpenAt
      <4>2. Before(o)' <=> Before(o)
        BY <3>2, <3>5 DEF Before
      <4>3. \A kind : Seen(o, kind)' <=> Seen(o, kind)
        BY DEF Seen
      <4>4. Fields(o)' <=> Fields(o)
        BY <4>3 DEF Fields, Holds
      <4> QED
        BY <4>1, <4>2, <4>4
    <3> QED
      BY <3>6, <3>7 DEF FileInv
  <2> QED
    BY <2>1, <2>2
<1>3. FileInv => AnswersWhatFileSays
  BY SaysWhatFileSays
<1> QED
  BY <1>1, <1>2, <1>3, PTL DEF FileSpec


-----------------------------------------------------------------------------
(* The inductive invariant.                                                *)

\* CPU c has been merged into what the scan, or the parser s, found.
Merged(c) == found /\ selected = Profile(core[c])
Parsed(s, c) == s.found /\ s.selected = Profile(core[c])

\* The scan has dealt with every steady CPU it has passed, but for the one it
\* is at: merged it, or noted that it could not.
ScanInv ==
  /\ pc = "opendir" => left = Cpus
  /\ pc \in {"opendir", "readdir", "online", "midr"} =>
       \A c \in steady \ left :
         \/ pc \in {"online", "midr"} /\ c = cpu
         \/ incomplete
         \/ Merged(c)

\* The steady CPUs whose processor line has been read.
Begun == {c \in steady \ left : ~(pc = "lines" /\ pos = 0 /\ c = cpu)}

\* An open record holds the fields of one CPU, of the one being read if its
\* processor line was; all others have been parsed.
OpenRecord ==
  \E o \in Cpus :
    /\ pc = "lines" /\ pos > 0 => o = cpu
    /\ "implementer" \in parser.have => parser.implementer = core[o][1]
    /\ "part" \in parser.have => parser.part = core[o][2]
    /\ \A c \in Begun : c = o \/ Parsed(parser, c)

ParseInv ==
  pc \in {"next", "lines"} =>
    /\ ~parser.invalid
    /\ parser.started => OpenRecord
    /\ ~parser.started =>
         parser.have = {} /\ \A c \in Begun : Parsed(parser, c)

IInv == TypeOK /\ steady \subseteq online /\ ScanInv /\ ParseInv /\ NamedIsShared

-----------------------------------------------------------------------------
(* Types.                                                                  *)

\* The lines of a CPU are lines the parser understands.
LEMMA LineOfOK ==
  ASSUME TypeOK, NEW n \in DOMAIN layout, NEW c \in Cpus
  PROVE  /\ LineOK(LineOf(layout[n], c))
         /\ LineOf(layout[n], c).kind = layout[n].kind
         /\ layout[n].kind = "implementer" =>
              LineOf(layout[n], c).value = core[c][1]
         /\ layout[n].kind = "part" => LineOf(layout[n], c).value = core[c][2]
<1> DEFINE slot == layout[n]
           value == CASE slot.kind = "implementer" -> core[c][1]
                       [] slot.kind = "part" -> core[c][2]
                       [] OTHER -> 0
<1>1. slot \in Slots
  BY LayoutAssumption DEF TypeOK
<1>2. core[c][1] \in Nat /\ core[c][2] \in Nat
  BY DetectionAssumption DEF TypeOK
<1>3. /\ slot.kind = "implementer" => value = core[c][1]
      /\ slot.kind = "part" => value = core[c][2]
      /\ value \in {core[c][1], core[c][2], 0}
  BY Zenon
<1> HIDE DEF value
<1>4. LineOf(slot, c) = [kind |-> slot.kind, ok |-> TRUE, long |-> slot.long,
                         value |-> value]
  BY Zenon DEF LineOf, value
<1> QED BY <1>1, <1>2, <1>3, <1>4 DEF LineOK, Slots

LEMMA TypeInitially == Init => TypeOK
<1> SUFFICES ASSUME Init
             PROVE  TypeOK
  OBVIOUS
<1>1. /\ core \in [Cpus -> Cores] /\ layout \in Layouts /\ midrs \in BOOLEAN
      /\ online \subseteq Cpus /\ steady \subseteq Cpus /\ left \subseteq Cpus
  BY DEF Init
<1>2. parser \in Parsers
  BY NewParserType DEF Init
<1> QED BY <1>1, <1>2 DEF Init, TypeOK, Labels

LEMMA FinishType ==
  ASSUME NEW s \in Parsers
  PROVE  Finish(s) \in Profiles \cup {Unknown}
  BY FinishRecordType DEF Finish, Parsers

LEMMA TypeKept == TypeOK /\ [Next]_vars => TypeOK'
<1> SUFFICES ASSUME TypeOK, [Next]_vars
             PROVE  TypeOK'
  OBVIOUS
<1> USE DEF TypeOK, Labels, machine, locals, history, Answer, Goto
<1>1. CASE Hotplug
  BY <1>1, ZenonT(60) DEF Hotplug, TakeOffline, BringOnline
<1>2. CASE OpenDirectory
  BY <1>2 DEF OpenDirectory
<1>3. CASE ReadEntry
  BY <1>3 DEF ReadEntry
<1>4. CASE ReadEntryFails
  BY <1>4 DEF ReadEntryFails, Unknown
<1>5. CASE ReadOnline
  BY <1>5 DEF ReadOnline
<1>6. CASE OpenMidrFails
  BY <1>6 DEF OpenMidrFails
<1>7. CASE ReadMidrFails
  BY <1>7 DEF ReadMidrFails, Unknown
<1>8. CASE ReadMidr
  <2>1. Profile(core[cpu]) \in Profiles \cup {Unknown}
    BY ProfileType
  <2> QED BY <1>8, <2>1 DEF ReadMidr, Unknown
<1>9. CASE EndOfDirectory
  BY <1>9, UnknownUnnamed DEF EndOfDirectory
<1>10. CASE OpenCpuinfo
  BY <1>10, NewParserType DEF OpenCpuinfo
<1>11. CASE CpuinfoFails
  BY <1>11 DEF CpuinfoFails, Unknown
<1>12. CASE NextCpu
  BY <1>12 DEF NextCpu
<1>13. CASE ReadLine
  <2> DEFINE line == LineOf(layout[pos + 1], cpu)
  <2>1. LineOK(line)
    BY <1>13, LineOfOK DEF ReadLine
  <2> HIDE DEF line
  <2>2. CASE \/ line.long /\ Relevant(line)
             \/ ~line.long /\ Feed(parser, line).invalid
    BY <1>13, <2>2, UnknownUnnamed DEF ReadLine, line
  <2>3. CASE line.long /\ ~Relevant(line)
    BY <1>13, <2>3 DEF ReadLine, line
  <2>4. CASE ~line.long /\ ~Feed(parser, line).invalid
    <3>1. parser' = Feed(parser, line)
      BY <1>13, <2>4 DEF ReadLine, line
    <3>2. ~parser.invalid
      BY <2>4, Zenon DEF Feed
    <3>3. parser' \in Parsers
      BY <3>1, <3>2, <2>1, FeedType
    <3> QED BY <1>13, <2>4, <3>3 DEF ReadLine, line
  <2> QED BY Zenon, <2>2, <2>3, <2>4
<1>14. CASE EndOfLines
  BY <1>14 DEF EndOfLines
<1>15. CASE EndOfCpuinfo
  BY <1>15, FinishType, UnknownUnnamed DEF EndOfCpuinfo
<1>16. CASE UNCHANGED vars
  BY <1>16 DEF vars
<1> QED
  BY <1>1, <1>2, <1>3, <1>4, <1>5, <1>6, <1>7, <1>8, <1>9, <1>10, <1>11,
     <1>12, <1>13, <1>14, <1>15, <1>16 DEF Next, CallStep, Failure

\* Every variable keeps its type, and the call has an answer exactly when it
\* is over.
THEOREM DetectionTypes == Spec => []TypeOK
<1>1. Init => TypeOK
  BY TypeInitially
<1>2. TypeOK /\ [Next]_vars => TypeOK'
  BY TypeKept
<1> QED BY <1>1, <1>2, PTL DEF Spec

-----------------------------------------------------------------------------
(* The scan.                                                               *)

LEMMA InvInitially == Init => IInv
<1> SUFFICES ASSUME Init
             PROVE  IInv
  OBVIOUS
<1>1. TypeOK
  BY TypeInitially
<1>2. ScanInv /\ ParseInv
  BY <1>1 DEF Init, ScanInv, ParseInv, TypeOK
<1>3. NamedIsShared /\ steady \subseteq online
  BY UnknownUnnamed DEF Init, NamedIsShared
<1> QED BY <1>1, <1>2, <1>3 DEF IInv

\* CPUs that go offline are no longer steady; nothing else changes for the
\* others.
LEMMA HotplugKeeps ==
  ASSUME IInv, Hotplug
  PROVE  steady' \subseteq online' /\ ScanInv' /\ ParseInv' /\ NamedIsShared'
<1>1. /\ steady' \subseteq steady
      /\ steady' \subseteq online'
      /\ UNCHANGED <<core, layout, pc, left, cpu, pos, selected, found,
                     incomplete, parser, result>>
  BY DEF Hotplug, TakeOffline, BringOnline, IInv, machine, locals
<1>2. ScanInv'
  BY <1>1 DEF IInv, ScanInv, Merged
<1>3. ParseInv'
  <2>1. Begun' \subseteq Begun
    BY <1>1 DEF Begun
  <2>2. OpenRecord => OpenRecord'
    BY <1>1, <2>1 DEF OpenRecord, Parsed
  <2> QED BY <1>1, <2>1, <2>2 DEF IInv, ParseInv, Parsed
<1>4. NamedIsShared'
  BY <1>1 DEF IInv, NamedIsShared
<1> QED BY <1>1, <1>2, <1>3, <1>4

\* One file of one CPU after the other.
LEMMA ScanKeeps ==
  ASSUME IInv,
         \/ OpenDirectory \/ ReadEntry \/ ReadOnline \/ OpenMidrFails
         \/ ReadMidr \/ EndOfDirectory \/ OpenCpuinfo
  PROVE  steady' \subseteq online' /\ ScanInv' /\ ParseInv' /\ NamedIsShared'
<1> USE DEF machine, locals, Answer, Goto
<1>1. CASE OpenDirectory
  BY <1>1 DEF OpenDirectory, IInv, ScanInv, ParseInv, NamedIsShared, TypeOK
<1>2. CASE ReadEntry
  BY <1>2 DEF ReadEntry, IInv, ScanInv, ParseInv, NamedIsShared, Merged
<1>3. CASE ReadOnline
  BY <1>3 DEF ReadOnline, IInv, ScanInv, ParseInv, NamedIsShared, Merged
<1>4. CASE OpenMidrFails
  BY <1>4 DEF OpenMidrFails, IInv, ScanInv, ParseInv, NamedIsShared
<1>5. CASE ReadMidr
  <2> DEFINE candidate == Profile(core[cpu])
  <2>1. CASE candidate = Unknown \/ (found /\ selected # candidate)
    BY <1>5, <2>1, UnknownUnnamed
       DEF ReadMidr, IInv, ScanInv, ParseInv, NamedIsShared
  <2>2. CASE ~(candidate = Unknown \/ (found /\ selected # candidate))
    BY <1>5, <2>2, UnknownUnnamed
       DEF ReadMidr, IInv, ScanInv, ParseInv, NamedIsShared, Merged
  <2> QED BY <2>1, <2>2
<1>6. CASE EndOfDirectory
  <2>1. CASE evidence /\ found /\ ~incomplete
    BY <1>6, <2>1 DEF EndOfDirectory, IInv, ScanInv, ParseInv, NamedIsShared,
                      Merged
  <2>2. CASE evidence /\ ~(found /\ ~incomplete)
    BY <1>6, <2>2, UnknownUnnamed
       DEF EndOfDirectory, IInv, ScanInv, ParseInv, NamedIsShared
  <2>3. CASE ~evidence
    BY <1>6, <2>3 DEF EndOfDirectory, IInv, ScanInv, ParseInv, NamedIsShared
  <2> QED BY <2>1, <2>2, <2>3
<1>7. CASE OpenCpuinfo
  <2>1. Begun' = {}
    BY <1>7 DEF OpenCpuinfo, Begun, IInv, TypeOK
  <2>2. ~parser'.invalid /\ ~parser'.started /\ parser'.have = {}
    BY <1>7 DEF OpenCpuinfo, NewParser
  <2> QED BY <1>7, <2>1, <2>2 DEF OpenCpuinfo, IInv, ScanInv, ParseInv, NamedIsShared
<1> QED BY <1>1, <1>2, <1>3, <1>4, <1>5, <1>6, <1>7

\* A failure is answered with UNKNOWN.
LEMMA FailureKeeps ==
  ASSUME IInv, Failure
  PROVE  steady' \subseteq online' /\ ScanInv' /\ ParseInv' /\ NamedIsShared'
<1>1. pc' = "done" /\ result' = Unknown /\ UNCHANGED <<online, steady>>
  BY DEF Failure, ReadEntryFails, ReadMidrFails, CpuinfoFails, Answer
<1> QED BY <1>1, UnknownUnnamed DEF IInv, ScanInv, ParseInv, NamedIsShared

-----------------------------------------------------------------------------
(* The parse.                                                              *)

\* Once the open record is finished, every CPU begun has been parsed.
LEMMA ClosedRecord ==
  ASSUME IInv, pc \in {"next", "lines"}, ~FinishRecord(parser).invalid
  PROVE  /\ FinishRecord(parser) \in Parsers
         /\ FinishRecord(parser).have = {}
         /\ ~FinishRecord(parser).started
         /\ \A c \in Begun : Parsed(FinishRecord(parser), c)
<1> DEFINE t == FinishRecord(parser)
<1>1. parser \in Parsers /\ ~parser.invalid
  BY DEF IInv, TypeOK, ParseInv
<1>2. t \in Parsers
  BY <1>1, FinishRecordType
<1>3. CASE ~parser.started
  BY <1>1, <1>2, <1>3, FinishedRecord DEF IInv, ParseInv
<1>4. CASE parser.started
  <2>1. PICK o \in Cpus :
          /\ "implementer" \in parser.have => parser.implementer = core[o][1]
          /\ "part" \in parser.have => parser.part = core[o][2]
          /\ \A c \in Begun : c = o \/ Parsed(parser, c)
    BY <1>4 DEF IInv, ParseInv, OpenRecord
  <2>2. /\ parser.have = {"implementer", "part"}
        /\ t.found
        /\ t.selected = Profile(<<parser.implementer, parser.part>>)
        /\ parser.found => parser.selected = t.selected
        /\ t.have = {}
        /\ ~t.started
    BY <1>1, <1>4, FinishedRecord
  <2>3. core[o] = <<parser.implementer, parser.part>>
    <3>1. core[o] \in Nat \X Nat
      BY DetectionAssumption DEF IInv, TypeOK
    <3>2. core[o] = <<core[o][1], core[o][2]>>
      BY <3>1
    <3> QED BY <2>1, <2>2, <3>2
  <2> HIDE DEF t
  <2>4. \A c \in Begun : Parsed(t, c)
    BY <2>1, <2>2, <2>3 DEF Parsed
  <2> QED BY <1>2, <2>2, <2>4 DEF t
<1> QED BY <1>3, <1>4

\* A line read from a CPU, which the parser accepts.
LEMMA LineKeeps ==
  ASSUME IInv, pc = "lines", pos + 1 \in DOMAIN layout,
         pc' = "lines", pos' = pos + 1,
         UNCHANGED <<core, left, cpu, steady>>,
         ~Feed(parser, LineOf(layout[pos + 1], cpu)).invalid,
         parser' = Feed(parser, LineOf(layout[pos + 1], cpu))
  PROVE  ParseInv'
<1> DEFINE line == LineOf(layout[pos + 1], cpu)
<1>1. /\ parser \in Parsers
      /\ ~parser.invalid
      /\ cpu \in Cpus
      /\ pos \in Nat
      /\ pc = "lines"
  BY DEF IInv, TypeOK, ParseInv
<1>2. /\ LineOK(line)
      /\ line.kind = layout[pos + 1].kind
      /\ line.kind = "implementer" => line.value = core[cpu][1]
      /\ line.kind = "part" => line.value = core[cpu][2]
  BY <1>1, LineOfOK DEF IInv
<1>3. pos = 0 => line.kind = "processor"
  BY <1>1, <1>2, LayoutAssumption DEF IInv, TypeOK
<1> HIDE DEF line
<1>4. /\ ~Feed(parser, line).invalid
      /\ parser' = Feed(parser, line)
  BY DEF line
<1>5. /\ Begun' \subseteq Begun \cup {cpu}
      /\ pos > 0 => Begun' = Begun
      /\ \A c \in Begun : c \in Begun'
  BY <1>1 DEF Begun
<1>6. CASE line.kind = "processor"
  <2>1. ~FinishRecord(parser).invalid /\ parser' = Start(FinishRecord(parser))
    BY <1>1, <1>2, <1>4, <1>6, ValidFeed
  <2>2. /\ FinishRecord(parser) \in Parsers
        /\ FinishRecord(parser).have = {}
        /\ \A c \in Begun : Parsed(FinishRecord(parser), c)
    BY <1>1, <2>1, ClosedRecord
  <2>3. /\ parser'.started
        /\ parser'.have = {}
        /\ parser'.found = FinishRecord(parser).found
        /\ parser'.selected = FinishRecord(parser).selected
    BY <2>1, <2>2 DEF Start, Parsers
  <2>4. \A c \in Begun' : c = cpu \/ Parsed(parser, c)'
    BY <1>5, <2>2, <2>3 DEF Parsed
  <2>5. OpenRecord'
    BY <1>1, <2>3, <2>4 DEF OpenRecord
  <2> QED BY <1>4, <2>3, <2>5, SMTT(40) DEF ParseInv
<1>7. CASE line.kind = "blank"
  <2>1. ~FinishRecord(parser).invalid /\ parser' = FinishRecord(parser)
    BY <1>1, <1>2, <1>4, <1>7, ValidFeed
  <2>2. /\ parser'.have = {}
        /\ ~parser'.started
        /\ \A c \in Begun : Parsed(FinishRecord(parser), c)
    BY <1>1, <2>1, ClosedRecord
  <2>3. Begun' = Begun
    BY <1>1, <1>3, <1>5, <1>7
  <2>4. \A c \in Begun' : Parsed(parser, c)'
    BY <2>1, <2>2, <2>3 DEF Parsed
  <2> QED BY <1>4, <2>2, <2>4, SMTT(40) DEF ParseInv
<1>8. CASE line.kind \in {"implementer", "part"}
  <2>1. pos > 0 /\ Begun' = Begun
    BY <1>1, <1>3, <1>5, <1>8
  <2>2. /\ parser'.started
        /\ parser'.found = parser.found
        /\ parser'.selected = parser.selected
        /\ line.kind = "implementer" =>
             /\ parser'.have = parser.have \cup {"implementer"}
             /\ parser'.implementer = line.value
             /\ parser'.part = parser.part
        /\ line.kind = "part" =>
             /\ parser'.have = parser.have \cup {"part"}
             /\ parser'.part = line.value
             /\ parser'.implementer = parser.implementer
    <3>1. CASE line.kind = "implementer"
      <4>1. parser' = Start([parser EXCEPT !.implementer = line.value,
                                           !.have = @ \cup {"implementer"}])
        BY <1>1, <1>2, <1>4, <3>1, ValidFeed
      <4> QED BY <1>1, <3>1, <4>1, SMTT(40) DEF Start, Parsers
    <3>2. CASE line.kind = "part"
      <4>1. parser' = Start([parser EXCEPT !.part = line.value,
                                           !.have = @ \cup {"part"}])
        BY <1>1, <1>2, <1>4, <3>2, ValidFeed
      <4> QED BY <1>1, <3>2, <4>1, SMTT(40) DEF Start, Parsers
    <3> QED BY <1>8, <3>1, <3>2
  <2>3. /\ "implementer" \in parser.have => parser.implementer = core[cpu][1]
        /\ "part" \in parser.have => parser.part = core[cpu][2]
        /\ \A c \in Begun : c = cpu \/ Parsed(parser, c)
    BY <1>1, <2>1 DEF IInv, ParseInv, OpenRecord
  <2>4. /\ "implementer" \in parser'.have => parser'.implementer = core[cpu][1]
        /\ "part" \in parser'.have => parser'.part = core[cpu][2]
    BY <1>2, <1>8, <2>2, <2>3
  <2>5. \A c \in Begun' : c = cpu \/ Parsed(parser, c)'
    BY <2>1, <2>2, <2>3 DEF Parsed
  <2>6. OpenRecord'
    BY <1>1, <2>4, <2>5 DEF OpenRecord
  <2> QED BY <1>4, <2>2, <2>6 DEF ParseInv
<1>9. CASE line.kind = "other"
  <2>1. pos > 0 /\ Begun' = Begun
    BY <1>1, <1>3, <1>5, <1>9, SMTT(40)
  <2>2. parser' = parser
    BY <1>1, <1>2, <1>4, <1>9, ValidFeed
  <2> QED BY <1>1, <2>1, <2>2 DEF IInv, ParseInv, OpenRecord, Parsed
<1> QED BY <1>2, <1>6, <1>7, <1>8, <1>9 DEF LineOK, Kinds

LEMMA ReadLineKeeps ==
  ASSUME IInv, ReadLine
  PROVE  steady' \subseteq online' /\ ScanInv' /\ ParseInv' /\ NamedIsShared'
<1> DEFINE line == LineOf(layout[pos + 1], cpu)
<1>1. /\ pc = "lines"
      /\ pos + 1 \in DOMAIN layout
      /\ UNCHANGED <<core, layout, online, left, cpu, steady>>
  BY DEF ReadLine, Answer, Goto, machine
<1>2. CASE pc' = "done" /\ result' = Unknown
  BY <1>1, <1>2, UnknownUnnamed DEF IInv, ScanInv, ParseInv, NamedIsShared
<1>3. CASE /\ ~Feed(parser, line).invalid
           /\ parser' = Feed(parser, line)
           /\ pc' = "lines" /\ pos' = pos + 1 /\ result' = result
  <2>1. ParseInv'
    BY <1>1, <1>3, LineKeeps
  <2> QED BY <1>1, <1>3, <2>1 DEF IInv, ScanInv, NamedIsShared
<1>4. CASE /\ ~Relevant(line)
           /\ parser' = parser
           /\ pc' = "lines" /\ pos' = pos + 1 /\ result' = result
  <2>1. line.kind = layout[pos + 1].kind
    BY <1>1, LineOfOK DEF IInv, TypeOK
  <2>2. pos \in Nat /\ pos > 0
    BY <1>1, <1>4, <2>1, LayoutAssumption DEF IInv, TypeOK, Relevant
  <2>3. Begun' = Begun
    BY <1>1, <1>4, <2>2 DEF Begun
  <2> QED BY <1>1, <1>4, <2>2, <2>3
          DEF IInv, ScanInv, ParseInv, NamedIsShared, OpenRecord, Parsed
<1>5. \/ pc' = "done" /\ result' = Unknown
      \/ /\ ~Feed(parser, line).invalid
         /\ parser' = Feed(parser, line)
         /\ pc' = "lines" /\ pos' = pos + 1 /\ result' = result
      \/ /\ ~Relevant(line)
         /\ parser' = parser
         /\ pc' = "lines" /\ pos' = pos + 1 /\ result' = result
  BY DEF ReadLine, Answer, Goto
<1> QED BY <1>2, <1>3, <1>4, <1>5

\* The kernel moves on.
LEMMA NextCpuKeeps ==
  ASSUME IInv, NextCpu
  PROVE  steady' \subseteq online' /\ ScanInv' /\ ParseInv' /\ NamedIsShared'
<1>1. PICK c \in left :
        /\ left' = left \ {c}
        /\ IF c \in online
           THEN cpu' = c /\ pos' = 0 /\ pc' = "lines"
           ELSE UNCHANGED <<cpu, pos>> /\ pc' = "next"
  BY DEF NextCpu, Goto
<1>2. /\ pc = "next"
      /\ UNCHANGED <<core, layout, online, steady, parser, result>>
  BY DEF NextCpu, Goto, machine
<1>3. Begun' = Begun
  BY <1>1, <1>2 DEF Begun, IInv
<1>4. OpenRecord => OpenRecord'
  BY <1>1, <1>2, <1>3 DEF OpenRecord, Parsed
<1> QED BY <1>1, <1>2, <1>3, <1>4
        DEF IInv, ScanInv, ParseInv, NamedIsShared, Parsed

LEMMA EndKeeps ==
  ASSUME IInv, EndOfLines \/ EndOfCpuinfo
  PROVE  steady' \subseteq online' /\ ScanInv' /\ ParseInv' /\ NamedIsShared'
<1>1. CASE EndOfLines
  <2>1. /\ pc = "lines" /\ pc' = "next"
        /\ UNCHANGED <<core, layout, online, left, cpu, pos, parser, result, steady>>
    BY <1>1 DEF EndOfLines, Goto, machine
  <2>2. pos \in Nat /\ pos > 0
    BY <1>1, LayoutAssumption DEF EndOfLines, IInv, TypeOK
  <2>3. Begun' = Begun
    BY <2>1, <2>2 DEF Begun
  <2>4. OpenRecord => OpenRecord'
    BY <2>1, <2>3 DEF OpenRecord, Parsed
  <2> QED BY <2>1, <2>3, <2>4
          DEF IInv, ScanInv, ParseInv, NamedIsShared, Parsed
<1>2. CASE EndOfCpuinfo
  <2>1. /\ pc = "next" /\ pc' = "done" /\ left = {}
        /\ result' = Finish(parser)
        /\ UNCHANGED <<core, online, steady>>
    BY <1>2 DEF EndOfCpuinfo, Answer, machine
  <2>2. CASE FinishRecord(parser).invalid \/ ~FinishRecord(parser).found
                \/ parser.invalid
    BY <2>1, <2>2, UnknownUnnamed
       DEF Finish, IInv, ScanInv, ParseInv, NamedIsShared
  <2>3. CASE ~FinishRecord(parser).invalid /\ FinishRecord(parser).found
                /\ ~parser.invalid
    <3>1. \A c \in Begun : Parsed(FinishRecord(parser), c)
      BY <2>1, <2>3, ClosedRecord
    <3>2. Begun = steady
      BY <2>1 DEF Begun
    <3> QED BY <2>1, <2>3, <3>1, <3>2
            DEF Finish, IInv, ScanInv, ParseInv, NamedIsShared, Parsed
  <2> QED BY <2>2, <2>3
<1> QED BY <1>1, <1>2

-----------------------------------------------------------------------------

LEMMA InvKept == IInv /\ [Next]_vars => IInv'
<1> SUFFICES ASSUME IInv, [Next]_vars
             PROVE  IInv'
  OBVIOUS
<1>1. TypeOK'
  BY TypeKept DEF IInv
<1>2. CASE Next
  BY <1>1, <1>2, HotplugKeeps, ScanKeeps, FailureKeeps, ReadLineKeeps,
     NextCpuKeeps, EndKeeps DEF Next, CallStep, IInv
<1>3. CASE UNCHANGED vars
  BY <1>1, <1>3 DEF vars, machine, locals, history, IInv, ScanInv, ParseInv,
     NamedIsShared, OpenRecord, Begun, Merged, Parsed
<1> QED BY <1>2, <1>3

\* A named answer holds for every CPU that was online during the whole call,
\* for any machine and whatever fails or changes meanwhile.
THEOREM NamedAnswersAreShared == Spec => []NamedIsShared
<1>1. Init => IInv
  BY InvInitially
<1>2. IInv /\ [Next]_vars => IInv'
  BY InvKept
<1>3. IInv => NamedIsShared
  BY DEF IInv
<1> QED BY <1>1, <1>2, <1>3, PTL DEF Spec

-----------------------------------------------------------------------------
(* Nothing changes, nothing fails, the machine tells which processor it    *)
(* has, and q is the profile of all its CPUs.                              *)

Quiet(q) ==
  /\ calm
  /\ midrs \/ Describes(layout)
  /\ q \in Profiles
  /\ \A c \in online : Profile(core[c]) = q

\* The scan merges every CPU if there are MIDR files, and none if there are not.
QuietScan(q) ==
  /\ pc = "opendir" => ~found /\ ~evidence /\ ~incomplete /\ left = Cpus
  /\ pc \in {"readdir", "online", "midr"} =>
       /\ pc = "midr" => cpu \in online
       /\ midrs => ~incomplete
       /\ ~midrs => ~evidence
       /\ found => evidence /\ selected = q
       /\ midrs => \A c \in online \ left :
                     (pc \in {"online", "midr"} /\ c = cpu) \/ found

\* The CPUs whose lines have all been read.
Described == {c \in online \ left : ~(pc = "lines" /\ c = cpu)}

\* A line of this kind has been read from the CPU the parser is at.
HasRead(kind) == \E n \in 1..pos : layout[n].kind = kind

WholeRecord(q) ==
  /\ parser.have = {"implementer", "part"}
  /\ Profile(<<parser.implementer, parser.part>>) = q

\* Between two CPUs an open record is whole; within one it has the fields that
\* have been read, and is closed only when it has both.
QuietParse(q) ==
  pc \in {"cpuinfo", "next", "lines"} =>
    /\ ~midrs
    /\ pc # "cpuinfo" => ~parser.invalid /\ (parser.found => parser.selected = q)
    /\ pc = "lines" => cpu \in online
    /\ pc = "next" \/ (pc = "lines" /\ pos = 0) =>
         /\ IF parser.started THEN WholeRecord(q) ELSE parser.have = {}
         /\ Described # {} => parser.started \/ parser.found
    /\ pc = "lines" /\ pos > 0 =>
         IF parser.started
         THEN /\ "implementer" \in parser.have <=> HasRead("implementer")
              /\ "part" \in parser.have <=> HasRead("part")
              /\ "implementer" \in parser.have => parser.implementer = core[cpu][1]
              /\ "part" \in parser.have => parser.part = core[cpu][2]
         ELSE /\ parser.have = {} /\ parser.found
              /\ HasRead("implementer") /\ HasRead("part")

QuietInv(q) ==
  Quiet(q) =>
    /\ online # {}
    /\ QuietScan(q)
    /\ QuietParse(q)
    /\ pc = "done" => result = q

CalmInv == \A q \in Profiles : QuietInv(q)

\* A machine that is quiet after a step was so before it, and nothing moved.
LEMMA QuietBefore ==
  ASSUME [Next]_vars, NEW q, Quiet(q)'
  PROVE  /\ Quiet(q) /\ calm /\ calm'
         /\ UNCHANGED <<core, layout, midrs, online>>
<1>1. calm' => calm /\ UNCHANGED <<machine, online>>
  BY DEF Next, CallStep, Failure, Hotplug, OpenDirectory, ReadEntry,
         ReadEntryFails, ReadOnline, OpenMidrFails, ReadMidrFails, ReadMidr,
         EndOfDirectory, OpenCpuinfo, CpuinfoFails, NextCpu, ReadLine, EndOfLines,
         EndOfCpuinfo, Answer, Goto, vars, history
<1> QED
  BY <1>1 DEF Quiet, machine

\* The fields of a core the catalog names fit into the MIDR.
LEMMA NamedCoreFits ==
  ASSUME NEW k, Profile(k) \in Profiles
  PROVE  k[1] <= MaxImplementer /\ k[2] <= MaxPart
<1>1. PICK p \in DOMAIN CoresOf : k \in CoresOf[p]
  BY UnknownUnnamed DEF Profile
<1>2. \A name \in DOMAIN CoresOf : CoresOf[name] \subseteq (0..\hff) \X (0..\hfff)
  BY DEF CoresOf, Arm, Fujitsu, Apple
<1>3. k \in (0..\hff) \X (0..\hfff)
  BY <1>1, <1>2
<1> DEFINE implementer == k[1]
           part == k[2]
<1>4. implementer \in 0..\hff /\ part \in 0..\hfff
  BY <1>3
<1> HIDE DEF implementer, part
<1>5. implementer <= MaxImplementer /\ part <= MaxPart
  BY <1>4 DEF MaxImplementer, MaxPart
<1> QED
  BY <1>5 DEF implementer, part

LEMMA QuietInitially == Init => CalmInv
<1> SUFFICES ASSUME Init, NEW q \in Profiles
             PROVE  QuietInv(q)
  BY DEF CalmInv
<1>1. /\ pc = "opendir" /\ ~found /\ ~evidence /\ ~incomplete /\ left = Cpus
      /\ online # {}
  BY DEF Init
<1> QED
  BY <1>1 DEF QuietInv, QuietScan, QuietParse

-----------------------------------------------------------------------------
(* The quiet scan.                                                         *)

LEMMA QuietScanKept ==
  ASSUME IInv, NEW q \in Profiles, QuietInv(q), Quiet(q), calm', calm,
         UNCHANGED <<core, layout, midrs, online>>,
         \/ OpenDirectory \/ ReadEntry \/ ReadOnline \/ OpenMidrFails
         \/ ReadMidr \/ EndOfDirectory \/ OpenCpuinfo
  PROVE  QuietScan(q)' /\ QuietParse(q)' /\ (pc' = "done" => result' = q)
<1> USE DEF Answer, Goto, QuietScan, QuietParse
<1>1. QuietScan(q) /\ QuietParse(q) /\ online # {}
  BY DEF QuietInv
<1>2. left \subseteq Cpus /\ online \subseteq Cpus /\ midrs \in BOOLEAN
      /\ q # Unknown
  BY UnknownUnnamed DEF IInv, TypeOK
<1>3. CASE OpenDirectory
  BY <1>1, <1>2, <1>3 DEF OpenDirectory, locals
<1>4. CASE ReadEntry
  BY <1>1, <1>2, <1>4 DEF ReadEntry, locals
<1>5. CASE ReadOnline
  BY <1>1, <1>2, <1>5 DEF ReadOnline, locals
<1>6. CASE OpenMidrFails
  BY <1>1, <1>2, <1>6 DEF OpenMidrFails, locals
<1>7. CASE ReadMidr
  <2>1. Profile(core[cpu]) = q
    BY <1>1, <1>7 DEF ReadMidr, Quiet
  <2>2. /\ pc = "midr" /\ pc' = "readdir" /\ midrs /\ evidence'
        /\ selected' = q /\ found' /\ UNCHANGED <<left, cpu, incomplete>>
    BY <1>1, <1>2, <1>7, <2>1 DEF ReadMidr
  <2> QED
    BY <1>1, <2>2
<1>8. CASE EndOfDirectory
  <2>1. CASE midrs
    <3>1. found /\ evidence /\ selected = q /\ ~incomplete
      BY <1>1, <1>8, <2>1 DEF EndOfDirectory
    <3> QED
      BY <1>1, <1>8, <3>1 DEF EndOfDirectory
  <2>2. CASE ~midrs
    BY <1>1, <1>8, <2>2 DEF EndOfDirectory
  <2> QED
    BY <2>1, <2>2
<1>9. CASE OpenCpuinfo
  <2>1. /\ pc = "cpuinfo" /\ pc' = "next" /\ left' = Cpus
        /\ parser' = NewParser
    BY <1>9 DEF OpenCpuinfo
  <2>2. /\ ~parser'.invalid /\ ~parser'.found /\ ~parser'.started
        /\ parser'.have = {}
    BY <2>1 DEF NewParser
  <2>3. Described' = {}
    BY <1>2, <2>1 DEF Described
  <2> QED
    BY <1>1, <2>1, <2>2, <2>3
<1> QED
  BY <1>3, <1>4, <1>5, <1>6, <1>7, <1>8, <1>9

-----------------------------------------------------------------------------
(* The quiet parse.                                                        *)

\* The line the parser is at, where the lines describe the machine.
LEMMA DescribedLine ==
  ASSUME TypeOK, Describes(layout)
  PROVE  /\ pos + 1 \in DOMAIN layout =>
              LET slot == layout[pos + 1] IN
              /\ slot \in Slots
              /\ Relevant(slot) => ~slot.long
              /\ slot.kind = "processor" <=> pos = 0
              /\ slot.kind = "implementer" => ~HasRead("implementer")
              /\ slot.kind = "part" => ~HasRead("part")
              /\ slot.kind = "blank" => HasRead("implementer") /\ HasRead("part")
         /\ pos + 1 \notin DOMAIN layout =>
              HasRead("implementer") /\ HasRead("part") /\ pos > 0
<1>1. /\ layout \in Seq(Slots) \ {<<>>} /\ layout[1].kind = "processor"
      /\ pos \in Nat
  BY LayoutAssumption DEF TypeOK
<1>2. PICK i \in DOMAIN layout, p \in DOMAIN layout :
        /\ layout[i].kind = "implementer"
        /\ layout[p].kind = "part"
        /\ \A n \in DOMAIN layout :
             /\ Relevant(layout[n]) => ~layout[n].long
             /\ layout[n].kind = "processor" => n = 1
             /\ layout[n].kind = "implementer" => n = i
             /\ layout[n].kind = "part" => n = p
             /\ layout[n].kind = "blank" => n > i /\ n > p
  BY DEF Describes
<1>3. DOMAIN layout = 1..Len(layout) /\ Len(layout) \in Nat
  BY <1>1
<1>4. /\ i <= pos => HasRead("implementer")
      /\ p <= pos => HasRead("part")
  BY <1>1, <1>2, <1>3 DEF HasRead
<1>5. ASSUME pos + 1 \in DOMAIN layout
      PROVE  /\ pos + 1 = i => ~HasRead("implementer")
             /\ pos + 1 = p => ~HasRead("part")
  <2>1. \A n \in 1..pos : n \in DOMAIN layout /\ n # pos + 1
    BY <1>1, <1>3, <1>5
  <2> QED
    BY <1>2, <2>1 DEF HasRead
<1>6. pos + 1 \notin DOMAIN layout => i <= pos /\ p <= pos /\ pos > 0
  BY <1>1, <1>2, <1>3
<1>7. ASSUME pos + 1 \in DOMAIN layout, layout[pos + 1].kind = "blank"
      PROVE  i <= pos /\ p <= pos
  BY <1>1, <1>2, <1>3, <1>7
<1>8. ASSUME pos + 1 \in DOMAIN layout
      PROVE  layout[pos + 1].kind = "processor" <=> pos = 0
  BY <1>1, <1>2, <1>8
<1>9. pos + 1 \in DOMAIN layout => layout[pos + 1] \in Slots
  BY <1>1
<1> QED
  BY <1>2, <1>4, <1>5, <1>6, <1>7, <1>8, <1>9

\* One more line has been read.
LEMMA ReadOneMore ==
  ASSUME pos \in Nat, pos' = pos + 1, layout' = layout, NEW kind
  PROVE  HasRead(kind)' <=> HasRead(kind) \/ layout[pos + 1].kind = kind
<1>1. 1..pos' = 1..pos \cup {pos + 1}
  OBVIOUS
<1> QED
  BY <1>1 DEF HasRead

\* The fields of the CPU being read are a whole record.
LEMMA OwnRecord ==
  ASSUME IInv, NEW q \in Profiles, Quiet(q), cpu \in online,
         parser.have = {"implementer", "part"},
         parser.implementer = core[cpu][1], parser.part = core[cpu][2]
  PROVE  WholeRecord(q)
<1>1. core[cpu] \in Nat \X Nat
  BY DetectionAssumption DEF IInv, TypeOK
<1>2. core[cpu] = <<parser.implementer, parser.part>>
  BY <1>1
<1> QED
  BY <1>2 DEF Quiet, WholeRecord

\* A whole record is finished with its profile.
LEMMA WholeFinishes ==
  ASSUME IInv, NEW q \in Profiles, ~parser.invalid,
         parser.found => parser.selected = q,
         parser.started => WholeRecord(q)
  PROVE  /\ FinishRecord(parser) \in Parsers
         /\ ~FinishRecord(parser).invalid
         /\ ~FinishRecord(parser).started
         /\ ~parser.started => FinishRecord(parser) = parser
         /\ parser.started => /\ FinishRecord(parser).found
                              /\ FinishRecord(parser).selected = q
                              /\ FinishRecord(parser).have = {}
<1>1. parser \in Parsers
  BY DEF IInv, TypeOK
<1>2. FinishRecord(parser) \in Parsers
  BY <1>1, FinishRecordType
<1>3. CASE ~parser.started
  BY <1>2, <1>3 DEF FinishRecord
<1>4. CASE parser.started
  <2>1. FinishRecord(parser) =
          [NewParser EXCEPT !.selected = q, !.found = TRUE]
    BY <1>4, UnknownUnnamed DEF FinishRecord, WholeRecord
  <2> QED
    BY <1>2, <1>4, <2>1 DEF NewParser
<1> QED
  BY <1>1, <1>3, <1>4 DEF Parsers

\* What a quiet parse says within a CPU.
Within(q) ==
  /\ ~parser.invalid /\ (parser.found => parser.selected = q)
  /\ IF parser.started
     THEN /\ "implementer" \in parser.have <=> HasRead("implementer")
          /\ "part" \in parser.have <=> HasRead("part")
          /\ "implementer" \in parser.have => parser.implementer = core[cpu][1]
          /\ "part" \in parser.have => parser.part = core[cpu][2]
     ELSE /\ parser.have = {} /\ parser.found
          /\ HasRead("implementer") /\ HasRead("part")

\* A line of a quiet machine is accepted, or is too long and does not matter.
LEMMA QuietLine ==
  ASSUME IInv, NEW q \in Profiles, QuietInv(q), Quiet(q), pc = "lines",
         pos + 1 \in DOMAIN layout,
         UNCHANGED <<core, layout, cpu>>,
         NEW line, line = LineOf(layout[pos + 1], cpu)
  PROVE  /\ line.long => ~Relevant(line)
         /\ pos' = pos + 1 /\ line.long /\ parser' = parser => Within(q)'
         /\ ~line.long => ~Feed(parser, line).invalid
         /\ pos' = pos + 1 /\ ~line.long /\ parser' = Feed(parser, line) =>
              Within(q)'
<1>1. /\ ~parser.invalid /\ (parser.found => parser.selected = q)
      /\ cpu \in online /\ Describes(layout)
      /\ pos = 0 => IF parser.started THEN WholeRecord(q) ELSE parser.have = {}
      /\ pos > 0 => Within(q)
  BY DEF QuietInv, QuietParse, Within, Quiet
<1>2. /\ parser \in Parsers /\ cpu \in Cpus /\ pos \in Nat
      /\ core[cpu] \in Nat \X Nat
  BY DetectionAssumption DEF IInv, TypeOK
<1>3. /\ layout[pos + 1] \in Slots
      /\ Relevant(layout[pos + 1]) => ~layout[pos + 1].long
      /\ layout[pos + 1].kind = "processor" <=> pos = 0
      /\ layout[pos + 1].kind = "implementer" => ~HasRead("implementer")
      /\ layout[pos + 1].kind = "part" => ~HasRead("part")
      /\ layout[pos + 1].kind = "blank" =>
           HasRead("implementer") /\ HasRead("part")
  BY <1>1, DescribedLine DEF IInv
<1>4. /\ LineOK(line) /\ line.kind = layout[pos + 1].kind
      /\ line.long = layout[pos + 1].long /\ line.ok
      /\ line.kind = "implementer" => line.value = core[cpu][1]
      /\ line.kind = "part" => line.value = core[cpu][2]
  <2>1. /\ LineOK(line) /\ line.kind = layout[pos + 1].kind
        /\ line.kind = "implementer" => line.value = core[cpu][1]
        /\ line.kind = "part" => line.value = core[cpu][2]
    BY <1>2, LineOfOK DEF IInv
  <2>2. line.long = layout[pos + 1].long /\ line.ok
    BY Zenon DEF LineOf
  <2> QED
    BY <2>1, <2>2
<1>5. line.long => ~Relevant(line)
  BY <1>3, <1>4 DEF Relevant
<1>6. pos' = pos + 1 => \A kind : HasRead(kind)' <=> HasRead(kind) \/ line.kind = kind
  BY <1>2, <1>4, ReadOneMore
<1>7. core[cpu][1] <= MaxImplementer /\ core[cpu][2] <= MaxPart
  BY <1>1, NamedCoreFits DEF Quiet
<1>8. ASSUME parser.started, HasRead("implementer"), HasRead("part"), Within(q)
      PROVE  WholeRecord(q)
  <2>1. parser.have = {"implementer", "part"}
    BY <1>2, <1>8 DEF Within, Parsers
  <2> QED
    BY <1>1, <1>8, <2>1, OwnRecord DEF Within
<1>9. ASSUME line.kind \notin {"processor", "implementer", "part"},
             pos' = pos + 1, parser' = parser
      PROVE  Within(q)'
  <2>1. Within(q)
    BY <1>1, <1>2, <1>3, <1>4, <1>9
  <2>2. /\ HasRead("implementer")' <=> HasRead("implementer")
        /\ HasRead("part")' <=> HasRead("part")
    BY <1>6, <1>9
  <2> QED
    BY <1>9, <2>1, <2>2 DEF Within
<1>10. CASE line.kind = "other"
  <2>1. Feed(parser, line) = parser
    BY <1>1, <1>10, FeedCases
  <2> QED
    BY <1>1, <1>5, <1>9, <1>10, <2>1
<1>11. CASE line.kind = "blank"
  <2>1. Feed(parser, line) = FinishRecord(parser)
    BY <1>1, <1>11, FeedCases
  <2>2. Within(q) /\ HasRead("implementer") /\ HasRead("part")
    BY <1>1, <1>2, <1>3, <1>4, <1>11
  <2>3. parser.started => WholeRecord(q)
    BY <1>8, <2>2
  <2>4. /\ ~FinishRecord(parser).invalid
        /\ ~FinishRecord(parser).started
        /\ ~parser.started => FinishRecord(parser) = parser
        /\ parser.started => /\ FinishRecord(parser).found
                             /\ FinishRecord(parser).selected = q
                             /\ FinishRecord(parser).have = {}
    BY <1>1, <2>3, WholeFinishes
  <2>5. pos' = pos + 1 => HasRead("implementer")' /\ HasRead("part")'
    BY <1>6, <2>2
  <2>6. /\ FinishRecord(parser).found /\ FinishRecord(parser).have = {}
        /\ FinishRecord(parser).selected = q
    BY <2>2, <2>4 DEF Within
  <2>7. pos' = pos + 1 /\ parser' = FinishRecord(parser) => Within(q)'
    BY <2>4, <2>5, <2>6 DEF Within
  <2> QED
    BY <1>5, <1>9, <1>11, <2>1, <2>4, <2>7
<1>12. CASE line.kind = "processor"
  <2>1. pos = 0 /\ (parser.started => WholeRecord(q)) /\ ~line.long
    BY <1>1, <1>3, <1>4, <1>12 DEF Relevant
  <2>2. /\ FinishRecord(parser) \in Parsers
        /\ ~FinishRecord(parser).invalid
        /\ ~parser.started => FinishRecord(parser) = parser
        /\ parser.started => /\ FinishRecord(parser).found
                             /\ FinishRecord(parser).selected = q
                             /\ FinishRecord(parser).have = {}
    BY <1>1, <2>1, WholeFinishes
  <2>3. /\ FinishRecord(parser).have = {}
        /\ FinishRecord(parser).found => FinishRecord(parser).selected = q
    BY <1>1, <2>1, <2>2
  <2>4. Feed(parser, line) = Start(FinishRecord(parser))
    BY <1>1, <1>4, <1>12, <2>2, FeedCases DEF FeedProcessor
  <2>5. /\ ~Start(FinishRecord(parser)).invalid
        /\ Start(FinishRecord(parser)).started
        /\ Start(FinishRecord(parser)).have = {}
        /\ Start(FinishRecord(parser)).found =>
             Start(FinishRecord(parser)).selected = q
    BY <2>2, <2>3 DEF Start, Parsers
  <2>6. pos' = pos + 1 => ~HasRead("implementer")' /\ ~HasRead("part")'
    <3>1. ~HasRead("implementer") /\ ~HasRead("part")
      BY <2>1 DEF HasRead
    <3> QED
      BY <1>6, <1>12, <3>1
  <2>7. pos' = pos + 1 /\ parser' = Start(FinishRecord(parser)) => Within(q)'
    BY <2>5, <2>6 DEF Within
  <2> QED
    BY <2>1, <2>4, <2>5, <2>7
<1>13. CASE line.kind \in {"implementer", "part"}
  <2>1. ~line.long /\ Within(q)
    BY <1>1, <1>2, <1>3, <1>4, <1>13 DEF Relevant
  <2>2. parser.started /\ line.kind \notin parser.have
    BY <1>3, <1>4, <1>13, <2>1 DEF Within
  <2>3. CASE line.kind = "implementer"
    <3> DEFINE t == Start([parser EXCEPT !.implementer = line.value,
                                         !.have = @ \cup {"implementer"}])
    <3>1. Feed(parser, line) = t
      <4>1. ~(line.value > MaxImplementer)
        BY <1>2, <1>4, <1>7, <2>3 DEF MaxImplementer, LineOK
      <4> QED
        BY <1>1, <1>4, <2>2, <2>3, <4>1, FeedCases DEF FeedImplementer
    <3>2. /\ ~t.invalid /\ t.started /\ t.found = parser.found
          /\ t.selected = parser.selected
          /\ t.have = parser.have \cup {"implementer"}
          /\ t.implementer = line.value /\ t.part = parser.part
      BY <1>1, <1>2 DEF Start, Parsers
    <3> HIDE DEF t
    <3>3. pos' = pos + 1 =>
            HasRead("implementer")' /\ (HasRead("part")' <=> HasRead("part"))
      BY <1>6, <2>3
    <3>4. pos' = pos + 1 /\ parser' = t => Within(q)'
      BY <1>4, <2>1, <2>2, <2>3, <3>2, <3>3 DEF Within
    <3> QED
      BY <2>1, <3>1, <3>2, <3>4
  <2>4. CASE line.kind = "part"
    <3> DEFINE t == Start([parser EXCEPT !.part = line.value,
                                         !.have = @ \cup {"part"}])
    <3>1. Feed(parser, line) = t
      <4>1. ~(line.value > MaxPart)
        BY <1>2, <1>4, <1>7, <2>4 DEF MaxPart, LineOK
      <4> QED
        BY <1>1, <1>4, <2>2, <2>4, <4>1, FeedCases DEF FeedPart
    <3>2. /\ ~t.invalid /\ t.started /\ t.found = parser.found
          /\ t.selected = parser.selected
          /\ t.have = parser.have \cup {"part"}
          /\ t.implementer = parser.implementer /\ t.part = line.value
      BY <1>1, <1>2 DEF Start, Parsers
    <3> HIDE DEF t
    <3>3. pos' = pos + 1 =>
            /\ HasRead("part")'
            /\ HasRead("implementer")' <=> HasRead("implementer")
      BY <1>6, <2>4
    <3>4. pos' = pos + 1 /\ parser' = t => Within(q)'
      BY <1>4, <2>1, <2>2, <2>4, <3>2, <3>3 DEF Within
    <3> QED
      BY <2>1, <3>1, <3>2, <3>4
  <2> QED
    BY <1>13, <2>3, <2>4
<1> QED
  BY <1>4, <1>10, <1>11, <1>12, <1>13 DEF LineOK, Kinds

LEMMA QuietParseKept ==
  ASSUME IInv, NEW q \in Profiles, QuietInv(q), Quiet(q), calm', calm,
         UNCHANGED <<core, layout, midrs, online>>,
         \/ NextCpu \/ ReadLine \/ EndOfLines \/ EndOfCpuinfo
  PROVE  QuietScan(q)' /\ QuietParse(q)' /\ (pc' = "done" => result' = q)
<1> USE DEF Answer, Goto
<1>1. QuietParse(q) /\ online # {}
  BY DEF QuietInv
<1>2. /\ left \subseteq Cpus /\ online \subseteq Cpus /\ pos \in Nat
      /\ parser \in Parsers /\ q # Unknown
  BY UnknownUnnamed DEF IInv, TypeOK
<1>3. CASE NextCpu
  <2>1. /\ pc = "next" /\ pc' \in {"next", "lines"} /\ parser' = parser
        /\ pc' = "lines" => cpu' \in online /\ pos' = 0
        /\ Described' \subseteq Described
    <3>1. PICK c \in left :
            /\ left' = left \ {c}
            /\ IF c \in online
               THEN cpu' = c /\ pos' = 0 /\ pc' = "lines"
               ELSE UNCHANGED <<cpu, pos>> /\ pc' = "next"
      BY <1>3 DEF NextCpu
    <3>2. pc = "next" /\ parser' = parser
      BY <1>3 DEF NextCpu
    <3> QED
      BY <3>1, <3>2 DEF Described
  <2> QED
    BY <1>1, <2>1 DEF QuietScan, QuietParse, WholeRecord
<1>4. CASE ReadLine
  <2> DEFINE line == LineOf(layout[pos + 1], cpu)
  <2>1. /\ pc = "lines" /\ pos + 1 \in DOMAIN layout /\ cpu' = cpu
    BY <1>4 DEF ReadLine
  <2>2. /\ line.long => ~Relevant(line)
        /\ ~line.long => ~Feed(parser, line).invalid
    BY <1>4, <2>1, QuietLine
  <2>3. pos' = pos + 1 /\ pc' = "lines" /\ pos' > 0
    BY <1>2, <1>4, <2>2 DEF ReadLine
  <2>4. Within(q)'
    <3>1. IF line.long THEN parser' = parser ELSE parser' = Feed(parser, line)
      BY <1>4, <2>2 DEF ReadLine
    <3> QED
      BY <2>1, <2>3, <3>1, QuietLine
  <2> QED
    BY <1>1, <2>1, <2>3, <2>4 DEF QuietScan, QuietParse, Within
<1>5. CASE EndOfLines
  <2>1. /\ pc = "lines" /\ pc' = "next" /\ parser' = parser /\ cpu \in online
        /\ pos + 1 \notin DOMAIN layout
    BY <1>1, <1>5 DEF EndOfLines, QuietParse
  <2>2. HasRead("implementer") /\ HasRead("part") /\ pos > 0
    BY <1>1, <2>1, DescribedLine DEF IInv, Quiet, QuietParse
  <2>3. Within(q)
    BY <1>1, <2>1, <2>2 DEF QuietParse, Within
  <2>4. IF parser.started THEN WholeRecord(q) ELSE parser.have = {} /\ parser.found
    <3>1. parser.started => parser.have = {"implementer", "part"}
      BY <1>2, <2>2, <2>3 DEF Within, Parsers
    <3> QED
      BY <2>1, <2>2, <2>3, <3>1, OwnRecord DEF Within
  <2> QED
    BY <1>1, <2>1, <2>3, <2>4 DEF QuietScan, QuietParse, Within, WholeRecord
<1>6. CASE EndOfCpuinfo
  <2>1. /\ pc = "next" /\ left = {} /\ pc' = "done"
        /\ result' = Finish(parser)
    BY <1>6 DEF EndOfCpuinfo
  <2>2. /\ ~parser.invalid /\ (parser.found => parser.selected = q)
        /\ parser.started => WholeRecord(q)
        /\ Described # {} => parser.started \/ parser.found
    BY <1>1, <2>1 DEF QuietParse
  <2>3. Described = online
    BY <2>1 DEF Described
  <2>4. /\ ~FinishRecord(parser).invalid
        /\ ~parser.started => FinishRecord(parser) = parser
        /\ parser.started => /\ FinishRecord(parser).found
                             /\ FinishRecord(parser).selected = q
    BY <2>2, WholeFinishes
  <2>5. Finish(parser) = q
    BY <1>1, <2>2, <2>3, <2>4 DEF Finish
  <2> QED
    BY <2>1, <2>5 DEF QuietScan, QuietParse
<1> QED
  BY <1>3, <1>4, <1>5, <1>6

LEMMA QuietKept == IInv /\ CalmInv /\ [Next]_vars => CalmInv'
<1> SUFFICES ASSUME IInv, CalmInv, [Next]_vars, NEW q \in Profiles, Quiet(q)'
             PROVE  QuietInv(q)'
  BY DEF CalmInv, QuietInv
<1>1. /\ Quiet(q) /\ calm /\ calm'
      /\ UNCHANGED <<core, layout, midrs, online>>
  BY QuietBefore
<1>2. QuietInv(q)
  BY DEF CalmInv
<1>3. online' # {}
  BY <1>1, <1>2 DEF QuietInv
<1>4. CASE CallStep
  BY <1>1, <1>2, <1>3, <1>4, QuietScanKept, QuietParseKept DEF CallStep, QuietInv
<1>5. CASE Hotplug \/ Failure
  BY <1>1, <1>5
  DEF Hotplug, Failure, ReadEntryFails, ReadMidrFails, CpuinfoFails
<1>6. CASE UNCHANGED vars
  BY <1>1, <1>2, <1>6
  DEF vars, machine, locals, history, QuietInv, QuietScan, QuietParse, Described,
      HasRead, WholeRecord
<1> QED
  BY <1>4, <1>5, <1>6 DEF Next

\* Caution does not cost an answer: where nothing changes or fails and all CPUs
\* online share a named profile that the machine tells, the call returns it.
THEOREM CalmMachinesAnswered == Spec => []CalmIsAnswered
<1>1. Init => IInv /\ CalmInv
  BY InvInitially, QuietInitially
<1>2. IInv /\ CalmInv /\ [Next]_vars => (IInv /\ CalmInv)'
  BY InvKept, QuietKept
<1>3. CalmInv => CalmIsAnswered
  BY DEF CalmInv, QuietInv, Quiet, CalmIsAnswered
<1> QED
  BY <1>1, <1>2, <1>3, PTL DEF Spec

=============================================================================
