------------------------- MODULE MipsPipelineProofs -------------------------
(***************************************************************************)
(* What the MIPS decoders promise for every set of callers and families,   *)
(* and for any number of families enabled.                                 *)
(***************************************************************************)
EXTENDS MipsPipeline, SequenceTheorems, TLAPS

-----------------------------------------------------------------------------
(* Which families a decoder needs to decode a word.                        *)

\* Neither refusal is an answer.
LEMMA RefusalsRefuse == Unsupported.status # "OK" /\ Invalid.status # "OK"
BY DEF Unsupported, Invalid

LEMMA XlpDecodes ==
  ASSUME NEW w, NEW v, Xlp(w, v).status = "OK"
  PROVE  v.mode = 64 /\ "XLP" \in v.on /\ w \in NetLogicOwned
BY RefusalsRefuse DEF Guarded, Listed, Xlp, NetLogicOwned

LEMMA XlrDecodes ==
  ASSUME NEW w, NEW v, Xlr(w, v).status = "OK"
  PROVE  v.mode = 64 /\ "XLR" \in v.on /\ w \in NetLogicOwned
BY RefusalsRefuse DEF Guarded, Listed, Xlr, NetLogicOwned

LEMMA MxuVectorDecodes ==
  ASSUME NEW w, NEW v, MxuVector(w, v).status = "OK"
  PROVE  v.mode = 32 /\ ("MXU2" \in v.on \/ "MXU3" \in v.on)
BY RefusalsRefuse DEF MxuVector, MxuServes, MxuGeneration

LEMMA LoongasxDecodes ==
  ASSUME NEW w, NEW v, Loongasx(w, v).status = "OK"
  PROVE  /\ v.mode = 64 /\ v.rev = "64R2"
         /\ {"LOONGASX", "LOONGSON", "FPU"} \subseteq v.on
         /\ w \in {"ASX", "COPY", "INSERT"}
BY RefusalsRefuse DEF Guarded, Listed, Loongasx

LEMMA LoongsimdDecodes ==
  ASSUME NEW w, NEW v, Loongsimd(w, v).status = "OK"
  PROVE  /\ v.mode = 64 /\ w = "COP2"
         /\ {"LOONGSIMD", "LOONGSON", "FPU"} \subseteq v.on
BY RefusalsRefuse DEF Guarded, Loongsimd

LEMMA VuMacroDecodes ==
  ASSUME NEW w, NEW v, VuMacro(w, v).status = "OK"
  PROVE  /\ v.mode = 64 /\ v.rev = "III" /\ w \in {"OP62", "COP2"}
         /\ {"R5900", "R5900_VU0"} \subseteq v.on
BY RefusalsRefuse DEF Guarded, Listed, VuMacro

LEMMA AllegrexDecodes ==
  ASSUME NEW w, NEW v, Allegrex(w, v).status = "OK"
  PROVE  v.mode = 32 /\ "ALLEGREX" \in v.on
BY RefusalsRefuse DEF Guarded, Allegrex

LEMMA R5900Decodes ==
  ASSUME NEW w, NEW v, R5900(w, v).status = "OK"
  PROVE  /\ v.mode = 64 /\ v.rev = "III" /\ w \notin {"OP62", "COP2"}
         /\ "R5900" \in v.on \/ w = "MOVN"
<1>1. v.mode = 64 /\ v.rev = "III"
  BY RefusalsRefuse DEF R5900
<1>2. CASE w # "MOVN"
  <2>1. Guarded("R5900" \notin v.on, w = "MMI53", Listed(R5900Forms, w, Unsupported)).status = "OK"
    BY <1>1, <1>2 DEF R5900
  <2>2. w \in DOMAIN R5900Forms /\ "R5900" \in v.on
    BY <2>1, RefusalsRefuse DEF Guarded, Listed
  <2> QED BY <1>1, <2>2 DEF R5900Forms
<1> QED BY <1>1, <1>2

LEMMA MxuDecodes ==
  ASSUME NEW w, NEW v, Mxu(w, v).status = "OK"
  PROVE  v.mode = 32 /\ "MXU" \in v.on
BY RefusalsRefuse DEF Guarded, Mxu, MxuServes

-----------------------------------------------------------------------------
(* The rows of the inventory.                                              *)

\* Which processors a row is for: an Octeon, a Loongson, or any with MDMX.
RowOwned(w, row) ==
  \/ row.needs \in {{"CNMIPS"}, {"CNMIPSP"}} /\ row.revs = Wide2To5
  \/ /\ "LOONGSON" \in row.needs /\ w \notin {"ASX", "COPY", "INSERT"}
     /\ w = "COP2" => "LOONGSON2F" \in row.needs
  \/ row.needs = {"MDMX", "FPU"} /\ row.revs = MdmxRevs /\ w \in Quads

LEMMA RowsOwned ==
  ASSUME NEW w \in Words, NEW row \in Range(Inventory[w])
  PROVE  RowOwned(w, row)
<1> USE DEF Inventory, Row, RowOwned, Range, Quads
<1>1. CASE w = "OP62"
  BY <1>1
<1>2. CASE w = "MMI25"
  BY <1>2
<1>3. CASE w = "MMI17"
  BY <1>3
<1>4. CASE w = "MMI53"
  BY <1>4
<1>5. CASE w = "COPY"
  BY <1>5
<1>6. CASE w = "INSERT"
  BY <1>6
<1>7. CASE w = "QUAD"
  BY <1>7
<1>8. CASE w = "COP2"
  BY <1>8
<1>9. CASE w = "SQ"
  BY <1>9
<1>10. CASE w = "MOVN"
  BY <1>10
<1>11. CASE w \in {"LSA", "ASX"}
  BY <1>11
<1> QED
  BY <1>1, <1>2, <1>3, <1>4, <1>5, <1>6, <1>7, <1>8, <1>9, <1>10, <1>11
  DEF Words, Mmi

LEMMA InventoryLists ==
  ASSUME NEW w \in Words
  PROVE  DOMAIN Inventory[w] = 1..Len(Inventory[w])
BY DEF Inventory, Words, Mmi, Quads

\* The inventory answers with an enabled row.
LEMMA InventoryDecodes ==
  ASSUME NEW w \in Words, NEW v, InventoryAnswer(w, v).status = "OK"
  PROVE  \E row \in Range(Inventory[w]) : RowEnabled(row, v)
<1> DEFINE chosen == {i \in 1..Len(Inventory[w]) :
                        /\ RowEnabled(Inventory[w][i], v)
                        /\ ~("FPR32" \in v.on /\ NeedsWideFprs(Inventory[w][i]))}
<1>1. CASE chosen = {}
  BY <1>1, RefusalsRefuse DEF InventoryAnswer, SelectInSeq
<1>2. CASE chosen # {}
  BY <1>2, InventoryLists DEF Range
<1> QED BY <1>1, <1>2

-----------------------------------------------------------------------------
(* What a request puts in force.                                           *)

\* The processor offers what it has, of that what the revision does not withhold.
LEMMA OfferedFamilies ==
  ASSUME NEW c, NEW m, NEW r
  PROVE  /\ EncodingFamilies(c, m, r, "STANDARD") = RevisionFamilies(c, m, r)
         /\ RevisionFamilies(c, m, r) \subseteq CpuFamilies(c) \ RevisionWithholds(m, r)
<1>1. EncodingFamilies(c, m, r, "STANDARD") = RevisionFamilies(c, m, r)
  BY Zenon DEF EncodingFamilies, VuWords
<1>2. AvailableFamilies(c, m) \subseteq CpuFamilies(c)
  BY DEF AvailableFamilies
<1> QED BY <1>1, <1>2 DEF RevisionFamilies

LEMMA OnlyR5900 ==
  ASSUME NEW c \in AllCpus, c # "ANY", "R5900" \in CpuFamilies(c)
  PROVE  c = "R5900"
BY DEF CpuFamilies, AllCpus

\* A view in which no families in force contradict each other. R5900 is asked
\* about in vain only on the processor of that name, which has little else.
Consistent(v) ==
  /\ ~ConflictingFeatures(v.on)
  /\ v.on \cap {"LOONGSON2E", "LOONGSON2F"} # {} => v.rev = "III"
  /\ "R5900" \in Asked(v) \ v.on => v.on \subseteq {"FPU", "FPR32"} \cup Vu

LEMMA ViewConsistent ==
  ASSUME NEW k \in Callers, NEW requested,
         RequestStatus(k, requested) = "END_OF_INPUT"
  PROVE  Consistent(View(k, requested))
<1> DEFINE effective == EffectiveFamilies(k.cpu, k.mode, k.rev, "STANDARD", requested, TRUE)
           v == View(k, requested)
<1>1. k.cpu \in AllCpus
  BY CallersAssumption
<1>2. effective \subseteq requested
  BY DEF EffectiveFamilies
<1>3. effective \subseteq CpuFamilies(k.cpu) \ RevisionWithholds(k.mode, k.rev)
  BY OfferedFamilies DEF EffectiveFamilies
<1>4. ~Rejected(effective \cup FprBit(k.fpr32) \cup PolicyBits(k.cpu, effective))
  BY Zenon DEF RequestStatus, EmptyInputStatus
<1>5. /\ v.on = effective \cup FprBit(k.fpr32) \cup PolicyBits(k.cpu, effective)
      /\ v.rev = k.rev /\ v.policy = Policy(k.cpu, requested)
  BY DEF View
<1>6. v.on \subseteq effective \cup {"FPR32"}
  BY <1>5 DEF FprBit, PolicyBits
<1> HIDE DEF effective, v
<1>7. ~ConflictingFeatures(v.on)
  BY <1>4, <1>5 DEF Rejected
<1>8. v.on \cap {"LOONGSON2E", "LOONGSON2F"} # {} => v.rev = "III"
  BY <1>3, <1>5, <1>6 DEF RevisionWithholds
<1>9. ASSUME "R5900" \in Asked(v) \ v.on
      PROVE  v.on \subseteq {"FPU", "FPR32"} \cup Vu
  <2>1. k.cpu # "ANY" /\ "R5900" \in CpuFamilies(k.cpu)
    BY <1>5, <1>9 DEF Asked, Policy
  <2>2. k.cpu = "R5900"
    BY <1>1, <2>1, OnlyR5900
  <2>3. CpuFamilies(k.cpu) = {"FPU", "R5900", "R5900_VU0", "R5900_VU1"}
    BY <2>2, Zenon DEF CpuFamilies
  <2> QED BY <1>3, <1>6, <1>9, <2>3 DEF Vu
<1> QED BY <1>7, <1>8, <1>9 DEF Consistent, v

-----------------------------------------------------------------------------
(* At most one decoder decodes.                                            *)

\* Concatenation, with lengths that are known.
Joined(u, s, m, t, n) ==
  /\ Len(u) = m + n /\ DOMAIN u = 1..(m + n)
  /\ \A i \in 1..m : u[i] = s[i]
  /\ \A i \in 1..n : u[m + i] = t[i]

LEMMA Concatenated ==
  ASSUME NEW T, NEW s \in Seq(T), NEW t \in Seq(T), NEW m \in Nat, NEW n \in Nat,
         Len(s) = m, Len(t) = n
  PROVE  s \o t \in Seq(T) /\ Joined(s \o t, s, m, t, n)
<1>1. s \o t \in Seq(T) /\ Len(s \o t) = m + n
  BY ConcatProperties
<1>2. \A i \in 1..(m + n) : (s \o t)[i] = IF i <= m THEN s[i] ELSE t[i - m]
  BY ConcatProperties
<1> QED BY <1>1, <1>2 DEF Joined

\* The ten claims as one list.
LEMMA ClaimsListed ==
  ASSUME NEW c1, NEW c2, NEW c3, NEW c4, NEW c5, NEW c6, NEW c7, NEW c8, NEW c9,
         NEW c10, NEW c11, NEW c12, NEW c13, NEW list,
         list = <<c1, c2, c3, c4, c5, c6>> \o <<c7, c8>>
                  \o SubSeq(<<c9, c10, c11, c12, c13>>, 1, 2)
  PROVE  /\ DOMAIN list = 1..10
         /\ list[1] = c1 /\ list[2] = c2 /\ list[3] = c3 /\ list[4] = c4 /\ list[5] = c5
         /\ list[6] = c6 /\ list[7] = c7 /\ list[8] = c8 /\ list[9] = c9 /\ list[10] = c10
<1> DEFINE T == {c1, c2, c3, c4, c5, c6, c7, c8, c9, c10, c11, c12, c13}
           p == <<c1, c2, c3, c4, c5, c6>>
           q == <<c7, c8>>
           r == <<c9, c10, c11, c12, c13>>
           s == SubSeq(r, 1, 2)
<1>1. /\ p \in Seq(T) /\ Len(p) = 6
      /\ p[1] = c1 /\ p[2] = c2 /\ p[3] = c3 /\ p[4] = c4 /\ p[5] = c5 /\ p[6] = c6
  OBVIOUS
<1>2. q \in Seq(T) /\ Len(q) = 2 /\ q[1] = c7 /\ q[2] = c8
  OBVIOUS
<1>3. r \in Seq(T) /\ r[1] = c9 /\ r[2] = c10 /\ \A i \in 1..2 : r[i] \in T
  OBVIOUS
<1>4. list = (p \o q) \o s
  OBVIOUS
<1> HIDE DEF T, p, q, r
<1>5. s \in Seq(T) /\ Len(s) = 2 /\ s[1] = c9 /\ s[2] = c10
  <2>1. /\ s \in Seq(T) /\ Len(s) = 2 - 1 + 1
        /\ \A i \in 1..(2 - 1 + 1) : s[i] = r[1 + i - 1]
    BY <1>3, SubSeqProperties
  <2> QED BY <1>3, <2>1
<1> HIDE DEF s
<1> DEFINE u == p \o q
<1>6. u \in Seq(T) /\ Joined(u, p, 6, q, 2)
  BY <1>1, <1>2, Concatenated
<1>7. /\ u[7] = c7 /\ u[8] = c8 /\ Len(u) = 8
      /\ \A i \in 1..6 : u[i] = p[i]
  <2>1. u[6 + 1] = q[1] /\ u[6 + 2] = q[2] /\ Len(u) = 6 + 2
    <3> HIDE DEF u
    <3> QED BY <1>6 DEF Joined
  <2>2. \A i \in 1..6 : u[i] = p[i]
    <3> HIDE DEF u
    <3> QED BY <1>6 DEF Joined
  <2> QED BY <1>2, <2>1, <2>2, SMTT(30)
<1>8. list = u \o s
  BY <1>4
<1> HIDE DEF u
<1> DEFINE l == u \o s
<1>9. Joined(l, u, 8, s, 2)
  BY <1>5, <1>6, <1>7, Concatenated
<1> HIDE DEF l
<1>10. DOMAIN l = 1..(8 + 2) /\ l[8 + 1] = s[1] /\ l[8 + 2] = s[2]
  BY <1>9 DEF Joined
<1>11. \A i \in 1..8 : l[i] = u[i]
  BY <1>9 DEF Joined
<1>12. \A i \in 1..6 : l[i] = p[i]
  BY <1>7, <1>11
<1>13. list = l
  BY <1>8 DEF l
<1> QED BY <1>1, <1>5, <1>7, <1>10, <1>11, <1>12, <1>13

\* The families of two processors, or of two generations of one, are not in
\* force together.
LEMMA Apart ==
  ASSUME NEW S, ~MoreThanOne(S), NEW f \in S, NEW g \in S
  PROVE  f = g
BY DEF MoreThanOne

Exclusive(on) ==
  /\ "R5900" \in on => on \cap {"LOONGSON", "XLR", "XLP", "CNMIPS", "CNMIPSP"} = {}
  /\ "LOONGSON" \in on => on \cap {"XLR", "XLP", "CNMIPS", "CNMIPSP"} = {}
  /\ "XLR" \in on => on \cap {"XLP", "CNMIPS", "CNMIPSP"} = {}
  /\ "XLP" \in on => on \cap {"CNMIPS", "CNMIPSP"} = {}
  /\ "ALLEGREX" \in on => on \cap {"MXU", "MXU2", "MXU3"} = {}
  /\ "MXU" \in on => on \cap {"MXU2", "MXU3"} = {}
  /\ "LOONGSON2F" \in on => on \cap {"LOONGSON2E", "LOONGSIMD"} = {}

LEMMA ConsistentExclusive ==
  ASSUME NEW on, ~ConflictingFeatures(on)
  PROVE  Exclusive(on)
<1>1. \A f, g \in Processors(on) : f = g
  BY Apart DEF ConflictingFeatures
<1>2. \A f, g \in on \cap Generations : f = g
  BY Apart DEF ConflictingFeatures
<1>3. \A f, g \in on \cap {"MXU", "MXU2", "MXU3"} : f = g
  BY Apart DEF ConflictingFeatures
<1>4. \A f \in on \cap {"ALLEGREX", "R5900", "LOONGSON", "XLR", "XLP"} : f \in Processors(on)
  BY DEF Processors
<1>5. on \cap {"CNMIPS", "CNMIPSP"} # {} => "OCTEON" \in Processors(on)
  BY DEF Processors
<1>6. on \cap {"MXU", "MXU2", "MXU3"} # {} => "INGENIC" \in Processors(on)
  BY DEF Processors
<1> QED BY <1>1, <1>2, <1>3, <1>4, <1>5, <1>6 DEF Exclusive, Generations

\* At most one row of the inventory is enabled.
LEMMA RowsExclude ==
  ASSUME NEW w \in Words, NEW v, Consistent(v),
         NEW row \in Range(Inventory[w]), NEW other \in Range(Inventory[w]),
         RowEnabled(row, v), RowEnabled(other, v)
  PROVE  row = other
<1>1. Exclusive(v.on)
  BY ConsistentExclusive DEF Consistent
<1> USE DEF Inventory, Row, RowEnabled, Range, Exclusive
<1>2. CASE w = "OP62"
  BY <1>1, <1>2
<1>3. CASE w = "MMI17"
  BY <1>1, <1>3 DEF Consistent, Wide2To5
<1>4. CASE w = "MOVN"
  BY <1>1, <1>4 DEF Consistent, Wide2To5
<1>5. CASE w \in {"LSA", "ASX"}
  BY <1>5
<1>6. CASE w \in Quads
  <2>1. CASE w = "COPY"
    BY <2>1
  <2>2. CASE w = "INSERT"
    BY <2>2
  <2>3. CASE w = "QUAD"
    BY <2>3
  <2> QED BY <1>6, <2>1, <2>2, <2>3 DEF Quads
<1>7. CASE w = "MMI25"
  BY <1>7
<1>8. CASE w = "MMI53"
  BY <1>8
<1>9. CASE w = "COP2"
  BY <1>9
<1>10. CASE w = "SQ"
  BY <1>10
<1> QED BY <1>2, <1>3, <1>4, <1>5, <1>6, <1>7, <1>8, <1>9, <1>10 DEF Words, Mmi

\* What the ten decoders need in force, as far as it keeps them apart.
Needed(i, w, v) ==
  /\ i = 1 => v.mode = 64 /\ "XLP" \in v.on /\ w \in NetLogicOwned
  /\ i = 2 => v.mode = 64 /\ "XLR" \in v.on /\ w \in NetLogicOwned
  /\ i = 3 => v.mode = 32 /\ ("MXU2" \in v.on \/ "MXU3" \in v.on)
  /\ i = 4 => /\ v.mode = 64 /\ {"LOONGASX", "LOONGSON", "FPU"} \subseteq v.on
              /\ w \in {"ASX", "COPY", "INSERT"}
  /\ i = 5 => /\ v.mode = 64 /\ {"LOONGSIMD", "LOONGSON", "FPU"} \subseteq v.on
              /\ w = "COP2"
  /\ i = 6 => /\ v.mode = 64 /\ v.rev = "III" /\ "R5900" \in v.on
              /\ w \in {"OP62", "COP2"}
  /\ i = 7 => v.mode = 32 /\ "ALLEGREX" \in v.on
  /\ i = 8 => /\ v.mode = 64 /\ v.rev = "III" /\ w \notin {"OP62", "COP2"}
              /\ "R5900" \in v.on \/ v.on \subseteq {"FPU", "FPR32"} \cup Vu
  /\ i = 9 => v.mode = 32 /\ "MXU" \in v.on
  /\ i = 10 => \E row \in Range(Inventory[w]) : RowEnabled(row, v) /\ RowOwned(w, row)

\* No two of them can have what they need.
LEMMA NeededOnce ==
  ASSUME NEW w \in Words, NEW v, Consistent(v), ~({"MDMX", "LOONGASX"} \subseteq v.on),
         NEW i \in 1..10, NEW j \in 1..10, Needed(i, w, v), Needed(j, w, v)
  PROVE  i = j
<1>1. Exclusive(v.on)
  BY ConsistentExclusive DEF Consistent
<1>2. ASSUME NEW h \in 1..9, Needed(h, w, v),
             NEW row, RowEnabled(row, v), RowOwned(w, row)
      PROVE  FALSE
  <2>1. v.mode = 64 /\ v.rev \in row.revs /\ row.needs \subseteq v.on
    BY <1>2 DEF RowEnabled
  <2>2. CASE row.needs \in {{"CNMIPS"}, {"CNMIPSP"}} /\ row.revs = Wide2To5
    BY <1>1, <1>2, <2>1, <2>2 DEF Needed, Exclusive, Wide2To5
  <2>3. CASE /\ "LOONGSON" \in row.needs /\ w \notin {"ASX", "COPY", "INSERT"}
             /\ w = "COP2" => "LOONGSON2F" \in row.needs
    BY <1>1, <1>2, <2>1, <2>3 DEF Needed, Exclusive, Vu
  <2>4. CASE row.needs = {"MDMX", "FPU"} /\ row.revs = MdmxRevs /\ w \in Quads
    BY <1>1, <1>2, <2>1, <2>4 DEF Needed, MdmxRevs, Wide2To5, Quads, NetLogicOwned
  <2> QED BY <1>2, <2>2, <2>3, <2>4 DEF RowOwned
<1>3. ASSUME NEW h \in 1..9, NEW g \in 1..9, Needed(h, w, v), Needed(g, w, v)
      PROVE  h = g
  BY <1>1, <1>3 DEF Needed, Exclusive, NetLogicOwned, Vu
<1>4. ASSUME NEW h \in 1..9, Needed(h, w, v) PROVE ~Needed(10, w, v)
  BY <1>2, <1>4 DEF Needed
<1> QED BY <1>3, <1>4

\* Of a view without contradictions at most one decoder decodes a word.
LEMMA OneDecodes ==
  ASSUME NEW w \in Words, NEW v, Consistent(v), ~({"MDMX", "LOONGASX"} \subseteq v.on)
  PROVE  AtMostOne(w, v)
<1> DEFINE claims == VendorClaims(w, v) \o ProcessorClaims(w, v)
                       \o SubSeq(CommonClaims(w, v), 1, 2)
           Decodes(claim) == claim.made /\ claim.answer.status = "OK"
<1>1. /\ DOMAIN claims = 1..10
      /\ claims[1].answer = Xlp(w, v) /\ claims[2].answer = Xlr(w, v)
      /\ claims[3].answer = MxuVector(w, v) /\ claims[4].answer = Loongasx(w, v)
      /\ claims[5].answer = Loongsimd(w, v) /\ claims[6].answer = VuMacro(w, v)
      /\ claims[7].answer = Allegrex(w, v) /\ claims[8].answer = R5900(w, v)
      /\ claims[9].answer = Mxu(w, v) /\ claims[10].answer = InventoryAnswer(w, v)
      /\ claims[8].made => "R5900" \in Asked(v)
  <2> DEFINE c1 == Claim("XLP" \in Asked(v) /\ w \in NetLogicOwned, TRUE, Xlp(w, v))
             c2 == Claim("XLR" \in Asked(v) /\ w \in NetLogicOwned, TRUE, Xlr(w, v))
             c3 == Claim({"MXU2", "MXU3"} \cap Asked(v) # {},
                         MxuVectorOwns(w, Asked(v)), MxuVector(w, v))
             c4 == Claim("LOONGASX" \in Asked(v), LoongasxOwns(w, v), Loongasx(w, v))
             c5 == Claim("LOONGSIMD" \in v.on, w = "COP2", Loongsimd(w, v))
             c6 == Claim("R5900" \in Asked(v) /\ w \in {"COP2", "OP62"}, TRUE, VuMacro(w, v))
             c7 == Claim("ALLEGREX" \in Asked(v), w \in AllegrexOwned, Allegrex(w, v))
             c8 == Claim("R5900" \in Asked(v), w \in R5900Owned, R5900(w, v))
             c9 == Claim(TRUE, FALSE, Mxu(w, v))
             c10 == Claim(v.on \cap InventoryFirst # {}, FALSE, InventoryAnswer(w, v))
             c11 == Claim(v.rev \in R6, FALSE, Extra(w, v))
             c12 == Claim(TRUE, FALSE, Main(w, v))
             c13 == Claim(TRUE, TRUE, Extra(w, v))
  <2>1. claims = <<c1, c2, c3, c4, c5, c6>> \o <<c7, c8>>
                   \o SubSeq(<<c9, c10, c11, c12, c13>>, 1, 2)
    BY Zenon DEF VendorClaims, ProcessorClaims, CommonClaims
  <2>2. /\ c1.answer = Xlp(w, v) /\ c2.answer = Xlr(w, v)
        /\ c3.answer = MxuVector(w, v) /\ c4.answer = Loongasx(w, v)
        /\ c5.answer = Loongsimd(w, v) /\ c6.answer = VuMacro(w, v)
        /\ c7.answer = Allegrex(w, v) /\ c8.answer = R5900(w, v)
        /\ c9.answer = Mxu(w, v) /\ c10.answer = InventoryAnswer(w, v)
        /\ c8.made => "R5900" \in Asked(v)
    BY DEF Claim
  <2> HIDE DEF claims, c1, c2, c3, c4, c5, c6, c7, c8, c9, c10, c11, c12, c13
  <2>3. /\ DOMAIN claims = 1..10
        /\ claims[1] = c1 /\ claims[2] = c2 /\ claims[3] = c3 /\ claims[4] = c4
        /\ claims[5] = c5 /\ claims[6] = c6 /\ claims[7] = c7 /\ claims[8] = c8
        /\ claims[9] = c9 /\ claims[10] = c10
    BY <2>1, ClaimsListed
  <2> QED BY <2>2, <2>3
<1> HIDE DEF claims
<1>2. ASSUME NEW i \in 1..10, Decodes(claims[i]) PROVE Needed(i, w, v)
  <2>1. CASE i = 1
    BY <1>1, <1>2, <2>1, XlpDecodes DEF Needed
  <2>2. CASE i = 2
    BY <1>1, <1>2, <2>2, XlrDecodes DEF Needed
  <2>3. CASE i = 3
    BY <1>1, <1>2, <2>3, MxuVectorDecodes DEF Needed
  <2>4. CASE i = 4
    BY <1>1, <1>2, <2>4, LoongasxDecodes DEF Needed
  <2>5. CASE i = 5
    BY <1>1, <1>2, <2>5, LoongsimdDecodes DEF Needed
  <2>6. CASE i = 6
    BY <1>1, <1>2, <2>6, VuMacroDecodes DEF Needed
  <2>7. CASE i = 7
    BY <1>1, <1>2, <2>7, AllegrexDecodes DEF Needed
  <2>8. CASE i = 8
    BY <1>1, <1>2, <2>8, R5900Decodes DEF Needed, Consistent
  <2>9. CASE i = 9
    BY <1>1, <1>2, <2>9, MxuDecodes DEF Needed
  <2>10. CASE i = 10
    BY <1>1, <1>2, <2>10, InventoryDecodes, RowsOwned DEF Needed
  <2> QED BY <2>1, <2>2, <2>3, <2>4, <2>5, <2>6, <2>7, <2>8, <2>9, <2>10
<1>3. \A i, j \in DOMAIN claims : Decodes(claims[i]) /\ Decodes(claims[j]) => i = j
  BY <1>1, <1>2, NeededOnce
<1>4. \A row, other \in Range(Inventory[w]) :
        RowEnabled(row, v) /\ RowEnabled(other, v) => row = other
  BY RowsExclude
<1> QED BY <1>3, <1>4 DEF AtMostOne, claims

-----------------------------------------------------------------------------
(* A caller and its word.                                                  *)

\* Only requests that the decoder accepts are made, and the answer is to the
\* last of them.
Asks ==
  /\ caller \in Callers /\ word \in Words
  /\ RequestStatus(caller, selected) = "END_OF_INPUT"
  /\ answer = Decode(word, caller, selected)

LEMMA AsksInitially == Init => Asks
BY DEF Init, Asks

LEMMA AsksKept == Asks /\ [Next]_vars => Asks'
BY DEF Asks, Next, Select, vars

LEMMA AsksOne == Asks => OneFamilyDecodes
<1> SUFFICES ASSUME Asks, ~({"MDMX", "LOONGASX"} \subseteq selected)
             PROVE  AtMostOne(word, View(caller, selected))
  BY DEF OneFamilyDecodes
<1>1. Consistent(View(caller, selected))
  BY ViewConsistent DEF Asks
<1>2. View(caller, selected).on \subseteq selected \cup {"FPR32"}
  BY DEF View, EffectiveFamilies, FprBit, PolicyBits
<1> QED BY <1>1, <1>2, OneDecodes DEF Asks

\* Where the families in force collide, the order of the decoders does not
\* matter: for every caller and any number of families enabled at most one of
\* them decodes the word, and at most one row of the inventory is enabled.
THEOREM OrderDoesNotMatter == Spec => []OneFamilyDecodes
<1>1. Init => Asks
  BY AsksInitially
<1>2. Asks /\ [Next]_vars => Asks'
  BY AsksKept
<1>3. Asks => OneFamilyDecodes
  BY AsksOne
<1> QED BY <1>1, <1>2, <1>3, PTL DEF Spec

-----------------------------------------------------------------------------
(* A named processor beside the generic one.                               *)

LEMMA GenericHasAll == CpuFamilies("ANY") = Families /\ CpuModes("ANY") = Modes
<1>1. CpuFamilies("ANY") = Families
  <2> DEFINE F == Families
  <2> HIDE DEF F
  <2>1. CpuFamilies("ANY") = F
    BY Zenon DEF CpuFamilies, F
  <2> QED BY <2>1 DEF F
<1>2. CpuRevision("ANY") = "NONE"
  BY Zenon DEF CpuRevision
<1>3. CpuModes("ANY") = Modes
  BY <1>2, Zenon DEF CpuModes
<1> QED BY <1>1, <1>3

LEMMA FamiliesNamed ==
  ASSUME NEW c \in AllCpus
  PROVE  CpuFamilies(c) \subseteq Families
BY DEF CpuFamilies, AllCpus, Families

\* What is offered to fewer families is offered to more.
LEMMA AdmitsMore ==
  ASSUME NEW r \in Revisions, NEW A, NEW B, A \subseteq B
  PROVE  RevisionAdmits(r, A) \subseteq RevisionAdmits(r, B)
<1>1. CASE r \in {"32R2", "32R3", "64R2", "64R3"}
  <2>1. ASSUME NEW S
        PROVE  RevisionAdmits(r, S) =
                 Families \ ({"DSPR3", "COP3", "CRC", "GINV"} \cup
                             IF r = "64R2" /\ "LOONGSIMD" \in S THEN {} ELSE {"MSA"})
    BY <1>1, Zenon DEF RevisionAdmits, R6
  <2> QED BY <2>1
<1>2. CASE r \notin {"32R2", "32R3", "64R2", "64R3"}
  <2>1. RevisionAdmits(r, A) = RevisionAdmits(r, B)
    BY <1>2, Zenon DEF RevisionAdmits
  <2> QED BY <2>1
<1> QED BY <1>1, <1>2

LEMMA OfferedToGeneric ==
  ASSUME NEW c \in AllCpus, NEW m \in Modes, NEW r \in Revisions
  PROVE  RevisionFamilies(c, m, r) \subseteq RevisionFamilies("ANY", m, r)
<1> DEFINE named == AvailableFamilies(c, m) \ RevisionWithholds(m, r)
           any == AvailableFamilies("ANY", m) \ RevisionWithholds(m, r)
<1>1. AvailableFamilies(c, m) \subseteq AvailableFamilies("ANY", m)
  BY GenericHasAll, FamiliesNamed DEF AvailableFamilies
<1>2. named \subseteq any
  BY <1>1
<1>3. RevisionAdmits(r, named) \subseteq RevisionAdmits(r, any)
  BY <1>2, AdmitsMore
<1>4. /\ RevisionFamilies(c, m, r) = named \cap RevisionAdmits(r, named)
      /\ RevisionFamilies("ANY", m, r) = any \cap RevisionAdmits(r, any)
  BY DEF RevisionFamilies
<1> QED BY <1>2, <1>3, <1>4

\* Paired registers are the one thing that can be missing without harm.
LEMMA WiderLayout ==
  ASSUME NEW F, NEW G, G \subseteq F, F \subseteq G \cup {"FPR32"}, ~Rejected(F)
  PROVE  ~Rejected(G)
<1>1. /\ Processors(G) = Processors(F)
      /\ G \cap Generations = F \cap Generations
      /\ G \cap {"MXU", "MXU2", "MXU3"} = F \cap {"MXU", "MXU2", "MXU3"}
  <2>1. \A f : f # "FPR32" => (f \in G <=> f \in F)
    OBVIOUS
  <2>2. G \cap {"CNMIPS", "CNMIPSP"} = F \cap {"CNMIPS", "CNMIPSP"}
    BY <2>1
  <2>3. G \cap {"ALLEGREX", "R5900", "LOONGSON", "XLR", "XLP"}
          = F \cap {"ALLEGREX", "R5900", "LOONGSON", "XLR", "XLP"}
    BY <2>1
  <2>4. G \cap {"MXU", "MXU2", "MXU3"} = F \cap {"MXU", "MXU2", "MXU3"}
    BY <2>1
  <2>5. G \cap Generations = F \cap Generations
    BY <2>1 DEF Generations
  <2> QED BY <2>2, <2>3, <2>4, <2>5 DEF Processors
<1>2. ("LOONGSON" \in G /\ G \cap LoongsonUsers = {}) => ("LOONGSON" \in F /\ F \cap LoongsonUsers = {})
  BY DEF LoongsonUsers, Generations
<1> QED BY <1>1, <1>2 DEF Rejected, ConflictingFeatures, Vu

\* What the two requests put in force.
LEMMA GenericRequest ==
  ASSUME NEW k \in Callers, NEW S, RequestStatus(k, S) = "END_OF_INPUT",
         S \subseteq RevisionFamilies(k.cpu, k.mode, k.rev),
         NEW g, g = [k EXCEPT !.cpu = "ANY"]
  PROVE  /\ RequestStatus(g, S) = "END_OF_INPUT"
         /\ View(k, S) = [mode |-> k.mode, rev |-> k.rev,
                          on |-> S \cup FprBit(k.fpr32) \cup PolicyBits(k.cpu, S),
                          policy |-> Policy(k.cpu, S)]
         /\ View(g, S) = [mode |-> k.mode, rev |-> k.rev,
                          on |-> S \cup FprBit(k.fpr32) \cup PolicyBits("ANY", S),
                          policy |-> Policy("ANY", S)]
<1>1. /\ k.cpu \in AllCpus /\ k.mode \in Modes /\ k.rev \in Revisions
      /\ g.cpu = "ANY" /\ g.mode = k.mode /\ g.rev = k.rev /\ g.fpr32 = k.fpr32
  BY CallersAssumption
<1>2. S \subseteq RevisionFamilies("ANY", k.mode, k.rev)
  BY <1>1, OfferedToGeneric
<1>3. /\ EffectiveFamilies(k.cpu, k.mode, k.rev, "STANDARD", S, TRUE) = S
      /\ EffectiveFamilies("ANY", k.mode, k.rev, "STANDARD", S, TRUE) = S
  BY <1>2, OfferedFamilies DEF EffectiveFamilies
<1>4. RequestStatus(g, S) = "END_OF_INPUT"
  <2>1. /\ RevisionAccepted(k.cpu, k.mode, k.rev)
        /\ ~(k.fpr32 /\ k.rev \in R6)
        /\ ~RequestRefused("STANDARD", S \cup FprBit(k.fpr32))
        /\ Closed(S)
        /\ S \subseteq BuildFamilies
        /\ ~Rejected(S \cup FprBit(k.fpr32) \cup PolicyBits(k.cpu, S))
    BY <1>3, Zenon DEF RequestStatus, EmptyInputStatus
  <2>2. RevisionAccepted("ANY", k.mode, k.rev)
    BY <1>1, <2>1, GenericHasAll DEF RevisionAccepted
  <2>3. ~EncodingRefused("ANY", k.mode, k.rev, "STANDARD", S)
    BY DEF EncodingRefused, VuWords, Compact
  <2>4. ~Rejected(S \cup FprBit(k.fpr32) \cup PolicyBits("ANY", S))
    <3> DEFINE F == S \cup FprBit(k.fpr32) \cup PolicyBits(k.cpu, S)
               G == S \cup FprBit(k.fpr32) \cup PolicyBits("ANY", S)
    <3>1. PolicyBits("ANY", S) \subseteq PolicyBits(k.cpu, S) /\ PolicyBits(k.cpu, S) \subseteq {"FPR32"}
      BY DEF PolicyBits
    <3>2. G \subseteq F /\ F \subseteq G \cup {"FPR32"}
      BY <3>1
    <3>3. ~Rejected(F)
      BY <2>1
    <3> HIDE DEF F, G
    <3>4. ~Rejected(G)
      BY <3>2, <3>3, WiderLayout
    <3> QED BY <3>4 DEF G
  <2> QED BY <1>1, <1>3, <2>1, <2>2, <2>3, <2>4, Zenon DEF RequestStatus, EmptyInputStatus
<1>5. View(k, S) = [mode |-> k.mode, rev |-> k.rev,
                    on |-> S \cup FprBit(k.fpr32) \cup PolicyBits(k.cpu, S),
                    policy |-> Policy(k.cpu, S)]
  BY <1>3, Zenon DEF View
<1>6. View(g, S) = [mode |-> k.mode, rev |-> k.rev,
                    on |-> S \cup FprBit(k.fpr32) \cup PolicyBits("ANY", S),
                    policy |-> Policy("ANY", S)]
  BY <1>1, <1>3, Zenon DEF View
<1> QED BY <1>4, <1>5, <1>6

-----------------------------------------------------------------------------
(* Who answers.                                                            *)

\* The first claim made.
LEMMA WinnerAt ==
  ASSUME NEW claims, NEW k \in 1..Len(claims), Len(claims) \in Nat, claims[k].made,
         \A j \in 1..Len(claims) : j < k => ~claims[j].made
  PROVE  Winner(claims) = claims[k]
<1> DEFINE I == {i \in 1..Len(claims) : claims[i].made}
<1>1. k \in I /\ \A j \in I : k <= j
  OBVIOUS
<1>2. Min(I) = k
  <2> HIDE DEF I
  <2>1. Min(I) \in I /\ \A y \in I : Min(I) <= y
    BY <1>1, Zenon DEF Min
  <2>2. I \subseteq Nat
    BY DEF I
  <2> DEFINE m == Min(I)
  <2>3. m \in Nat /\ k \in Nat /\ k <= m /\ m <= k
    BY <1>1, <2>1, <2>2
  <2> HIDE DEF m
  <2>4. m = k
    BY <2>3
  <2> QED BY <2>4 DEF m
<1>3. SelectInSeq(claims, LAMBDA claim : claim.made) = IF I # {} THEN Min(I) ELSE 0
  BY DEF SelectInSeq
<1> QED BY <1>1, <1>2, <1>3 DEF Winner

\* No vendor answers a word it is not asked about.
VendorsAsked(w, v) ==
  \/ {"XLP", "XLR"} \cap Asked(v) # {} /\ w \in NetLogicOwned
  \/ {"MXU2", "MXU3", "LOONGASX"} \cap Asked(v) # {}
  \/ "LOONGSIMD" \in v.on
  \/ "R5900" \in Asked(v) /\ w \in {"COP2", "OP62"}

LEMMA VendorsSilent ==
  ASSUME NEW w, NEW v, ~VendorsAsked(w, v)
  PROVE  VendorAnswer(VendorClaims(w, v), w, v) = ProcessorAnswer(ProcessorClaims(w, v), w, v)
<1> DEFINE claims == VendorClaims(w, v)
<1>1. \A k \in DOMAIN claims : ~claims[k].made
  <2> DEFINE c1 == Claim("XLP" \in Asked(v) /\ w \in NetLogicOwned, TRUE, Xlp(w, v))
             c2 == Claim("XLR" \in Asked(v) /\ w \in NetLogicOwned, TRUE, Xlr(w, v))
             c3 == Claim({"MXU2", "MXU3"} \cap Asked(v) # {},
                         MxuVectorOwns(w, Asked(v)), MxuVector(w, v))
             c4 == Claim("LOONGASX" \in Asked(v), LoongasxOwns(w, v), Loongasx(w, v))
             c5 == Claim("LOONGSIMD" \in v.on, w = "COP2", Loongsimd(w, v))
             c6 == Claim("R5900" \in Asked(v) /\ w \in {"COP2", "OP62"}, TRUE, VuMacro(w, v))
  <2>1. claims = <<c1, c2, c3, c4, c5, c6>>
    BY Zenon DEF VendorClaims
  <2>2. ~c1.made /\ ~c2.made /\ ~c3.made /\ ~c4.made /\ ~c5.made /\ ~c6.made
    BY DEF Claim, VendorsAsked
  <2> HIDE DEF claims, c1, c2, c3, c4, c5, c6
  <2> QED BY <2>1, <2>2
<1> HIDE DEF claims
<1> QED BY <1>1 DEF VendorAnswer, claims

\* A vendor that is asked, after others that are not.
LEMMA XlpAnswers ==
  ASSUME NEW w, NEW v, "XLP" \in Asked(v), w \in NetLogicOwned
  PROVE  VendorAnswer(VendorClaims(w, v), w, v) = Xlp(w, v)
<1> DEFINE claims == VendorClaims(w, v)
<1>1. Len(claims) = 6 /\ DOMAIN claims = 1..6
  BY DEF VendorClaims
<1>2. claims[1].made /\ claims[1].answer = Xlp(w, v)
  BY DEF VendorClaims, Claim
<1> HIDE DEF claims
<1>3. Winner(claims) = claims[1]
  BY <1>1, <1>2, WinnerAt
<1> QED BY <1>1, <1>2, <1>3 DEF VendorAnswer, claims

LEMMA XlrAnswers ==
  ASSUME NEW w, NEW v, "XLP" \notin Asked(v), "XLR" \in Asked(v), w \in NetLogicOwned
  PROVE  VendorAnswer(VendorClaims(w, v), w, v) = Xlr(w, v)
<1> DEFINE claims == VendorClaims(w, v)
<1>1. Len(claims) = 6 /\ DOMAIN claims = 1..6
  BY DEF VendorClaims
<1>2. ~claims[1].made /\ claims[2].made /\ claims[2].answer = Xlr(w, v)
  BY DEF VendorClaims, Claim
<1> HIDE DEF claims
<1>3. Winner(claims) = claims[2]
  BY <1>1, <1>2, WinnerAt
<1> QED BY <1>1, <1>2, <1>3 DEF VendorAnswer, claims

LEMMA VuMacroAnswers ==
  ASSUME NEW w, NEW v, "R5900" \in Asked(v), w \in {"COP2", "OP62"},
         {"MXU2", "MXU3", "LOONGASX"} \cap Asked(v) = {}, "LOONGSIMD" \notin v.on
  PROVE  VendorAnswer(VendorClaims(w, v), w, v) = VuMacro(w, v)
<1> DEFINE claims == VendorClaims(w, v)
<1>1. Len(claims) = 6 /\ DOMAIN claims = 1..6
  BY DEF VendorClaims
<1>2. /\ ~claims[1].made /\ ~claims[2].made /\ ~claims[3].made /\ ~claims[4].made
      /\ ~claims[5].made /\ claims[6].made /\ claims[6].answer = VuMacro(w, v)
  BY DEF VendorClaims, Claim, NetLogicOwned
<1> HIDE DEF claims
<1>3. Winner(claims) = claims[6]
  BY <1>1, <1>2, WinnerAt
<1> QED BY <1>1, <1>2, <1>3 DEF VendorAnswer, claims

\* What the Allegrex and the R5900 say of what they own.
LEMMA AllegrexAnswers ==
  ASSUME NEW w, NEW v, "ALLEGREX" \in Asked(v), w \in AllegrexOwned, Allegrex(w, v) = Unsupported
  PROVE  ProcessorAnswer(ProcessorClaims(w, v), w, v) = Unsupported
<1> DEFINE own == ProcessorClaims(w, v)
<1>1. Len(own) = 2 /\ DOMAIN own = 1..2
  BY DEF ProcessorClaims
<1>2. own[1].made /\ own[1].answer = Unsupported
  BY DEF ProcessorClaims, Claim
<1> HIDE DEF own
<1>3. Winner(own) = own[1]
  BY <1>1, <1>2, WinnerAt
<1> QED BY <1>1, <1>2, <1>3 DEF ProcessorAnswer, Probed, own

LEMMA R5900Answers ==
  ASSUME NEW w, NEW v, "ALLEGREX" \notin Asked(v), "R5900" \in Asked(v), w \in R5900Owned
  PROVE  ProcessorAnswer(ProcessorClaims(w, v), w, v) =
           Probed(R5900(w, v), R5900(w, v) = Unsupported, w, v)
<1> DEFINE own == ProcessorClaims(w, v)
<1>1. Len(own) = 2 /\ DOMAIN own = 1..2
  BY DEF ProcessorClaims
<1>2. ~own[1].made /\ own[2].made /\ own[2].answer = R5900(w, v)
  BY DEF ProcessorClaims, Claim
<1> HIDE DEF own
<1>3. Winner(own) = own[2]
  BY <1>1, <1>2, WinnerAt
<1>4. \E k \in DOMAIN own : own[k].made
  BY <1>1, <1>2
<1> QED BY <1>2, <1>3, <1>4, Zenon DEF ProcessorAnswer, own

\* A processor that is not asked, or has nothing to say of a word it does not
\* own, leaves it to the common decoders.
LEMMA ProcessorsSilent ==
  ASSUME NEW w, NEW v,
         "ALLEGREX" \in Asked(v) => w \notin AllegrexOwned /\ Allegrex(w, v) = Unsupported,
         "R5900" \in Asked(v) => w \notin R5900Owned /\ R5900(w, v) = Unsupported
  PROVE  ProcessorAnswer(ProcessorClaims(w, v), w, v) =
           Probed(Winner(CommonClaims(w, v)).answer, FALSE, w, v)
<1> DEFINE own == ProcessorClaims(w, v)
<1>1. DOMAIN own = 1..2
  BY DEF ProcessorClaims
<1>2. ~own[1].made /\ ~own[2].made
  BY DEF ProcessorClaims, Claim
<1> HIDE DEF own
<1>3. ~\E k \in DOMAIN own : own[k].made
  BY <1>1, <1>2
<1> QED BY <1>3 DEF ProcessorAnswer, own

\* The common decoders before Release 6, where neither the Ingenic ones nor the
\* inventory know the word.
LEMMA ModulesLast ==
  ASSUME NEW w, NEW v, v.rev \notin R6
  PROVE  Extra(w, v) = Modules(w, v)
<1> DEFINE answers == <<Unsupported, Unsupported, Modules(w, v)>>
           I == {i \in 1..Len(answers) : answers[i] # Unsupported}
<1>1. Extra(w, v) = FirstAnswer(answers)
  BY DEF Extra, Release6, Guarded
<1>2. FirstAnswer(answers) = IF I = {} THEN Unsupported ELSE answers[Min(I)]
  <2>1. SelectInSeq(answers, LAMBDA a : a # Unsupported) = IF I # {} THEN Min(I) ELSE 0
    BY DEF SelectInSeq
  <2>2. I # {} => I = {3}
    OBVIOUS
  <2>3. Min({3}) = 3
    BY DEF Min
  <2> QED BY <2>1, <2>2, <2>3 DEF FirstAnswer
<1>3. CASE Modules(w, v) = Unsupported
  <2>1. I = {}
    BY <1>3
  <2> QED BY <1>1, <1>2, <1>3, <2>1
<1>4. CASE Modules(w, v) # Unsupported
  <2>1. I = {3}
    BY <1>4
  <2>2. Min({3}) = 3
    BY DEF Min
  <2> QED BY <1>1, <1>2, <2>1, <2>2
<1> QED BY <1>3, <1>4

Base(w, v) == IF Main(w, v) # Unsupported THEN Main(w, v) ELSE Modules(w, v)

LEMMA CommonIsBase ==
  ASSUME NEW w, NEW v, v.rev \notin R6, Mxu(w, v) = Unsupported,
         v.on \cap InventoryFirst = {} \/ InventoryAnswer(w, v) = Unsupported
  PROVE  Winner(CommonClaims(w, v)).answer = Base(w, v)
<1> DEFINE claims == CommonClaims(w, v)
<1>1. Len(claims) = 5 /\ DOMAIN claims = 1..5
  BY DEF CommonClaims
<1>2. /\ ~claims[1].made /\ ~claims[2].made /\ ~claims[3].made
      /\ claims[4].made <=> Main(w, v) # Unsupported
      /\ claims[4].answer = Main(w, v)
      /\ claims[5].made /\ claims[5].answer = Extra(w, v)
  BY DEF CommonClaims, Claim
<1> HIDE DEF claims
<1>3. CASE Main(w, v) # Unsupported
  <2>1. Winner(claims) = claims[4]
    BY <1>1, <1>2, <1>3, WinnerAt
  <2> QED BY <1>2, <1>3, <2>1 DEF Base, claims
<1>4. CASE Main(w, v) = Unsupported
  <2>1. Winner(claims) = claims[5]
    BY <1>1, <1>2, <1>4, WinnerAt
  <2> QED BY <1>2, <1>4, <2>1, ModulesLast DEF Base, claims
<1> QED BY <1>3, <1>4

-----------------------------------------------------------------------------
(* Views that differ in what no decoder looks at.                          *)

Claimants == {"XLP", "XLR", "MXU2", "MXU3", "LOONGASX", "R5900", "ALLEGREX"}

Alike(u, v) ==
  /\ u.mode = v.mode /\ u.rev = v.rev /\ u.on = v.on
  /\ \A f \in Claimants : f \in Asked(u) <=> f \in Asked(v)

LEMMA MainSame ==
  ASSUME NEW w, NEW u, NEW v, u.rev = v.rev, u.on = v.on
  PROVE  Main(w, u) = Main(w, v)
<1> DEFINE f1 == Ok(101)
           f2 == Ok(405)
           f3 == Ok(407)
<1> HIDE DEF f1, f2, f3
<1> QED BY ZenonT(30) DEF Main, f1, f2, f3

LEMMA AlikeClaims ==
  ASSUME NEW w, NEW u, NEW v, Alike(u, v)
  PROVE  /\ VendorClaims(w, u) = VendorClaims(w, v)
         /\ ProcessorClaims(w, u) = ProcessorClaims(w, v)
         /\ Mxu(w, u) = Mxu(w, v)
         /\ InventoryAnswer(w, u) = InventoryAnswer(w, v)
         /\ Main(w, u) = Main(w, v)
         /\ Release6(w, u) = Release6(w, v)
         /\ Adduh(u) = Adduh(v)
<1>1. Xlp(w, u) = Xlp(w, v) /\ Xlr(w, u) = Xlr(w, v) /\ Mxu(w, u) = Mxu(w, v)
  BY DEF Xlp, Xlr, Mxu, MxuServes, Alike
<1>2. MxuVectorOwns(w, Asked(u)) = MxuVectorOwns(w, Asked(v))
  <2>1. MxuGeneration(Asked(u)) = MxuGeneration(Asked(v))
    BY DEF MxuGeneration, Alike, Claimants
  <2> QED BY <2>1, Zenon DEF MxuVectorOwns
<1>3. MxuVector(w, u) = MxuVector(w, v)
  BY <1>2 DEF MxuVector, MxuServes, Alike
<1>4. LoongasxOwns(w, u) = LoongasxOwns(w, v)
  BY DEF LoongasxOwns, Alike, Claimants
<1>5. Loongasx(w, u) = Loongasx(w, v)
  BY <1>4 DEF Loongasx, Guarded, Alike
<1>6. Loongsimd(w, u) = Loongsimd(w, v) /\ VuMacro(w, u) = VuMacro(w, v)
      /\ Allegrex(w, u) = Allegrex(w, v)
  BY DEF Loongsimd, VuMacro, Allegrex, Alike
<1>7. R5900(w, u) = R5900(w, v)
  BY DEF R5900, Alike
<1>8. /\ InventoryAnswer(w, u) = InventoryAnswer(w, v)
      /\ Release6(w, u) = Release6(w, v) /\ Adduh(u) = Adduh(v)
  <2>1. \A row : RowEnabled(row, u) <=> RowEnabled(row, v)
    BY DEF RowEnabled, Alike
  <2>2. ("FPR32" \in u.on) <=> ("FPR32" \in v.on)
    BY DEF Alike
  <2>3. InventoryAnswer(w, u) = InventoryAnswer(w, v)
    BY <2>1, <2>2 DEF InventoryAnswer, SelectInSeq
  <2> QED BY <2>3 DEF Release6, Adduh, Guarded, Alike
<1>9. Main(w, u) = Main(w, v)
  BY MainSame DEF Alike
<1>10. VendorClaims(w, u) = VendorClaims(w, v)
  <2>1. /\ ({"MXU2", "MXU3"} \cap Asked(u) # {}) = ({"MXU2", "MXU3"} \cap Asked(v) # {})
        /\ ("XLP" \in Asked(u)) = ("XLP" \in Asked(v))
        /\ ("XLR" \in Asked(u)) = ("XLR" \in Asked(v))
        /\ ("LOONGASX" \in Asked(u)) = ("LOONGASX" \in Asked(v))
        /\ ("R5900" \in Asked(u)) = ("R5900" \in Asked(v))
        /\ u.on = v.on
    BY DEF Alike, Claimants
  <2> QED BY <1>1, <1>2, <1>3, <1>4, <1>5, <1>6, <2>1, Zenon DEF VendorClaims
<1>11. ProcessorClaims(w, u) = ProcessorClaims(w, v)
  <2>1. /\ ("ALLEGREX" \in Asked(u)) = ("ALLEGREX" \in Asked(v))
        /\ ("R5900" \in Asked(u)) = ("R5900" \in Asked(v))
    BY DEF Alike, Claimants
  <2> QED BY <1>6, <1>7, <2>1, Zenon DEF ProcessorClaims
<1> QED BY <1>1, <1>8, <1>9, <1>10, <1>11

LEMMA AlikeCore ==
  ASSUME NEW w, NEW u, NEW v, Alike(u, v),
         w \notin DOMAIN MsaForms \/ Msa(w, u) = Msa(w, v)
  PROVE  CoreAnswer(w, u) = CoreAnswer(w, v)
<1>1. Modules(w, u) = Modules(w, v)
  BY AlikeClaims, Zenon DEF Modules
<1>2. Extra(w, u) = Extra(w, v)
  BY <1>1, AlikeClaims, Zenon DEF Extra, Alike
<1>3. CommonClaims(w, u) = CommonClaims(w, v)
  BY <1>2, AlikeClaims, Zenon DEF CommonClaims, Alike
<1>4. ProcessorAnswer(ProcessorClaims(w, u), w, u) = ProcessorAnswer(ProcessorClaims(w, v), w, v)
  BY <1>3, AlikeClaims, Zenon DEF ProcessorAnswer, Probed
<1>5. VendorAnswer(VendorClaims(w, u), w, u) = VendorAnswer(VendorClaims(w, v), w, v)
  BY <1>4, AlikeClaims, Zenon DEF VendorAnswer
<1>6. "ALLEGREX" \in Asked(u) <=> "ALLEGREX" \in Asked(v)
  BY DEF Alike, Claimants
<1> QED BY <1>5, <1>6, Zenon DEF CoreAnswer

-----------------------------------------------------------------------------
(* Views with no encoding space of a processor in force.                   *)

Refuses(a) == a \in {Unsupported, Invalid}

Bare(v) == v.on \subseteq {"FPU", "COP2", "FPR32"} /\ v.rev \notin R6

LEMMA InventorySilent ==
  ASSUME NEW w \in Words, NEW v, v.on \cap {"CNMIPS", "CNMIPSP", "LOONGSON", "MDMX"} = {}
  PROVE  InventoryAnswer(w, v) = Unsupported
<1>1. \A row \in Range(Inventory[w]) : ~RowEnabled(row, v)
  <2> SUFFICES ASSUME NEW row \in Range(Inventory[w]), row.needs \subseteq v.on
               PROVE  FALSE
    BY DEF RowEnabled
  <2>1. RowOwned(w, row)
    BY RowsOwned
  <2>2. row.needs \cap {"CNMIPS", "CNMIPSP", "LOONGSON", "MDMX"} # {}
    BY <2>1 DEF RowOwned
  <2> QED BY <2>2
<1>2. \A i \in 1..Len(Inventory[w]) : Inventory[w][i] \in Range(Inventory[w])
  BY InventoryLists DEF Range
<1> DEFINE chosen == {i \in 1..Len(Inventory[w]) :
                        /\ RowEnabled(Inventory[w][i], v)
                        /\ ~("FPR32" \in v.on /\ NeedsWideFprs(Inventory[w][i]))}
<1>3. chosen = {}
  BY <1>1, <1>2
<1> QED BY <1>1, <1>3 DEF InventoryAnswer, SelectInSeq

\* The base set, word by word.
LEMMA MainKnows ==
  ASSUME NEW w \in Words, NEW v
  PROVE  /\ w \in Mmi \cup {"SQ"} => Refuses(Main(w, v))
         /\ w \in Quads \cup {"LSA", "COP2"} => Main(w, v) = Unsupported
         /\ w = "OP62" /\ "COP2" \notin v.on => Refuses(Main(w, v))
         /\ w = "MOVN" /\ v.rev = "III" => Main(w, v) = Invalid
         /\ w = "ASX" /\ v.rev \notin {"I", "II"} => Main(w, v) = Unsupported
<1>1. ASSUME w \in Mmi PROVE Refuses(Main(w, v))
  <2>1. Main(w, v) = Guarded(v.rev \notin Legacy \cup R6, TRUE, Invalid)
    BY <1>1, Zenon DEF Main, Mmi
  <2> QED BY <2>1, RefusalsRefuse DEF Guarded, Refuses
<1>2. ASSUME w = "SQ" PROVE Refuses(Main(w, v))
  <2>1. Main(w, v) = Guarded(v.rev \in Release2Up, TRUE, Invalid)
    BY <1>2, Zenon DEF Main, Mmi
  <2> QED BY <2>1, RefusalsRefuse DEF Guarded, Refuses
<1>3. ASSUME w \in Quads \cup {"LSA", "COP2"} PROVE Main(w, v) = Unsupported
  BY <1>3, Zenon DEF Main, Mmi, Quads
<1>4. ASSUME w = "OP62", "COP2" \notin v.on PROVE Refuses(Main(w, v))
  <2> DEFINE a == Guarded("COP2" \notin v.on, FALSE, Ok(405))
  <2>1. a = Unsupported
    BY <1>4 DEF Guarded
  <2> HIDE DEF a
  <2>2. Main(w, v) = IF v.rev \in {"I"} \cup R6 THEN Invalid ELSE a
    BY <1>4, Zenon DEF Main, Mmi, a
  <2> QED BY <2>1, <2>2, RefusalsRefuse DEF Refuses
<1>5. ASSUME w = "MOVN", v.rev = "III" PROVE Main(w, v) = Invalid
  <2> DEFINE ok == Ok(101)
  <2> HIDE DEF ok
  <2>1. Main(w, v) = Guarded(FALSE, v.rev \in {"I", "II", "III"} \cup R6, ok)
    BY <1>5, Zenon DEF Main, Mmi, ok
  <2> QED BY <1>5, <2>1 DEF Guarded
<1>6. ASSUME w = "ASX", v.rev \notin {"I", "II"} PROVE Main(w, v) = Unsupported
  <2> DEFINE ok == Ok(407)
  <2> HIDE DEF ok
  <2>1. Main(w, v) = Guarded(v.rev \notin {"I", "II"} \/ "COP3" \notin v.on, FALSE, ok)
    BY <1>6, Zenon DEF Main, Mmi, ok
  <2> QED BY <1>6, <2>1 DEF Guarded
<1> QED BY <1>1, <1>2, <1>3, <1>4, <1>5, <1>6

LEMMA ModulesBare ==
  ASSUME NEW w \in Words, NEW v, Bare(v)
  PROVE  Refuses(Modules(w, v))
<1>1. Refuses(Msa(w, v))
  BY RefusalsRefuse DEF Msa, Guarded, Bare, Refuses
<1>2. Refuses(Adduh(v))
  BY RefusalsRefuse DEF Adduh, Guarded, Bare, Refuses
<1> QED BY <1>1, <1>2, RefusalsRefuse DEF Modules, Refuses

LEMMA BaseBare ==
  ASSUME NEW w \in Words, NEW v, Bare(v),
         \/ w \notin {"MOVN", "OP62", "ASX"}
         \/ w = "OP62" /\ "COP2" \notin v.on
         \/ w = "MOVN" /\ v.rev = "III"
         \/ w = "ASX" /\ v.rev \notin {"I", "II"}
  PROVE  Refuses(Base(w, v))
<1>1. Refuses(Main(w, v))
  BY MainKnows, RefusalsRefuse DEF Words, Refuses
<1> QED BY <1>1, ModulesBare DEF Base

\* Where no processor is asked about the word, the common decoders answer.
LEMMA CoreBare ==
  ASSUME NEW w \in Words, NEW v, Bare(v), ~VendorsAsked(w, v),
         "ALLEGREX" \in Asked(v) => w \notin {"COP2", "OP62", "SQ"},
         "R5900" \in Asked(v) => w \notin R5900Owned /\ v.mode = 64 /\ v.rev = "III"
  PROVE  CoreAnswer(w, v) = Base(w, v)
<1>1. "ALLEGREX" \in Asked(v) => AllegrexAllowed(w) /\ w \notin AllegrexOwned
  BY DEF AllegrexAllowed, AllegrexOwned
<1>2. CoreAnswer(w, v) = ProcessorAnswer(ProcessorClaims(w, v), w, v)
  BY <1>1, VendorsSilent DEF CoreAnswer
<1>3. Allegrex(w, v) = Unsupported
  BY DEF Allegrex, Guarded, Bare
<1>4. "R5900" \in Asked(v) => R5900(w, v) = Unsupported
  BY DEF R5900, Guarded, Bare, R5900Owned
<1>5. CoreAnswer(w, v) = Probed(Winner(CommonClaims(w, v)).answer, FALSE, w, v)
  BY <1>1, <1>2, <1>3, <1>4, ProcessorsSilent
<1>6. InventoryAnswer(w, v) = Unsupported
  BY InventorySilent DEF Bare
<1>7. Mxu(w, v) = Unsupported
  BY DEF Mxu, Guarded, Bare
<1>8. Winner(CommonClaims(w, v)).answer = Base(w, v)
  BY <1>6, <1>7, CommonIsBase DEF Bare
<1> QED BY <1>5, <1>6, <1>8, RefusalsRefuse DEF Probed

\* The common decoders do not look at the processor.
LEMMA BaseSame ==
  ASSUME NEW w \in Words, NEW u, NEW v, Bare(u), Bare(v),
         u.mode = v.mode, u.rev = v.rev, u.on = v.on,
         ~({"MSA", "LOONGSIMD"} \subseteq u.policy), ~({"MSA", "LOONGSIMD"} \subseteq v.policy)
  PROVE  Base(w, u) = Base(w, v)
<1>1. Main(w, u) = Main(w, v)
  BY MainSame
<1>2. Adduh(u) = Adduh(v)
  BY DEF Adduh, Guarded
<1>3. Msa(w, u) = Msa(w, v)
  BY DEF Msa, MsaRevision, Guarded
<1>4. Modules(w, u) = Modules(w, v)
  BY <1>2, <1>3 DEF Modules
<1> QED BY <1>1, <1>4 DEF Base

-----------------------------------------------------------------------------
(* The processors that keep an encoding space to themselves, with that     *)
(* space not selected.                                                     *)

\* What the generic view makes of a word: nothing stands before the common
\* decoders.
LEMMA GenericBare ==
  ASSUME NEW w \in Words, NEW g, Bare(g), g.policy = {}
  PROVE  CoreAnswer(w, g) = Base(w, g)
<1>1. Asked(g) \subseteq {"FPU", "COP2", "FPR32"}
  BY DEF Asked, Bare
<1> QED BY <1>1, CoreBare DEF VendorsAsked, Bare

NetLogicViews(v, g, own) ==
  /\ own \in {"XLR", "XLP"}
  /\ Bare(v) /\ Bare(g)
  /\ v.mode = g.mode /\ v.rev = g.rev /\ v.on = g.on
  /\ v.policy = {own} /\ g.policy = {}

LEMMA NetLogicBare ==
  ASSUME NEW w \in Words, NEW v, NEW g, NEW own, NetLogicViews(v, g, own)
  PROVE  \/ CoreAnswer(w, v) = CoreAnswer(w, g)
         \/ Refuses(CoreAnswer(w, v)) /\ Refuses(CoreAnswer(w, g))
<1> USE DEF NetLogicViews
<1>1. CoreAnswer(w, g) = Base(w, g)
  BY GenericBare
<1>2. Asked(v) \subseteq {"FPU", "COP2", "FPR32", own} /\ own \in Asked(v)
  BY DEF Asked, Bare
<1>3. CASE w \in NetLogicOwned
  <2>1. Refuses(Base(w, g))
    BY <1>3, BaseBare DEF NetLogicOwned
  <2>2. CoreAnswer(w, v) = VendorAnswer(VendorClaims(w, v), w, v)
    BY <1>2 DEF CoreAnswer
  <2>3. CoreAnswer(w, v) \in {Xlp(w, v), Xlr(w, v)}
    BY <1>2, <1>3, <2>2, XlpAnswers, XlrAnswers
  <2>4. Refuses(Xlp(w, v)) /\ Refuses(Xlr(w, v))
    BY DEF Refuses, Bare, Xlp, Xlr, Guarded
  <2> QED BY <1>1, <2>1, <2>3, <2>4
<1>4. CASE w \notin NetLogicOwned
  <2>1. CoreAnswer(w, v) = Base(w, v)
    BY <1>2, <1>4, CoreBare DEF VendorsAsked, Bare
  <2>2. Base(w, v) = Base(w, g)
    BY BaseSame
  <2> QED BY <1>1, <2>1, <2>2
<1> QED BY <1>3, <1>4

\* An Allegrex that does not use its own words: 32 bits, revision 32R1.
LEMMA AllegrexBare ==
  ASSUME NEW w \in Words, NEW v, NEW g, Bare(v), Bare(g), "COP2" \notin v.on,
         v.mode = g.mode, v.rev = g.rev, v.on = g.on,
         v.policy = {"ALLEGREX"}, g.policy = {}
  PROVE  \/ CoreAnswer(w, v) = CoreAnswer(w, g)
         \/ Refuses(CoreAnswer(w, v)) /\ Refuses(CoreAnswer(w, g))
<1>1. CoreAnswer(w, g) = Base(w, g)
  BY GenericBare
<1>2. Asked(v) \subseteq {"FPU", "FPR32", "ALLEGREX"} /\ "ALLEGREX" \in Asked(v)
  BY DEF Asked, Bare
<1>3. CASE w \in {"COP2", "OP62", "SQ"}
  <2>1. Refuses(Base(w, g))
    BY <1>3, BaseBare
  <2>2. Refuses(CoreAnswer(w, v))
    <3>1. CASE w = "COP2"
      BY <1>2, <3>1, RefusalsRefuse DEF CoreAnswer, AllegrexAllowed, Refuses
    <3>2. CASE w \in {"OP62", "SQ"}
      <4>1. ~VendorsAsked(w, v)
        BY <1>2 DEF VendorsAsked, Bare
      <4>2. CoreAnswer(w, v) = ProcessorAnswer(ProcessorClaims(w, v), w, v)
        BY <3>2, <4>1, VendorsSilent DEF CoreAnswer, AllegrexAllowed
      <4>3. Allegrex(w, v) = Unsupported
        BY DEF Allegrex, Guarded, Bare
      <4> QED BY <1>2, <3>2, <4>2, <4>3, AllegrexAnswers, RefusalsRefuse DEF AllegrexOwned, Refuses
    <3> QED BY <1>3, <3>1, <3>2
  <2> QED BY <1>1, <2>1, <2>2
<1>4. CASE w \notin {"COP2", "OP62", "SQ"}
  <2>1. CoreAnswer(w, v) = Base(w, v)
    BY <1>2, <1>4, CoreBare DEF VendorsAsked, Bare
  <2>2. Base(w, v) = Base(w, g)
    BY BaseSame
  <2> QED BY <1>1, <2>1, <2>2
<1> QED BY <1>3, <1>4

\* An R5900 that does not use its own words has a MOVN, and nothing else.
LEMMA R5900Bare ==
  ASSUME NEW w \in Words, NEW v, NEW g, Bare(v), Bare(g), "COP2" \notin v.on,
         "COP2" \notin g.on,
         v.mode = 64, v.rev = "III", g.mode = 64, g.rev = "III",
         v.policy = {"R5900"}, g.policy = {}
  PROVE  /\ Refuses(CoreAnswer(w, g))
         /\ Refuses(CoreAnswer(w, v)) \/ CoreAnswer(w, v) = Ok(49980)
<1>1. CoreAnswer(w, g) = Base(w, g)
  BY GenericBare
<1>2. Refuses(Base(w, g)) /\ Refuses(Base(w, v))
  BY BaseBare
<1>3. Asked(v) \subseteq {"FPU", "FPR32", "R5900"} /\ "R5900" \in Asked(v)
  BY DEF Asked, Bare
<1>4. CoreAnswer(w, v) = VendorAnswer(VendorClaims(w, v), w, v)
  BY <1>3 DEF CoreAnswer
<1>5. CASE w \in {"COP2", "OP62"}
  <2>1. CoreAnswer(w, v) = VuMacro(w, v)
    BY <1>3, <1>4, <1>5, VuMacroAnswers DEF Bare
  <2>2. Refuses(VuMacro(w, v))
    BY DEF VuMacro, Guarded, Bare, Refuses
  <2> QED BY <1>1, <1>2, <2>1, <2>2
<1>6. CASE w \in R5900Owned
  <2>1. ~VendorsAsked(w, v)
    BY <1>3, <1>6 DEF VendorsAsked, Bare, R5900Owned, Mmi, Quads
  <2>2. CoreAnswer(w, v) = Probed(R5900(w, v), R5900(w, v) = Unsupported, w, v)
    <3>1. "ALLEGREX" \notin Asked(v) /\ "R5900" \in Asked(v)
      BY <1>3
    <3>2. CoreAnswer(w, v) = ProcessorAnswer(ProcessorClaims(w, v), w, v)
      BY <1>4, <2>1, VendorsSilent
    <3>3. ProcessorAnswer(ProcessorClaims(w, v), w, v) =
            Probed(R5900(w, v), R5900(w, v) = Unsupported, w, v)
      BY <1>6, <3>1, R5900Answers, Zenon
    <3> QED BY <3>2, <3>3, Zenon
  <2>3. InventoryAnswer(w, v) = Unsupported
    BY InventorySilent DEF Bare
  <2>4. CoreAnswer(w, v) = R5900(w, v)
    BY <2>2, <2>3, RefusalsRefuse DEF Probed
  <2>5. R5900(w, v) \in {Unsupported, Ok(49980)}
    BY DEF R5900, Guarded, Bare
  <2> QED BY <1>1, <1>2, <2>4, <2>5, RefusalsRefuse DEF Refuses
<1>7. CASE w \notin {"COP2", "OP62"} \cup R5900Owned
  <2>1. CoreAnswer(w, v) = Base(w, v)
    BY <1>3, <1>7, CoreBare DEF VendorsAsked, Bare, R5900Owned, Mmi, NetLogicOwned
  <2> QED BY <1>1, <1>2, <2>1
<1> QED BY <1>5, <1>6, <1>7

-----------------------------------------------------------------------------
(* The 3A4000, which keeps MSA at Release 2 without LOONGSIMD.             *)

\* Before Release 6 and without a family of the inventory, what the vendors
\* leave of an MSA word is for the MSA decoder.
LEMMA MsaLast ==
  ASSUME NEW w \in DOMAIN MsaForms, NEW v, v.mode = 64, v.rev = "64R2",
         v.on \cap {"CNMIPS", "CNMIPSP", "MDMX"} = {},
         {"ALLEGREX", "R5900"} \cap Asked(v) = {}
  PROVE  LET given == ProcessorAnswer(ProcessorClaims(w, v), w, v)
         IN  given = Msa(w, v)
<1>1. w \in Quads \cup {"LSA"} /\ w \in Words
  BY DEF MsaForms, Quads, Words
<1>2. ProcessorAnswer(ProcessorClaims(w, v), w, v) =
        Probed(Winner(CommonClaims(w, v)).answer, FALSE, w, v)
  BY ProcessorsSilent
<1>3. InventoryAnswer(w, v) = Unsupported
  <2>1. \A row \in Range(Inventory[w]) : row.needs = {"MDMX", "FPU"}
    BY <1>1 DEF Inventory, Row, Range, Quads
  <2>2. \A row \in Range(Inventory[w]) : ~RowEnabled(row, v)
    BY <2>1 DEF RowEnabled
  <2>3. \A i \in 1..Len(Inventory[w]) : Inventory[w][i] \in Range(Inventory[w])
    BY <1>1, InventoryLists DEF Range
  <2> DEFINE chosen == {i \in 1..Len(Inventory[w]) :
                          /\ RowEnabled(Inventory[w][i], v)
                          /\ ~("FPR32" \in v.on /\ NeedsWideFprs(Inventory[w][i]))}
  <2>4. chosen = {}
    BY <2>2, <2>3
  <2> QED BY <2>2, <2>4 DEF InventoryAnswer, SelectInSeq
<1>4. Mxu(w, v) = Unsupported /\ v.rev \notin R6
  BY DEF Mxu, MxuServes, Guarded, R6
<1>5. Winner(CommonClaims(w, v)).answer = Base(w, v)
  BY <1>3, <1>4, CommonIsBase
<1>6. Main(w, v) = Unsupported
  BY <1>1, MainKnows
<1>7. Base(w, v) = Msa(w, v)
  BY <1>6 DEF Base, Modules
<1> QED BY <1>2, <1>3, <1>5, <1>7, RefusalsRefuse DEF Probed

LEMMA MsaKept ==
  ASSUME NEW w \in Words, NEW v, NEW g, v.mode = 64, v.rev = "64R2",
         Alike(v, g),
         v.on \subseteq {"FPU", "MSA", "LOONGSON", "LOONGSIMD", "LOONGASX", "FPR32"},
         Asked(v) \subseteq v.on \cup {"MSA", "LOONGSIMD"},
         Asked(g) \subseteq v.on
  PROVE  \/ CoreAnswer(w, v) = CoreAnswer(w, g)
         \/ /\ Refuses(CoreAnswer(w, g))
            /\ Refuses(CoreAnswer(w, v)) \/ \E f \in Range(MsaForms) : CoreAnswer(w, v) = Ok(f)
<1>1. CASE w \notin DOMAIN MsaForms \/ Msa(w, v) = Msa(w, g)
  BY <1>1, AlikeCore
<1>2. CASE w \in DOMAIN MsaForms /\ Msa(w, v) # Msa(w, g)
  <2>1. g.mode = 64 /\ g.rev = "64R2" /\ g.on = v.on
    BY DEF Alike
  <2>2. /\ ProcessorAnswer(ProcessorClaims(w, v), w, v) = Msa(w, v)
        /\ ProcessorAnswer(ProcessorClaims(w, g), w, g) = Msa(w, g)
    BY <1>2, <2>1, MsaLast
  <2>3. /\ CoreAnswer(w, v) = VendorAnswer(VendorClaims(w, v), w, v)
        /\ CoreAnswer(w, g) = VendorAnswer(VendorClaims(w, g), w, g)
    BY DEF CoreAnswer
  <2>4. VendorClaims(w, v) = VendorClaims(w, g)
    BY AlikeClaims
  <2>5. \/ CoreAnswer(w, v) = CoreAnswer(w, g)
        \/ CoreAnswer(w, v) = Msa(w, v) /\ CoreAnswer(w, g) = Msa(w, g)
    BY <2>2, <2>3, <2>4 DEF VendorAnswer
  <2>6. "LOONGSIMD" \notin v.on
    BY <1>2, <2>1 DEF Msa, MsaRevision, Guarded
  <2>7. Msa(w, g) = Invalid
    BY <2>1, <2>6 DEF Msa, MsaRevision, R6, Asked
  <2>8. Msa(w, v) \in {Invalid, Unsupported, Ok(MsaForms[w])}
    BY DEF Msa, Guarded
  <2>9. MsaForms[w] \in Range(MsaForms)
    BY <1>2 DEF Range
  <2> QED BY <2>5, <2>7, <2>8, <2>9, RefusalsRefuse DEF Refuses
<1> QED BY <1>1, <1>2

-----------------------------------------------------------------------------
(* Every answer is some decoder's.                                         *)

LEMMA SomeWinner ==
  ASSUME NEW claims, Len(claims) \in 1..6, NEW i \in 1..Len(claims), claims[i].made
  PROVE  \E k \in 1..Len(claims) : Winner(claims) = claims[k]
<1> DEFINE First(k) == /\ k \in 1..Len(claims) /\ claims[k].made
                       /\ \A j \in 1..Len(claims) : j < k => ~claims[j].made
<1>1. \E k \in 1..6 : First(k)
  <2>1. CASE Len(claims) >= 1 /\ claims[1].made
    BY <2>1
  <2>2. CASE Len(claims) >= 2 /\ claims[2].made /\ ~claims[1].made
    BY <2>2
  <2>3. CASE Len(claims) >= 3 /\ claims[3].made /\ ~claims[1].made /\ ~claims[2].made
    BY <2>3
  <2>4. CASE /\ Len(claims) >= 4 /\ claims[4].made
             /\ ~claims[1].made /\ ~claims[2].made /\ ~claims[3].made
    BY <2>4
  <2>5. CASE /\ Len(claims) >= 5 /\ claims[5].made
             /\ ~claims[1].made /\ ~claims[2].made /\ ~claims[3].made /\ ~claims[4].made
    BY <2>5
  <2>6. CASE /\ Len(claims) >= 6 /\ claims[6].made
             /\ ~claims[1].made /\ ~claims[2].made /\ ~claims[3].made /\ ~claims[4].made
             /\ ~claims[5].made
    BY <2>6, SMTT(30)
  <2> QED BY <2>1, <2>2, <2>3, <2>4, <2>5, <2>6, SMTT(30)
<1>2. PICK k \in 1..6 : First(k)
  BY <1>1
<1> QED BY <1>2, WinnerAt

LEMMA FirstOfThree ==
  ASSUME NEW a, NEW b, NEW c
  PROVE  FirstAnswer(<<a, b, c>>) = IF a # Unsupported THEN a ELSE IF b # Unsupported THEN b ELSE c
<1> DEFINE s == <<a, b, c>>
           I == {i \in 1..Len(s) : s[i] # Unsupported}
<1>1. FirstAnswer(s) = IF I = {} THEN Unsupported ELSE s[Min(I)]
  <2>1. SelectInSeq(s, LAMBDA x : x # Unsupported) = IF I # {} THEN Min(I) ELSE 0
    BY DEF SelectInSeq
  <2>2. I # {} => Min(I) # 0
    <3> SUFFICES ASSUME I # {} PROVE Min(I) \in 1..3
      OBVIOUS
    <3>1. \E x \in I : \A y \in I : x <= y
      BY SMTT(30)
    <3>2. Min(I) \in I
      BY <3>1, Zenon DEF Min
    <3> QED BY <3>2
  <2> QED BY <2>1, <2>2 DEF FirstAnswer
<1>2. CASE a # Unsupported
  <2>1. 1 \in I /\ \A y \in I : 1 <= y
    BY <1>2
  <2>2. Min(I) \in I /\ Min(I) <= 1
    BY <2>1, Zenon DEF Min
  <2>3. Min(I) = 1
    BY <2>2
  <2> QED BY <1>1, <1>2, <2>1, <2>3
<1>3. CASE a = Unsupported /\ b # Unsupported
  <2>1. 2 \in I /\ \A y \in I : 2 <= y
    BY <1>3
  <2>2. Min(I) \in I /\ Min(I) <= 2
    BY <2>1, Zenon DEF Min
  <2>3. Min(I) = 2
    BY <2>1, <2>2
  <2> QED BY <1>1, <1>3, <2>1, <2>3
<1>4. CASE a = Unsupported /\ b = Unsupported /\ c # Unsupported
  <2>1. 3 \in I /\ \A y \in I : 3 <= y
    BY <1>4
  <2>2. Min(I) \in I /\ Min(I) <= 3
    BY <2>1, Zenon DEF Min
  <2>3. Min(I) = 3
    BY <2>1, <2>2
  <2> QED BY <1>1, <1>4, <2>1, <2>3
<1>5. CASE a = Unsupported /\ b = Unsupported /\ c = Unsupported
  <2>1. I = {}
    BY <1>5
  <2> QED BY <1>1, <1>5, <2>1
<1> QED BY <1>2, <1>3, <1>4, <1>5

\* The decoders, and the two refusals.
Answers(w, v) ==
  {Unsupported, Invalid,
   Xlp(w, v), Xlr(w, v), MxuVector(w, v), Loongasx(w, v), Loongsimd(w, v), VuMacro(w, v),
   Allegrex(w, v), R5900(w, v), Mxu(w, v), InventoryAnswer(w, v), Main(w, v), Modules(w, v),
   Release6(w, v)}

LEMMA CoreSource ==
  ASSUME NEW w, NEW v
  PROVE  CoreAnswer(w, v) \in Answers(w, v)
<1>1. Extra(w, v) \in {Unsupported, Modules(w, v), Release6(w, v)}
  BY FirstOfThree DEF Extra
<1>2. Winner(CommonClaims(w, v)).answer \in Answers(w, v)
  <2> DEFINE claims == CommonClaims(w, v)
  <2>1. Len(claims) = 5 /\ claims[5].made
    BY DEF CommonClaims, Claim
  <2>2. /\ claims[1].answer = Mxu(w, v) /\ claims[2].answer = InventoryAnswer(w, v)
        /\ claims[3].answer = Extra(w, v) /\ claims[4].answer = Main(w, v)
        /\ claims[5].answer = Extra(w, v)
    BY DEF CommonClaims, Claim
  <2> HIDE DEF claims
  <2>3. \E k \in 1..5 : Winner(claims) = claims[k]
    BY <2>1, SomeWinner
  <2>4. Winner(claims).answer \in {Mxu(w, v), InventoryAnswer(w, v), Extra(w, v), Main(w, v)}
    BY <2>2, <2>3
  <2> QED BY <1>1, <2>4 DEF Answers, claims
<1>4. ProcessorAnswer(ProcessorClaims(w, v), w, v) \in Answers(w, v)
  <2> DEFINE own == ProcessorClaims(w, v)
  <2>1. Len(own) = 2 /\ DOMAIN own = 1..2
    BY DEF ProcessorClaims
  <2>2. own[1].answer = Allegrex(w, v) /\ own[2].answer = R5900(w, v)
    BY DEF ProcessorClaims, Claim
  <2> HIDE DEF own
  <2>3. CASE \E k \in DOMAIN own : own[k].made
    <3>1. \E k \in 1..2 : Winner(own) = own[k]
      BY <2>1, <2>3, SomeWinner
    <3>2. Winner(own).answer \in Answers(w, v)
      BY <2>2, <3>1 DEF Answers
    <3>3. ProcessorAnswer(own, w, v) \in {Winner(own).answer, InventoryAnswer(w, v)}
      BY <2>3 DEF ProcessorAnswer, Probed
    <3> QED BY <3>2, <3>3 DEF own, Answers
  <2>4. CASE ~\E k \in DOMAIN own : own[k].made
    <3>1. ProcessorAnswer(own, w, v) \in
            {Winner(CommonClaims(w, v)).answer, InventoryAnswer(w, v)}
      BY <2>4 DEF ProcessorAnswer, Probed
    <3> QED BY <1>2, <3>1 DEF own, Answers
  <2> QED BY <2>3, <2>4
<1>5. VendorAnswer(VendorClaims(w, v), w, v) \in Answers(w, v)
  <2> DEFINE claims == VendorClaims(w, v)
  <2>1. Len(claims) = 6 /\ DOMAIN claims = 1..6
    BY DEF VendorClaims
  <2>2. /\ claims[1].answer = Xlp(w, v) /\ claims[2].answer = Xlr(w, v)
        /\ claims[3].answer = MxuVector(w, v) /\ claims[4].answer = Loongasx(w, v)
        /\ claims[5].answer = Loongsimd(w, v) /\ claims[6].answer = VuMacro(w, v)
    BY DEF VendorClaims, Claim
  <2> HIDE DEF claims
  <2>3. CASE \E k \in DOMAIN claims : claims[k].made
    <3>1. \E k \in 1..6 : Winner(claims) = claims[k]
      BY <2>1, <2>3, SomeWinner
    <3>2. Winner(claims).answer \in Answers(w, v)
      BY <2>2, <3>1, SMTT(30) DEF Answers
    <3> QED BY <2>3, <3>2 DEF VendorAnswer, claims
  <2>4. CASE ~\E k \in DOMAIN claims : claims[k].made
    BY <1>4, <2>4 DEF VendorAnswer, claims
  <2> QED BY <2>3, <2>4
<1> QED BY <1>5 DEF CoreAnswer, Answers

-----------------------------------------------------------------------------
(* Forms.                                                                  *)

RowFamilies ==
  {"CNMIPS", "CNMIPSP", "LOONGSON", "LOONGSON2E", "LOONGSON2F", "LOONGSON_EXT",
   "LOONGSON_CAM", "MDMX", "FPU"}

LEMMA RowForms ==
  ASSUME NEW w \in Words, NEW row \in Range(Inventory[w])
  PROVE  row.form \in 20000..20999 /\ row.needs \subseteq RowFamilies
<1> USE DEF Inventory, Row, RowFamilies, Range, Quads
<1>1. CASE w = "OP62"
  BY <1>1
<1>2. CASE w = "MMI25"
  BY <1>2
<1>3. CASE w = "MMI17"
  BY <1>3
<1>4. CASE w = "MMI53"
  BY <1>4
<1>5. CASE w = "COPY"
  BY <1>5
<1>6. CASE w = "INSERT"
  BY <1>6
<1>7. CASE w = "QUAD"
  BY <1>7
<1>8. CASE w = "COP2"
  BY <1>8
<1>9. CASE w = "SQ"
  BY <1>9
<1>10. CASE w = "MOVN"
  BY <1>10
<1>11. CASE w \in {"LSA", "ASX"}
  BY <1>11
<1> QED
  BY <1>1, <1>2, <1>3, <1>4, <1>5, <1>6, <1>7, <1>8, <1>9, <1>10, <1>11
  DEF Words, Mmi

LEMMA MsaFormsListed ==
  /\ DOMAIN MsaForms = {"COPY", "QUAD", "INSERT", "LSA"}
  /\ Range(MsaForms) = {16692, 16778, 16861, 16876}
BY DEF MsaForms, Range

LEMMA RowNeeds ==
  ASSUME NEW f, NEW r
  PROVE  \/ \E row \in RowsOfInventory : row.form = f /\ Needs(f, r) = row.needs
         \/ Needs(f, r) = NumberedNeeds(f, r)
<1>1. CASE \E row \in RowsOfInventory : row.form = f
  <2> DEFINE row == CHOOSE x \in RowsOfInventory : x.form = f
  <2>1. row \in RowsOfInventory /\ row.form = f
    BY <1>1, Zenon
  <2>2. Needs(f, r) = row.needs
    BY <1>1, Zenon DEF Needs
  <2> HIDE DEF row
  <2> QED BY <2>1, <2>2
<1>2. CASE ~\E row \in RowsOfInventory : row.form = f
  BY <1>2, Zenon DEF Needs
<1> QED BY <1>1, <1>2

LEMMA NumberedOwn ==
  ASSUME NEW f \in Nat, NEW r
  PROVE  /\ "FPR32" \notin NumberedNeeds(f, r)
         /\ "ALLEGREX" \in NumberedNeeds(f, r) => (f >= 40000 /\ f <= 44999)
         /\ "R5900" \in NumberedNeeds(f, r) => (f >= 45000 /\ f <= 49999) \/ (f >= 62000 /\ f <= 64999)
         /\ "XLR" \in NumberedNeeds(f, r) => (f >= 65000 /\ f <= 65019)
         /\ "XLP" \in NumberedNeeds(f, r) => (f >= 65020 /\ f <= 65099)
         /\ "MSA" \in NumberedNeeds(f, r) => f \in Range(MsaForms)
         /\ "LOONGSIMD" \in NumberedNeeds(f, r) => f \in Range(MsaForms) \/ (f >= 59000 /\ f <= 59079)
<1>1. MsaNeeds(r) \subseteq {"MSA", "FPU", "LOONGSON", "LOONGSIMD"}
  BY DEF MsaNeeds
<1>2. "FPR32" \notin NumberedNeeds(f, r)
  BY <1>1 DEF NumberedNeeds
<1>3. "ALLEGREX" \in NumberedNeeds(f, r) => (f >= 40000 /\ f <= 44999)
  BY <1>1 DEF NumberedNeeds
<1>4. "R5900" \in NumberedNeeds(f, r) => (f >= 45000 /\ f <= 49999) \/ (f >= 62000 /\ f <= 64999)
  BY <1>1 DEF NumberedNeeds
<1>5. "XLR" \in NumberedNeeds(f, r) => (f >= 65000 /\ f <= 65019)
  BY <1>1 DEF NumberedNeeds
<1>6. "XLP" \in NumberedNeeds(f, r) => (f >= 65020 /\ f <= 65099)
  BY <1>1 DEF NumberedNeeds
<1>7. "MSA" \in NumberedNeeds(f, r) => f \in Range(MsaForms)
  BY DEF NumberedNeeds
<1>8. "LOONGSIMD" \in NumberedNeeds(f, r) => f \in Range(MsaForms) \/ (f >= 59000 /\ f <= 59079)
  BY DEF NumberedNeeds
<1> QED BY <1>2, <1>3, <1>4, <1>5, <1>6, <1>7, <1>8

LEMMA NeedsListed ==
  ASSUME NEW f \in Nat, NEW r
  PROVE  /\ "FPR32" \notin Needs(f, r)
         /\ "ALLEGREX" \in Needs(f, r) => (f >= 40000 /\ f <= 44999)
         /\ "R5900" \in Needs(f, r) => (f >= 45000 /\ f <= 49999) \/ (f >= 62000 /\ f <= 64999)
         /\ "XLR" \in Needs(f, r) => (f >= 65000 /\ f <= 65019)
         /\ "XLP" \in Needs(f, r) => (f >= 65020 /\ f <= 65099)
         /\ "MSA" \in Needs(f, r) => f \in Range(MsaForms)
         /\ "LOONGSIMD" \in Needs(f, r) => f \in Range(MsaForms) \/ (f >= 59000 /\ f <= 59079)
<1>1. ASSUME NEW row \in RowsOfInventory, row.form = f, Needs(f, r) = row.needs
      PROVE  Needs(f, r) \subseteq RowFamilies
  <2>1. PICK w \in Words : row \in Range(Inventory[w])
    BY <1>1 DEF RowsOfInventory
  <2> QED BY <1>1, <2>1, RowForms
<1>2. CASE Needs(f, r) = NumberedNeeds(f, r)
  BY <1>2, NumberedOwn
<1>3. CASE \E row \in RowsOfInventory : row.form = f /\ Needs(f, r) = row.needs
  <2>1. Needs(f, r) \subseteq RowFamilies
    BY <1>1, <1>3
  <2>2. \A x \in {"FPR32", "ALLEGREX", "R5900", "XLR", "XLP", "MSA", "LOONGSIMD"} :
          x \notin Needs(f, r)
    BY <2>1 DEF RowFamilies
  <2> QED BY <2>2
<1> QED BY <1>2, <1>3, RowNeeds

\* The rows of a word the inventory can answer with; it takes the first.
Chosen(w, v) ==
  {i \in 1..Len(Inventory[w]) :
     RowEnabled(Inventory[w][i], v) /\ ~("FPR32" \in v.on /\ NeedsWideFprs(Inventory[w][i]))}

LEMMA InventoryPicks ==
  ASSUME NEW w \in Words, NEW v
  PROVE  /\ Chosen(w, v) = {} => InventoryAnswer(w, v) \in {Unsupported, Invalid}
         /\ Chosen(w, v) # {} =>
              \E i \in Chosen(w, v) :
                /\ \A j \in Chosen(w, v) : i <= j
                /\ InventoryAnswer(w, v) = Ok(Inventory[w][i].form)
<1> DEFINE k == SelectInSeq(Inventory[w],
                            LAMBDA row : /\ RowEnabled(row, v)
                                         /\ ~("FPR32" \in v.on /\ NeedsWideFprs(row)))
<1>1. k = IF Chosen(w, v) # {} THEN Min(Chosen(w, v)) ELSE 0
  BY DEF SelectInSeq, Chosen
<1>2. InventoryAnswer(w, v) = IF k # 0 THEN Ok(Inventory[w][k].form)
                              ELSE IF \E row \in Range(Inventory[w]) : RowEnabled(row, v)
                              THEN Invalid ELSE Unsupported
  BY Zenon DEF InventoryAnswer
<1> HIDE DEF k
<1>3. ASSUME Chosen(w, v) # {}
      PROVE  k \in Chosen(w, v) /\ k # 0 /\ \A j \in Chosen(w, v) : k <= j
  <2>1. Len(Inventory[w]) \in 0..3
    BY SMTT(30) DEF Inventory, Words, Mmi, Quads
  <2>2. Chosen(w, v) \subseteq 1..3
    BY <2>1 DEF Chosen
  <2>3. \E x \in Chosen(w, v) : \A y \in Chosen(w, v) : x <= y
    BY <1>3, <2>2, SMTT(30)
  <2>4. /\ Min(Chosen(w, v)) \in Chosen(w, v)
        /\ \A y \in Chosen(w, v) : Min(Chosen(w, v)) <= y
    BY <2>3, Zenon DEF Min
  <2>5. k \in Chosen(w, v) /\ \A y \in Chosen(w, v) : k <= y
    BY <1>1, <1>3, <2>4
  <2> QED BY <2>2, <2>5
<1> QED BY <1>1, <1>2, <1>3

\* Every decoder numbers its forms in a range of its own.
LEMMA InventoryForms ==
  ASSUME NEW w \in Words, NEW v, InventoryAnswer(w, v).status = "OK"
  PROVE  InventoryAnswer(w, v).form \in 20000..20999
<1>1. Chosen(w, v) # {}
  BY InventoryPicks, RefusalsRefuse
<1>2. PICK i \in Chosen(w, v) : InventoryAnswer(w, v) = Ok(Inventory[w][i].form)
  BY <1>1, InventoryPicks
<1>3. Inventory[w][i] \in Range(Inventory[w])
  BY InventoryLists DEF Range, Chosen
<1>4. InventoryAnswer(w, v).form = Inventory[w][i].form
  BY <1>2 DEF Ok, Unsupported
<1> QED BY <1>3, <1>4, RowForms

LEMMA MainForms ==
  ASSUME NEW w \in Words, NEW v, Main(w, v).status = "OK"
  PROVE  Main(w, v).form \in {101, 405, 407}
<1>1. \A f : Ok(f).form = f
  BY DEF Ok, Unsupported
<1>2. w \in {"MOVN", "OP62", "ASX"}
  BY MainKnows, RefusalsRefuse DEF Words, Refuses
<1>3. CASE w = "MOVN"
  <2> DEFINE ok == Ok(101)
  <2> HIDE DEF ok
  <2>1. Main(w, v) = Guarded(FALSE, v.rev \in {"I", "II", "III"} \cup R6, ok)
    BY <1>3, Zenon DEF Main, Mmi, ok
  <2>2. Main(w, v) = ok
    BY <2>1, RefusalsRefuse DEF Guarded
  <2> QED BY <1>1, <2>2 DEF ok
<1>4. CASE w = "OP62"
  <2> DEFINE ok == Ok(405)
  <2> HIDE DEF ok
  <2>1. Main(w, v) = IF v.rev \in {"I"} \cup R6 THEN Invalid
                     ELSE Guarded("COP2" \notin v.on, FALSE, ok)
    BY <1>4, Zenon DEF Main, Mmi, ok
  <2>2. Main(w, v) = ok
    BY <2>1, RefusalsRefuse DEF Guarded
  <2> QED BY <1>1, <2>2 DEF ok
<1>5. CASE w = "ASX"
  <2> DEFINE ok == Ok(407)
  <2> HIDE DEF ok
  <2>1. Main(w, v) = Guarded(v.rev \notin {"I", "II"} \/ "COP3" \notin v.on, FALSE, ok)
    BY <1>5, Zenon DEF Main, Mmi, ok
  <2>2. Main(w, v) = ok
    BY <2>1, RefusalsRefuse DEF Guarded
  <2> QED BY <1>1, <2>2 DEF ok
<1> QED BY <1>2, <1>3, <1>4, <1>5

LEMMA VendorForms ==
  ASSUME NEW w \in Words, NEW v
  PROVE  /\ Xlp(w, v).status = "OK" => Xlp(w, v).form \in {65022, 65028}
         /\ Xlr(w, v).status = "OK" => Xlr(w, v).form \in {65002, 65008}
         /\ MxuVector(w, v).status = "OK" => MxuVector(w, v).form \in
              {56020, 56202, 56332, 57147, 57289, 57395, 57434}
         /\ Loongasx(w, v).status = "OK" => Loongasx(w, v).form \in {60003, 60004, 60005}
         /\ Loongsimd(w, v).status = "OK" => Loongsimd(w, v).form = 59022
         /\ VuMacro(w, v).status = "OK" => VuMacro(w, v).form \in {62013, 62020}
<1>1. \A f : Ok(f).form = f
  BY DEF Ok, Unsupported
<1> USE <1>1, RefusalsRefuse DEF Guarded, Listed
<1>2. Xlp(w, v).status = "OK" => Xlp(w, v).form \in {65022, 65028}
  BY DEF Xlp
<1>3. Xlr(w, v).status = "OK" => Xlr(w, v).form \in {65002, 65008}
  BY DEF Xlr
<1>4. MxuVector(w, v).status = "OK" => MxuVector(w, v).form \in
              {56020, 56202, 56332, 57147, 57289, 57395, 57434}
  BY DEF MxuVector
<1>5. Loongasx(w, v).status = "OK" => Loongasx(w, v).form \in {60003, 60004, 60005}
  BY DEF Loongasx
<1>6. Loongsimd(w, v).status = "OK" => Loongsimd(w, v).form = 59022
  BY DEF Loongsimd
<1>7. VuMacro(w, v).status = "OK" => VuMacro(w, v).form \in {62013, 62020}
  BY DEF VuMacro
<1> QED BY <1>2, <1>3, <1>4, <1>5, <1>6, <1>7

LEMMA OtherForms ==
  ASSUME NEW w \in Words, NEW v
  PROVE  /\ Allegrex(w, v).status = "OK" => Allegrex(w, v).form \in {41011, 41299, 40036}
         /\ R5900(w, v).status = "OK" =>
              \/ R5900(w, v).form = 49980
              \/ R5900(w, v).form \in {45081, 45088, 45110, 45109} /\ "R5900" \in v.on
         /\ Mxu(w, v).status = "OK" => Mxu(w, v).form \in {50053, 50065, 50087}
         /\ Modules(w, v).status = "OK" => Modules(w, v).form \in {16393} \cup Range(MsaForms)
         /\ Release6(w, v).status = "OK" => Release6(w, v).form \in {600, 268, 332}
<1>1. \A f : Ok(f).form = f
  BY DEF Ok, Unsupported
<1> USE <1>1, RefusalsRefuse DEF Guarded, Listed
<1>2. Allegrex(w, v).status = "OK" => Allegrex(w, v).form \in {41011, 41299, 40036}
  BY DEF Allegrex, AllegrexForms
<1>3. R5900(w, v).status = "OK" =>
        \/ R5900(w, v).form = 49980
        \/ R5900(w, v).form \in {45081, 45088, 45110, 45109} /\ "R5900" \in v.on
  BY DEF R5900, R5900Forms
<1>4. Mxu(w, v).status = "OK" => Mxu(w, v).form \in {50053, 50065, 50087}
  BY DEF Mxu
<1>5. Modules(w, v).status = "OK" => Modules(w, v).form \in {16393} \cup Range(MsaForms)
  <2>1. w \in DOMAIN MsaForms => MsaForms[w] \in Range(MsaForms)
    BY DEF Range
  <2> QED BY <2>1 DEF Modules, Msa, Adduh
<1>6. Release6(w, v).status = "OK" => Release6(w, v).form \in {600, 268, 332}
  BY DEF Release6
<1> QED BY <1>2, <1>3, <1>4, <1>5, <1>6

\* Where a form of the core can come from, and with what enabled.
Placed(f, on) ==
  \/ f \in {65022, 65028} /\ "XLP" \in on
  \/ f \in {65002, 65008} /\ "XLR" \in on
  \/ f = 59022 /\ "LOONGSIMD" \in on
  \/ f \in {62013, 62020} /\ "R5900" \in on
  \/ f \in {41011, 41299, 40036} /\ "ALLEGREX" \in on
  \/ f = 49980
  \/ f \in {45081, 45088, 45110, 45109} /\ "R5900" \in on
  \/ f \in {56020, 56202, 56332, 57147, 57289, 57395, 57434}
  \/ f \in {60003, 60004, 60005}
  \/ f \in {50053, 50065, 50087}
  \/ f \in 20000..20999
  \/ f \in {101, 405, 407, 600, 268, 332, 16393}
  \/ f \in Range(MsaForms)

LEMMA CoreForms ==
  ASSUME NEW w \in Words, NEW v, CoreAnswer(w, v).status = "OK"
  PROVE  CoreAnswer(w, v).form \in Nat /\ Placed(CoreAnswer(w, v).form, v.on)
<1> DEFINE f == CoreAnswer(w, v).form
<1>1. Placed(f, v.on)
  BY CoreSource, RefusalsRefuse, VendorForms, OtherForms, InventoryForms, MainForms,
     XlpDecodes, XlrDecodes, LoongsimdDecodes, VuMacroDecodes, AllegrexDecodes
  DEF Answers, Placed
<1> HIDE DEF f
<1>2. f \in Nat
  BY <1>1, MsaFormsListed DEF Placed
<1> QED BY <1>1, <1>2 DEF f

\* The families a processor, or its policy word, gives decoders of their own.
Own == {"ALLEGREX", "R5900", "XLR", "XLP", "MSA", "LOONGSIMD"}

\* What the answer of the core needs of those families, the request has: but for
\* the MOVN of the R5900, and MSA.
LEMMA CoreNeeds ==
  ASSUME NEW w \in Words, NEW v, NEW r, NEW x \in Own,
         CoreAnswer(w, v).status = "OK", x \in Needs(CoreAnswer(w, v).form, r)
  PROVE  \/ x \in v.on
         \/ CoreAnswer(w, v).form = 49980 /\ x = "R5900"
         \/ CoreAnswer(w, v).form \in Range(MsaForms) /\ x \in {"MSA", "LOONGSIMD"}
<1> DEFINE f == CoreAnswer(w, v).form
<1>1. f \in Nat /\ Placed(f, v.on) /\ x \in Needs(f, r)
  BY CoreForms
<1> SUFFICES \/ x \in v.on
             \/ f = 49980 /\ x = "R5900"
             \/ f \in Range(MsaForms) /\ x \in {"MSA", "LOONGSIMD"}
  OBVIOUS
<1> HIDE DEF f
<1>2. CASE x = "ALLEGREX"
  BY <1>1, <1>2, NeedsListed, MsaFormsListed DEF Placed
<1>3. CASE x = "R5900"
  <2>1. (f >= 45000 /\ f <= 49999) \/ (f >= 62000 /\ f <= 64999)
    BY <1>1, <1>3, NeedsListed
  <2>2. f \notin Range(MsaForms)
    BY <2>1, MsaFormsListed
  <2>3. "R5900" \in v.on \/ f = 49980
    BY <1>1, <2>1, <2>2, SMTT(30) DEF Placed
  <2> QED BY <1>3, <2>3
<1>4. CASE x = "XLR"
  BY <1>1, <1>4, NeedsListed, MsaFormsListed DEF Placed
<1>5. CASE x = "XLP"
  BY <1>1, <1>5, NeedsListed, MsaFormsListed DEF Placed
<1>6. CASE x = "MSA"
  BY <1>1, <1>6, NeedsListed
<1>7. CASE x = "LOONGSIMD"
  BY <1>1, <1>7, NeedsListed, MsaFormsListed DEF Placed
<1> QED BY <1>2, <1>3, <1>4, <1>5, <1>6, <1>7 DEF Own

-----------------------------------------------------------------------------
(* Named processors.                                                       *)

\* The generic processor refuses what this one has in its own way.
SpaceApart(c, a) ==
  \/ Refuses(a)
  \/ c = "R5900" /\ a = Ok(49980)
  \/ c = "LOONGSON3A4000" /\ \E f \in Range(MsaForms) : a = Ok(f)

\* The same, of an answer that names its register layout.
RecordApart(c, a) ==
  \/ a.status # "OK"
  \/ c = "R5900" /\ a.form = 49980
  \/ c = "LOONGSON3A4000" /\ a.form \in Range(MsaForms)

\* The processors the policy word names a family for.
Private == {"ALLEGREX", "R5900", "XLR", "XLS", "XLP", "LOONGSON3A4000"}

LEMMA PrivatePolicy ==
  ASSUME NEW c \in AllCpus
  PROVE  /\ c \notin Private =>
              /\ CpuFamilies(c) \cap {"ALLEGREX", "R5900", "XLR", "XLP"} = {} \/ c = "ANY"
              /\ ~({"MSA", "LOONGSIMD"} \subseteq CpuFamilies(c)) \/ c = "ANY"
         /\ c = "ALLEGREX" => CpuFamilies(c) = {"FPU", "ALLEGREX"} /\ CpuRevision(c) = "32R1"
         /\ c = "R5900" => /\ CpuFamilies(c) = {"FPU", "R5900", "R5900_VU0", "R5900_VU1"}
                           /\ CpuRevision(c) = "III" /\ CpuModes(c) = {64}
         /\ c \in {"XLR", "XLS"} => CpuFamilies(c) = {"COP2", "XLR"} /\ CpuRevision(c) = "64R1"
         /\ c = "XLP" => CpuFamilies(c) = {"FPU", "COP2", "XLP"} /\ CpuRevision(c) = "64R2"
         /\ c = "LOONGSON3A4000" =>
              /\ CpuFamilies(c) = {"FPU", "MSA", "LOONGSON", "LOONGSIMD", "LOONGASX"}
              /\ CpuRevision(c) = "64R2" /\ CpuModes(c) = {64}
<1>1. ASSUME c \notin Private, c # "ANY"
      PROVE  /\ CpuFamilies(c) \cap {"ALLEGREX", "R5900", "XLR", "XLP"} = {}
             /\ ~({"MSA", "LOONGSIMD"} \subseteq CpuFamilies(c))
  BY <1>1 DEF CpuFamilies, AllCpus, Private
<1>2. /\ c = "ALLEGREX" => CpuFamilies(c) = {"FPU", "ALLEGREX"}
      /\ c = "R5900" => CpuFamilies(c) = {"FPU", "R5900", "R5900_VU0", "R5900_VU1"}
  BY Zenon DEF CpuFamilies
<1>3. /\ c \in {"XLR", "XLS"} => CpuFamilies(c) = {"COP2", "XLR"}
      /\ c = "XLP" => CpuFamilies(c) = {"FPU", "COP2", "XLP"}
  BY Zenon DEF CpuFamilies
<1>4. c = "LOONGSON3A4000" =>
        CpuFamilies(c) = {"FPU", "MSA", "LOONGSON", "LOONGSIMD", "LOONGASX"}
  BY Zenon DEF CpuFamilies
<1>5. /\ c = "ALLEGREX" => CpuRevision(c) = "32R1"
      /\ c = "R5900" => CpuRevision(c) = "III"
      /\ c \in {"XLR", "XLS"} => CpuRevision(c) = "64R1"
      /\ c \in {"XLP", "LOONGSON3A4000"} => CpuRevision(c) = "64R2"
  BY Zenon DEF CpuRevision
<1>6. c \in {"R5900", "LOONGSON3A4000"} => CpuModes(c) = {64}
  <2>1. CASE c = "R5900"
    BY <1>5, <2>1, Zenon DEF CpuModes
  <2>2. CASE c = "LOONGSON3A4000"
    BY <1>5, <2>2, Zenon DEF CpuModes
  <2> QED BY <2>1, <2>2
<1> QED BY <1>1, <1>2, <1>3, <1>4, <1>5, <1>6

\* One word, one processor and the generic one, the same families.
LEMMA CoresCompared ==
  ASSUME NEW k \in Callers, k.cpu # "ANY", NEW S, RequestStatus(k, S) = "END_OF_INPUT",
         S \subseteq RevisionFamilies(k.cpu, k.mode, k.rev),
         NEW g, g = [k EXCEPT !.cpu = "ANY"], NEW w \in Words
  PROVE  \/ Core(w, View(k, S)) = Core(w, View(g, S))
         \/ /\ Core(w, View(g, S)).status # "OK"
            /\ RecordApart(k.cpu, Core(w, View(k, S)))
<1> DEFINE u == View(k, S)
           v == View(g, S)
           c == k.cpu
<1>1. /\ u = [mode |-> k.mode, rev |-> k.rev,
              on |-> S \cup FprBit(k.fpr32) \cup PolicyBits(c, S), policy |-> Policy(c, S)]
      /\ v = [mode |-> k.mode, rev |-> k.rev,
              on |-> S \cup FprBit(k.fpr32) \cup PolicyBits("ANY", S),
              policy |-> Policy("ANY", S)]
  BY GenericRequest
<1>2. S \subseteq CpuFamilies(c)
  BY OfferedFamilies
<1>3. k.rev = CpuRevision(c) /\ k.mode \in CpuModes(c) /\ Closed(S)
  BY Zenon DEF RequestStatus, EmptyInputStatus, RevisionAccepted
<1>4. c \in AllCpus
  BY CallersAssumption
<1>5. /\ u.mode = k.mode /\ u.rev = k.rev /\ v.mode = k.mode /\ v.rev = k.rev
      /\ u.on = S \cup FprBit(k.fpr32) \cup PolicyBits(c, S)
      /\ v.on = S \cup FprBit(k.fpr32) \cup PolicyBits("ANY", S)
      /\ u.policy = Policy(c, S) /\ v.policy = Policy("ANY", S)
      /\ FprBit(k.fpr32) \subseteq {"FPR32"}
      /\ PolicyBits(c, S) \subseteq {"FPR32"} /\ PolicyBits("ANY", S) \subseteq {"FPR32"}
  BY <1>1 DEF FprBit, PolicyBits
<1> HIDE DEF u, v
<1>6. ASSUME \/ CoreAnswer(w, u) = CoreAnswer(w, v) /\ u.on = v.on
             \/ Refuses(CoreAnswer(w, v)) /\ SpaceApart(c, CoreAnswer(w, u))
      PROVE  \/ Core(w, u) = Core(w, v)
             \/ Core(w, v).status # "OK" /\ RecordApart(c, Core(w, u))
  <2>1. CASE CoreAnswer(w, u) = CoreAnswer(w, v) /\ u.on = v.on
    <3>1. Core(w, u) = Core(w, v)
      BY <1>5, <2>1 DEF Core, WithLayout
    <3> QED BY <3>1
  <2>2. CASE Refuses(CoreAnswer(w, v)) /\ SpaceApart(c, CoreAnswer(w, u))
    <3>1. ASSUME NEW x
          PROVE  /\ WithLayout(Unsupported, x).status # "OK"
                 /\ WithLayout(Invalid, x).status # "OK"
                 /\ \A f : WithLayout(Ok(f), x).form = f
      BY DEF WithLayout, Unsupported, Invalid, Ok
    <3> QED BY <2>2, <3>1 DEF Core, SpaceApart, RecordApart, Refuses
  <2> QED BY <1>6, <2>1, <2>2
<1>7. CASE c \notin Private
  <2>1. u = v
    BY <1>1, <1>4, <1>7, PrivatePolicy DEF Policy, PolicyBits
  <2> QED BY <2>1 DEF u, v
<1>8. CASE c \in {"XLR", "XLS", "XLP"}
  <2> DEFINE own == IF c = "XLP" THEN "XLP" ELSE "XLR"
  <2>1. u.on = v.on
    BY <1>2, <1>4, <1>5, <1>8, PrivatePolicy DEF PolicyBits
  <2>2. CASE own \in S
    <3>1. u = v
      BY <1>1, <1>2, <1>4, <1>8, <2>2, PrivatePolicy DEF Policy, PolicyBits
    <3> QED BY <3>1 DEF u, v
  <2>3. CASE own \notin S
    <3>1. NetLogicViews(u, v, own)
      BY <1>2, <1>3, <1>4, <1>5, <1>8, <2>1, <2>3, PrivatePolicy
      DEF NetLogicViews, Bare, Policy, R6
    <3> QED BY <1>6, <2>1, <3>1, NetLogicBare DEF SpaceApart, u, v
  <2> QED BY <2>2, <2>3
<1>9. CASE c = "ALLEGREX"
  <2>1. u.on = v.on
    BY <1>2, <1>4, <1>5, <1>9, PrivatePolicy DEF PolicyBits
  <2>2. u.policy = {"ALLEGREX"} /\ v.policy = {}
    BY <1>2, <1>4, <1>5, <1>9, PrivatePolicy DEF Policy
  <2>3. CASE "ALLEGREX" \in S
    <3>1. Alike(u, v)
      BY <1>5, <2>1, <2>2, <2>3 DEF Alike, Asked, Claimants
    <3>2. Msa(w, u) = Msa(w, v)
      BY <1>5, <2>1, <2>2 DEF Msa, MsaRevision, Guarded
    <3> QED BY <1>6, <2>1, <3>1, <3>2, AlikeCore DEF u, v
  <2>4. CASE "ALLEGREX" \notin S
    <3>1. Bare(u) /\ Bare(v) /\ "COP2" \notin u.on
      BY <1>2, <1>3, <1>4, <1>5, <1>9, <2>4, PrivatePolicy DEF Bare, R6
    <3> QED BY <1>5, <1>6, <2>1, <2>2, <3>1, AllegrexBare DEF SpaceApart, u, v
  <2> QED BY <2>3, <2>4
<1>10. CASE c = "R5900"
  <2>1. u.policy = {"R5900"} /\ v.policy = {}
    BY <1>2, <1>4, <1>5, <1>10, PrivatePolicy DEF Policy
  <2>2. CASE "R5900" \in S
    <3>1. u.on = v.on
      BY <1>5, <2>2 DEF PolicyBits
    <3>2. Alike(u, v)
      BY <1>5, <2>1, <2>2, <3>1 DEF Alike, Asked, Claimants
    <3>3. Msa(w, u) = Msa(w, v)
      BY <1>5, <2>1, <3>1 DEF Msa, MsaRevision, Guarded
    <3> QED BY <1>6, <3>1, <3>2, <3>3, AlikeCore DEF u, v
  <2>3. CASE "R5900" \notin S
    <3>1. S \subseteq {"FPU"}
      <4>1. "R5900_VU0" \notin S /\ "R5900_VU1" \notin S
        BY <1>3, <2>3 DEF Closed, Required
      <4> QED BY <1>2, <1>4, <1>10, <2>3, <4>1, PrivatePolicy
    <3>2. Bare(u) /\ Bare(v) /\ "COP2" \notin u.on /\ "COP2" \notin v.on
      BY <1>3, <1>4, <1>5, <1>10, <3>1, PrivatePolicy DEF Bare, R6
    <3>3. u.mode = 64 /\ u.rev = "III" /\ v.mode = 64 /\ v.rev = "III"
      BY <1>3, <1>4, <1>5, <1>10, PrivatePolicy
    <3> QED BY <1>6, <1>10, <2>1, <3>2, <3>3, R5900Bare DEF SpaceApart, u, v
  <2> QED BY <2>2, <2>3
<1>11. CASE c = "LOONGSON3A4000"
  <2>1. u.on = v.on
    BY <1>2, <1>4, <1>5, <1>11, PrivatePolicy DEF PolicyBits
  <2>2. /\ u.policy = (S \cap {"LOONGASX"}) \cup {"MSA", "LOONGSIMD"}
        /\ v.policy = S \cap {"LOONGASX"}
    BY <1>2, <1>4, <1>5, <1>11, PrivatePolicy DEF Policy
  <2>3. u.on \subseteq {"FPU", "MSA", "LOONGSON", "LOONGSIMD", "LOONGASX", "FPR32"}
        /\ S \subseteq u.on
    BY <1>2, <1>4, <1>5, <1>11, PrivatePolicy
  <2>4. Alike(u, v)
    BY <1>5, <2>1, <2>2 DEF Alike, Asked, Claimants
  <2>5. Asked(u) \subseteq u.on \cup {"MSA", "LOONGSIMD"} /\ Asked(v) \subseteq u.on
    BY <2>1, <2>2, <2>3 DEF Asked
  <2>6. u.mode = 64 /\ u.rev = "64R2"
    BY <1>3, <1>4, <1>5, <1>11, PrivatePolicy
  <2> QED BY <1>6, <1>11, <2>1, <2>3, <2>4, <2>5, <2>6, MsaKept DEF SpaceApart, u, v
<1> QED BY <1>4, <1>7, <1>8, <1>9, <1>10, <1>11 DEF Private, u, v

\* The checks after the core only ever refuse.
LEMMA CheckedRefuses ==
  ASSUME NEW given, NEW w, NEW k, NEW v
  PROVE  /\ given.status # "OK" => Checked(given, w, k, v).status # "OK"
         /\ given.status = "OK" =>
              Checked(given, w, k, v) = Admitted(given, Needs(given.form, k.rev), k, v)
<1>1. Refined(Recognized(w, v), k).status # "OK"
  BY RefusalsRefuse DEF Refined
<1> QED BY <1>1, RefusalsRefuse DEF Checked

\* The core's form is that of the answer before its register layout is noted.
LEMMA CoreForm ==
  ASSUME NEW w, NEW v
  PROVE  Core(w, v).form = CoreAnswer(w, v).form /\ Core(w, v).status = CoreAnswer(w, v).status
BY DEF Core, WithLayout

LEMMA AsksNamed == Asks => NamedAsGeneric
<1> DEFINE c == caller.cpu
           r == caller.rev
           has == CpuFamilies(c)
           g == [caller EXCEPT !.cpu = "ANY"]
           u == View(caller, selected)
           v == View(g, selected)
           a == Core(word, u)
           b == Core(word, v)
           generic == Decode(word, g, selected)
<1> SUFFICES ASSUME Asks, c # "ANY", selected \subseteq Usable
             PROVE  SameWord(generic, has)
  BY DEF NamedAsGeneric
<1>1. /\ caller \in Callers /\ word \in Words
      /\ RequestStatus(caller, selected) = "END_OF_INPUT"
      /\ selected \subseteq RevisionFamilies(c, caller.mode, r)
      /\ selected \subseteq has
  BY OfferedFamilies DEF Asks, Usable
<1>2. g.cpu = "ANY" /\ g.rev = r /\ c \in AllCpus
  BY <1>1, CallersAssumption
<1>3. /\ RequestStatus(g, selected) = "END_OF_INPUT"
      /\ u.on = selected \cup FprBit(caller.fpr32) \cup PolicyBits(c, selected)
      /\ v.on = selected \cup FprBit(caller.fpr32) \cup PolicyBits("ANY", selected)
      /\ u.policy = Policy(c, selected) /\ v.policy = Policy("ANY", selected)
  BY <1>1, GenericRequest
<1>4. a = b \/ (b.status # "OK" /\ RecordApart(c, a))
  BY <1>1, CoresCompared
<1>5. answer = DecodeView(word, caller, selected, u)
  BY <1>1 DEF Asks, Decode
<1>6. generic = DecodeView(word, g, selected, v)
  BY <1>3 DEF Decode
<1>7. PolicyBits(c, selected) \subseteq {"FPR32"} /\ PolicyBits("ANY", selected) \subseteq {"FPR32"}
  BY DEF PolicyBits
<1>8. /\ Policy("ANY", selected) \subseteq Policy(c, selected)
      /\ Policy(c, selected) \subseteq Policy("ANY", selected) \cup (has \cap Own)
      /\ "MSA" \in Policy(c, selected) \/ "LOONGSIMD" \in Policy(c, selected) =>
           {"MSA", "LOONGSIMD"} \subseteq has
  BY <1>1 DEF Policy, Own
<1>9. /\ Asked(v) \subseteq Asked(u) \cup {"FPR32"}
      /\ Asked(u) \subseteq Asked(v) \cup {"FPR32"} \cup Own
      /\ \A x \in Asked(u) \ (Asked(v) \cup {"FPR32"}) : x \in Policy(c, selected)
  BY <1>3, <1>7, <1>8 DEF Asked
<1>10. CpuFamilies("ANY") = Families
  BY GenericHasAll
<1> HIDE DEF c, r, has, g, u, v, a, b, generic
<1>11. CASE OcteonKeeps(word, caller, selected, u)
  <2>1. "CNMIPS" \in has /\ word = "OP62"
    BY <1>1, <1>11 DEF OcteonKeeps, c, has
  <2>2. answer = Unsupported
    BY <1>5, <1>11 DEF DecodeView
  <2> QED BY <2>1, <2>2 DEF SameWord, OwnSpace
<1>12. CASE ~OcteonKeeps(word, caller, selected, u)
  <2>1. ~OcteonKeeps(word, g, selected, v)
    BY <1>2, <1>3 DEF OcteonKeeps
  <2>2. answer = Checked(a, word, caller, u) /\ generic = Checked(b, word, g, v)
    BY <1>5, <1>6, <1>12, <2>1 DEF DecodeView, a, b
  <2>3. CASE a.status # "OK"
    <3>1. answer.status # "OK"
      BY <2>2, <2>3, CheckedRefuses
    <3>2. b.status # "OK"
      BY <1>4, <2>3
    <3>3. generic.status # "OK"
      BY <2>2, <3>2, CheckedRefuses
    <3> QED BY <3>1, <3>3 DEF SameWord
  <2>4. CASE a.status = "OK" /\ a # b
    <3>1. generic.status # "OK"
      BY <1>4, <2>2, <2>4, CheckedRefuses
    <3>2. answer.status = "OK" => answer = a
      BY <2>2, <2>4, CheckedRefuses, RefusalsRefuse DEF Admitted
    <3>3. \/ c = "R5900" /\ a.form = 49980
          \/ c = "LOONGSON3A4000" /\ a.form \in Range(MsaForms)
      BY <1>4, <2>4 DEF RecordApart
    <3>4. /\ c = "R5900" => "R5900" \in has
          /\ c = "LOONGSON3A4000" => {"MSA", "LOONGSIMD"} \subseteq has
      BY <1>2, PrivatePolicy DEF has
    <3> QED BY <3>1, <3>2, <3>3, <3>4 DEF SameWord, OwnSpace
  <2>5. CASE a.status = "OK" /\ a = b
    <3> DEFINE needs == Needs(a.form, r)
    <3>1. answer = Admitted(a, needs, caller, u)
      BY <2>2, <2>5, CheckedRefuses DEF r
    <3>2. generic = Admitted(a, needs, g, v)
      BY <1>2, <2>2, <2>5, CheckedRefuses
    <3> HIDE DEF needs
    <3>3. generic.status = "OK" => generic = a /\ needs \subseteq Asked(v)
      BY <3>2, RefusalsRefuse DEF Admitted
    <3>4. "FPR32" \notin needs
      <4>1. CoreAnswer(word, v).status = "OK" /\ CoreAnswer(word, v).form = a.form
        BY <2>5, CoreForm DEF b
      <4>2. a.form \in Nat
        BY <1>1, <4>1, CoreForms
      <4> QED BY <4>2, NeedsListed DEF needs
    <3>5. CASE ~(needs \subseteq has)
      <4>1. answer = Invalid
        BY <3>1, <3>5 DEF Admitted, has, c
      <4> QED BY <3>3, <3>5, <4>1, RefusalsRefuse DEF SameWord, needs, r
    <3>6. CASE needs \subseteq has /\ ~(needs \subseteq Asked(u))
      <4>1. answer = Unsupported
        BY <3>1, <3>6 DEF Admitted, has, c
      <4>2. ~(needs \subseteq Asked(v))
        BY <1>9, <3>4, <3>6
      <4> QED BY <3>3, <4>1, <4>2, RefusalsRefuse DEF SameWord
    <3>7. CASE needs \subseteq has /\ needs \subseteq Asked(u) /\ needs \subseteq Asked(v)
      <4>1. needs \subseteq Families
        BY <1>2, <3>7, FamiliesNamed DEF has
      <4>2. answer = a /\ generic = a
        BY <1>2, <1>10, <3>1, <3>2, <3>7, <4>1 DEF Admitted, has, c
      <4> QED BY <4>2 DEF SameWord
    <3>8. CASE needs \subseteq has /\ needs \subseteq Asked(u) /\ ~(needs \subseteq Asked(v))
      <4>1. PICK x \in needs : x \notin Asked(v)
        BY <3>8
      <4>2. x \in Own /\ x \in Policy(c, selected) /\ x \in has
        BY <1>9, <3>4, <3>8, <4>1
      <4>3. answer = a
        BY <3>1, <3>8 DEF Admitted, has, c
      <4>4. \/ a.form = 49980 /\ x = "R5900"
            \/ a.form \in Range(MsaForms) /\ x \in {"MSA", "LOONGSIMD"}
        <5>1. CoreAnswer(word, v).status = "OK" /\ CoreAnswer(word, v).form = a.form
          BY <2>5, CoreForm DEF b
        <5>2. x \in Needs(CoreAnswer(word, v).form, r) /\ x \notin v.on
          BY <4>1, <5>1 DEF needs, Asked
        <5> QED BY <1>1, <4>2, <5>1, <5>2, CoreNeeds
      <4> QED BY <1>8, <4>2, <4>3, <4>4 DEF SameWord, OwnSpace
    <3> QED BY <3>5, <3>6, <3>7, <3>8
  <2> QED BY <2>3, <2>4, <2>5
<1> QED BY <1>11, <1>12

\* A named processor decodes a word as the generic one does with the same
\* families, and every word of families it has, but for its own encoding space:
\* for every caller and any number of families enabled.
THEOREM NamedLikeGeneric == Spec => []NamedAsGeneric
<1>1. Spec => []Asks
  BY AsksInitially, AsksKept, PTL DEF Spec
<1> QED BY <1>1, AsksNamed, PTL

-----------------------------------------------------------------------------
(* What a form needs.                                                      *)

LEMMA NeedsNumbered ==
  ASSUME NEW f, NEW r, f \notin 20000..20999
  PROVE  Needs(f, r) = NumberedNeeds(f, r)
<1>1. \A row \in RowsOfInventory : row.form \in 20000..20999
  <2>1. \A w \in Words : \A row \in Range(Inventory[w]) : row.form \in 20000..20999
    BY RowForms, SMTT(30)
  <2> QED BY <2>1 DEF RowsOfInventory
<1> QED BY <1>1, RowNeeds

LEMMA NumberedNeed ==
  ASSUME NEW f \in Nat, NEW r, NEW x
  PROVE  x \in NumberedNeeds(f, r) <=>
           \/ f \in Range(MsaForms) /\ x \in MsaNeeds(r)
           \/ f = 16393 /\ x \in {"DSP", "DSPR2"} \cup IF r \in R6 THEN {"DSPR3"} ELSE {}
           \/ f >= 40000 /\ f <= 44999 /\ x = "ALLEGREX"
           \/ f >= 45000 /\ f <= 49999 /\ x = "R5900"
           \/ f >= 50000 /\ f <= 54999 /\ x = "MXU"
           \/ f >= 56000 /\ f <= 56999 /\ x = "MXU2"
           \/ f >= 57000 /\ f <= 58999 /\ x = "MXU3"
           \/ f >= 59000 /\ f <= 59079 /\ x \in {"LOONGSIMD", "LOONGSON", "FPU"}
           \/ f >= 60000 /\ f <= 61999 /\ x \in {"LOONGASX", "LOONGSON", "FPU"}
           \/ f >= 62000 /\ f <= 64999 /\ x \in {"R5900", "R5900_VU0"}
           \/ f >= 65000 /\ f <= 65019 /\ x = "XLR"
           \/ f >= 65020 /\ f <= 65099 /\ x = "XLP"
           \/ f = 405 /\ x = "COP2"
           \/ f = 407 /\ x = "COP3"
<1>1. /\ f \in 40000..44999 <=> f >= 40000 /\ f <= 44999
      /\ f \in 45000..49999 <=> f >= 45000 /\ f <= 49999
      /\ f \in 50000..54999 <=> f >= 50000 /\ f <= 54999
      /\ f \in 56000..56999 <=> f >= 56000 /\ f <= 56999
      /\ f \in 57000..58999 <=> f >= 57000 /\ f <= 58999
      /\ f \in 59000..59079 <=> f >= 59000 /\ f <= 59079
      /\ f \in 60000..61999 <=> f >= 60000 /\ f <= 61999
      /\ f \in 62000..64999 <=> f >= 62000 /\ f <= 64999
      /\ f \in 65000..65019 <=> f >= 65000 /\ f <= 65019
      /\ f \in 65020..65099 <=> f >= 65020 /\ f <= 65099
  OBVIOUS
<1> QED BY <1>1 DEF NumberedNeeds

LEMMA RangeNeeds ==
  ASSUME NEW f \in Nat, NEW r
  PROVE  /\ f >= 65020 /\ f <= 65099 => Needs(f, r) = {"XLP"}
         /\ f >= 65000 /\ f <= 65019 => Needs(f, r) = {"XLR"}
         /\ f >= 56000 /\ f <= 56999 => Needs(f, r) = {"MXU2"}
         /\ f >= 57000 /\ f <= 58999 => Needs(f, r) = {"MXU3"}
         /\ f >= 60000 /\ f <= 61999 => Needs(f, r) = {"LOONGASX", "LOONGSON", "FPU"}
         /\ f >= 59000 /\ f <= 59079 => Needs(f, r) = {"LOONGSIMD", "LOONGSON", "FPU"}
         /\ f >= 62000 /\ f <= 64999 => Needs(f, r) = {"R5900", "R5900_VU0"}
         /\ f >= 40000 /\ f <= 44999 => Needs(f, r) = {"ALLEGREX"}
         /\ f >= 45000 /\ f <= 49999 => Needs(f, r) = {"R5900"}
         /\ f >= 50000 /\ f <= 54999 => Needs(f, r) = {"MXU"}
<1>1. ASSUME f >= 65020, f <= 65099 PROVE Needs(f, r) = {"XLP"}
  BY <1>1, NeedsNumbered, NumberedNeed, MsaFormsListed
<1>2. ASSUME f >= 65000, f <= 65019 PROVE Needs(f, r) = {"XLR"}
  BY <1>2, NeedsNumbered, NumberedNeed, MsaFormsListed
<1>3. ASSUME f >= 56000, f <= 56999 PROVE Needs(f, r) = {"MXU2"}
  BY <1>3, NeedsNumbered, NumberedNeed, MsaFormsListed
<1>4. ASSUME f >= 57000, f <= 58999 PROVE Needs(f, r) = {"MXU3"}
  BY <1>4, NeedsNumbered, NumberedNeed, MsaFormsListed
<1>5. ASSUME f >= 60000, f <= 61999 PROVE Needs(f, r) = {"LOONGASX", "LOONGSON", "FPU"}
  BY <1>5, NeedsNumbered, NumberedNeed, MsaFormsListed
<1>6. ASSUME f >= 59000, f <= 59079 PROVE Needs(f, r) = {"LOONGSIMD", "LOONGSON", "FPU"}
  BY <1>6, NeedsNumbered, NumberedNeed, MsaFormsListed
<1>7. ASSUME f >= 62000, f <= 64999 PROVE Needs(f, r) = {"R5900", "R5900_VU0"}
  BY <1>7, NeedsNumbered, NumberedNeed, MsaFormsListed
<1>8. ASSUME f >= 40000, f <= 44999 PROVE Needs(f, r) = {"ALLEGREX"}
  BY <1>8, NeedsNumbered, NumberedNeed, MsaFormsListed
<1>9. ASSUME f >= 45000, f <= 49999 PROVE Needs(f, r) = {"R5900"}
  BY <1>9, NeedsNumbered, NumberedNeed, MsaFormsListed
<1>10. ASSUME f >= 50000, f <= 54999 PROVE Needs(f, r) = {"MXU"}
  BY <1>10, NeedsNumbered, NumberedNeed, MsaFormsListed
<1> QED BY <1>1, <1>2, <1>3, <1>4, <1>5, <1>6, <1>7, <1>8, <1>9, <1>10

LEMMA BaseNeeds ==
  ASSUME NEW f \in Nat, NEW r
  PROVE  /\ f \in {101, 600, 268, 332} => Needs(f, r) = {}
         /\ f = 405 => Needs(f, r) = {"COP2"}
         /\ f = 407 => Needs(f, r) = {"COP3"}
         /\ f = 16393 => Needs(f, r) = {"DSP", "DSPR2"} \cup IF r \in R6 THEN {"DSPR3"} ELSE {}
         /\ f \in Range(MsaForms) => Needs(f, r) = MsaNeeds(r)
<1>1. ASSUME f \in {101, 600, 268, 332} PROVE Needs(f, r) = {}
  BY <1>1, NeedsNumbered, NumberedNeed, MsaFormsListed, SMTT(30)
<1>2. ASSUME f = 405 PROVE Needs(f, r) = {"COP2"}
  BY <1>2, NeedsNumbered, NumberedNeed, MsaFormsListed
<1>3. ASSUME f = 407 PROVE Needs(f, r) = {"COP3"}
  BY <1>3, NeedsNumbered, NumberedNeed, MsaFormsListed
<1>4. ASSUME f = 16393
      PROVE  Needs(f, r) = {"DSP", "DSPR2"} \cup IF r \in R6 THEN {"DSPR3"} ELSE {}
  <2> DEFINE all == {"DSP", "DSPR2"} \cup IF r \in R6 THEN {"DSPR3"} ELSE {}
  <2>1. ASSUME NEW x PROVE x \in NumberedNeeds(f, r) <=> x \in all
    <3> HIDE DEF all
    <3>1. f \notin Range(MsaForms)
      BY <1>4, MsaFormsListed
    <3> QED BY <1>4, <3>1, NumberedNeed DEF all
  <2>2. Needs(f, r) = NumberedNeeds(f, r)
    BY <1>4, NeedsNumbered
  <2> QED BY <2>1, <2>2
<1>5. ASSUME f \in Range(MsaForms) PROVE Needs(f, r) = MsaNeeds(r)
  <2>1. f \in {16692, 16778, 16861, 16876}
    BY <1>5, MsaFormsListed
  <2>2. \A x : x \in NumberedNeeds(f, r) <=> x \in MsaNeeds(r)
    BY <1>5, <2>1, NumberedNeed
  <2>3. Needs(f, r) = NumberedNeeds(f, r)
    BY <2>1, NeedsNumbered
  <2> QED BY <2>2, <2>3
<1> QED BY <1>1, <1>2, <1>3, <1>4, <1>5

-----------------------------------------------------------------------------
(* A record replayed: the word again, with what its form needs and no more. *)

Replayed(v, u, f) ==
  /\ v.mode = u.mode /\ v.rev = u.rev
  /\ v.policy \subseteq Needs(f, u.rev)
  /\ v.on = Needs(f, u.rev) \cup FprBit(u.rev \in PairedRevisions \/ "FPR32" \in u.on)

LEMMA AskedOnly ==
  ASSUME NEW v, NEW u, NEW f, Replayed(v, u, f)
  PROVE  Asked(v) = v.on /\ Needs(f, u.rev) \subseteq v.on /\ v.on \subseteq Needs(f, u.rev) \cup {"FPR32"}
BY DEF Replayed, Asked, FprBit

LEMMA XlpReplays ==
  ASSUME NEW w \in Words, NEW u, NEW v, Xlp(w, u).status = "OK", Replayed(v, u, Xlp(w, u).form)
  PROVE  CoreAnswer(w, v) = Xlp(w, u)
<1>1. Needs(Xlp(w, u).form, u.rev) = {"XLP"}
  BY VendorForms, RangeNeeds
<1>2. Asked(v) \subseteq {"XLP", "FPR32"} /\ "XLP" \in Asked(v) /\ "XLP" \in v.on
  BY <1>1, AskedOnly
<1>3. w \in NetLogicOwned /\ "XLP" \in u.on
  BY XlpDecodes
<1>4. VendorAnswer(VendorClaims(w, v), w, v) = Xlp(w, v)
  BY <1>2, <1>3, XlpAnswers
<1>5. Xlp(w, v) = Xlp(w, u)
  BY <1>2, <1>3 DEF Xlp, Replayed
<1> QED BY <1>2, <1>4, <1>5 DEF CoreAnswer

LEMMA XlrReplays ==
  ASSUME NEW w \in Words, NEW u, NEW v, Xlr(w, u).status = "OK", Replayed(v, u, Xlr(w, u).form)
  PROVE  CoreAnswer(w, v) = Xlr(w, u)
<1>1. Needs(Xlr(w, u).form, u.rev) = {"XLR"}
  BY VendorForms, RangeNeeds
<1>2. Asked(v) \subseteq {"XLR", "FPR32"} /\ "XLR" \in Asked(v) /\ "XLR" \in v.on
  BY <1>1, AskedOnly
<1>3. w \in NetLogicOwned /\ "XLR" \in u.on
  BY XlrDecodes
<1>4. VendorAnswer(VendorClaims(w, v), w, v) = Xlr(w, v)
  BY <1>2, <1>3, XlrAnswers
<1>5. Xlr(w, v) = Xlr(w, u)
  BY <1>2, <1>3 DEF Xlr, Replayed
<1> QED BY <1>2, <1>4, <1>5 DEF CoreAnswer

LEMMA MxuVectorAnswers ==
  ASSUME NEW w, NEW v, {"XLP", "XLR"} \cap Asked(v) = {}, {"MXU2", "MXU3"} \cap Asked(v) # {},
         MxuVector(w, v) # Unsupported
  PROVE  VendorAnswer(VendorClaims(w, v), w, v) = MxuVector(w, v)
<1> DEFINE claims == VendorClaims(w, v)
<1>1. Len(claims) = 6 /\ DOMAIN claims = 1..6
  BY DEF VendorClaims
<1> DEFINE asked == {"MXU2", "MXU3"} \cap Asked(v) # {}
           owned == MxuVectorOwns(w, Asked(v))
           given == MxuVector(w, v)
<1>2. asked /\ given # Unsupported
  OBVIOUS
<1>3. ~claims[1].made /\ ~claims[2].made /\ claims[3].made /\ claims[3].answer = given
  <2>1. ~claims[1].made /\ ~claims[2].made
    BY DEF VendorClaims, Claim
  <2>2. claims[3] = Claim(asked, owned, given)
    BY DEF VendorClaims
  <2> HIDE DEF claims, asked, owned, given
  <2>3. Claim(asked, owned, given).made /\ Claim(asked, owned, given).answer = given
    BY <1>2 DEF Claim
  <2> QED BY <2>1, <2>2, <2>3, Zenon
<1> HIDE DEF claims, asked, owned, given
<1>4. Winner(claims) = claims[3]
  <2>1. \A j \in 1..6 : j < 3 => j \in {1, 2}
    OBVIOUS
  <2>2. \A j \in 1..6 : j < 3 => ~claims[j].made
    BY <1>3, <2>1, Zenon
  <2>3. claims[3].made /\ 3 \in 1..Len(claims) /\ Len(claims) \in Nat
    BY <1>1, <1>3
  <2>4. \A j \in 1..Len(claims) : j < 3 => ~claims[j].made
    BY <1>1, <2>2
  <2> QED BY <2>3, <2>4, WinnerAt, Zenon
<1> QED BY <1>1, <1>3, <1>4 DEF VendorAnswer, claims, given

LEMMA LoongasxAnswers ==
  ASSUME NEW w, NEW v, {"XLP", "XLR", "MXU2", "MXU3"} \cap Asked(v) = {},
         "LOONGASX" \in Asked(v), Loongasx(w, v) # Unsupported
  PROVE  VendorAnswer(VendorClaims(w, v), w, v) = Loongasx(w, v)
<1> DEFINE claims == VendorClaims(w, v)
<1>1. Len(claims) = 6 /\ DOMAIN claims = 1..6
  BY DEF VendorClaims
<1>2. /\ ~claims[1].made /\ ~claims[2].made /\ ~claims[3].made /\ claims[4].made
      /\ claims[4].answer = Loongasx(w, v)
  BY DEF VendorClaims, Claim
<1> HIDE DEF claims
<1>3. Winner(claims) = claims[4]
  BY <1>1, <1>2, WinnerAt
<1> QED BY <1>1, <1>2, <1>3 DEF VendorAnswer, claims

LEMMA LoongsimdAnswers ==
  ASSUME NEW w, NEW v, {"XLP", "XLR", "MXU2", "MXU3", "LOONGASX"} \cap Asked(v) = {},
         "LOONGSIMD" \in v.on, Loongsimd(w, v) # Unsupported
  PROVE  VendorAnswer(VendorClaims(w, v), w, v) = Loongsimd(w, v)
<1> DEFINE claims == VendorClaims(w, v)
<1>1. Len(claims) = 6 /\ DOMAIN claims = 1..6
  BY DEF VendorClaims
<1>2. /\ ~claims[1].made /\ ~claims[2].made /\ ~claims[3].made /\ ~claims[4].made
      /\ claims[5].made /\ claims[5].answer = Loongsimd(w, v)
  BY DEF VendorClaims, Claim
<1> HIDE DEF claims
<1>3. Winner(claims) = claims[5]
  BY <1>1, <1>2, WinnerAt
<1> QED BY <1>1, <1>2, <1>3 DEF VendorAnswer, claims

LEMMA MxuVectorReplays ==
  ASSUME NEW w \in Words, NEW u, NEW v, MxuVector(w, u).status = "OK",
         Replayed(v, u, MxuVector(w, u).form)
  PROVE  CoreAnswer(w, v) = MxuVector(w, u)
<1> DEFINE f == MxuVector(w, u).form
<1>1. /\ MxuServes(u)
      /\ \/ "MXU3" \in u.on /\ f \in {57147, 57289, 57395, 57434}
         \/ "MXU3" \notin u.on /\ "MXU2" \in u.on /\ f \in {56020, 56202, 56332}
  <2>1. \A n : Ok(n).form = n
    BY DEF Ok, Unsupported
  <2> QED BY <2>1, RefusalsRefuse DEF MxuVector, MxuGeneration, Listed
<1> HIDE DEF f
<1>2. CASE "MXU3" \in u.on /\ f \in {57147, 57289, 57395, 57434}
  <2>1. Needs(f, u.rev) = {"MXU3"}
    BY <1>2, RangeNeeds
  <2>2. Asked(v) \subseteq {"MXU3", "FPR32"} /\ "MXU3" \in Asked(v) /\ "MXU3" \in v.on /\ MxuServes(v)
    BY <1>1, <2>1, AskedOnly DEF f, Replayed, MxuServes
  <2>3. MxuGeneration(v.on) = 3 /\ MxuGeneration(u.on) = 3
    BY <1>2, <2>2 DEF MxuGeneration
  <2>4. MxuVector(w, v) = MxuVector(w, u)
    BY <1>1, <2>2, <2>3, RefusalsRefuse DEF MxuVector, Listed
  <2>5. VendorAnswer(VendorClaims(w, v), w, v) = MxuVector(w, v)
    BY <2>2, <2>4, RefusalsRefuse, MxuVectorAnswers
  <2> QED BY <2>2, <2>4, <2>5 DEF CoreAnswer
<1>3. CASE "MXU3" \notin u.on /\ "MXU2" \in u.on /\ f \in {56020, 56202, 56332}
  <2>1. Needs(f, u.rev) = {"MXU2"}
    BY <1>3, RangeNeeds
  <2>2. Asked(v) \subseteq {"MXU2", "FPR32"} /\ "MXU2" \in Asked(v) /\ v.on = Asked(v) /\ MxuServes(v)
    BY <1>1, <2>1, AskedOnly DEF f, Replayed, MxuServes
  <2>3. MxuGeneration(v.on) = 2 /\ MxuGeneration(u.on) = 2
    BY <1>3, <2>2 DEF MxuGeneration
  <2>4. MxuVector(w, v) = MxuVector(w, u)
    BY <1>1, <2>2, <2>3, RefusalsRefuse DEF MxuVector, Listed
  <2>5. VendorAnswer(VendorClaims(w, v), w, v) = MxuVector(w, v)
    BY <2>2, <2>4, RefusalsRefuse, MxuVectorAnswers
  <2> QED BY <2>2, <2>4, <2>5 DEF CoreAnswer
<1> QED BY <1>1, <1>2, <1>3

LEMMA LoongasxReplays ==
  ASSUME NEW w \in Words, NEW u, NEW v, Loongasx(w, u).status = "OK",
         Replayed(v, u, Loongasx(w, u).form)
  PROVE  CoreAnswer(w, v) = Loongasx(w, u)
<1>1. Needs(Loongasx(w, u).form, u.rev) = {"LOONGASX", "LOONGSON", "FPU"}
  BY VendorForms, RangeNeeds
<1>2. u.rev = "64R2" /\ u.mode = 64 /\ "FPR32" \notin u.on
  BY LoongasxDecodes, RefusalsRefuse DEF Loongasx, Guarded
<1>3. v.on = {"LOONGASX", "LOONGSON", "FPU"} /\ Asked(v) = v.on
  BY <1>1, <1>2, AskedOnly DEF Replayed, FprBit, PairedRevisions
<1>4. LoongasxOwns(w, v)
  BY <1>3, LoongasxDecodes DEF LoongasxOwns
<1>5. Loongasx(w, v) = Loongasx(w, u)
  <2>1. LoongasxOwns(w, u) /\ {"LOONGASX", "LOONGSON", "FPU"} \subseteq u.on
    BY LoongasxDecodes, RefusalsRefuse DEF Loongasx, Guarded
  <2> QED BY <1>2, <1>3, <1>4, <2>1 DEF Loongasx, Guarded, Replayed
<1>6. VendorAnswer(VendorClaims(w, v), w, v) = Loongasx(w, v)
  BY <1>3, <1>5, RefusalsRefuse, LoongasxAnswers
<1> QED BY <1>3, <1>5, <1>6 DEF CoreAnswer

LEMMA LoongsimdReplays ==
  ASSUME NEW w \in Words, NEW u, NEW v, Loongsimd(w, u).status = "OK",
         Replayed(v, u, Loongsimd(w, u).form)
  PROVE  CoreAnswer(w, v) = Loongsimd(w, u)
<1>1. Needs(Loongsimd(w, u).form, u.rev) = {"LOONGSIMD", "LOONGSON", "FPU"}
  BY VendorForms, RangeNeeds
<1>2. u.rev \in Wide2To5 /\ u.mode = 64 /\ "FPR32" \notin u.on
  BY LoongsimdDecodes, RefusalsRefuse DEF Loongsimd, Guarded
<1>3. v.on = {"LOONGSIMD", "LOONGSON", "FPU"} /\ Asked(v) = v.on
  BY <1>1, <1>2, AskedOnly DEF Replayed, FprBit, PairedRevisions, Wide2To5
<1>4. Loongsimd(w, v) = Loongsimd(w, u)
  BY <1>2, <1>3, LoongsimdDecodes DEF Loongsimd, Guarded, Replayed
<1>5. VendorAnswer(VendorClaims(w, v), w, v) = Loongsimd(w, v)
  BY <1>3, <1>4, RefusalsRefuse, LoongsimdAnswers
<1> QED BY <1>3, <1>4, <1>5 DEF CoreAnswer

LEMMA VuMacroReplays ==
  ASSUME NEW w \in Words, NEW u, NEW v, VuMacro(w, u).status = "OK",
         Replayed(v, u, VuMacro(w, u).form)
  PROVE  CoreAnswer(w, v) = VuMacro(w, u)
<1>1. Needs(VuMacro(w, u).form, u.rev) = {"R5900", "R5900_VU0"}
  BY VendorForms, RangeNeeds
<1>2. /\ Asked(v) \subseteq {"R5900", "R5900_VU0", "FPR32"} /\ v.on = Asked(v)
      /\ {"R5900", "R5900_VU0"} \subseteq v.on
  BY <1>1, AskedOnly
<1>3. w \in {"OP62", "COP2"} /\ {"R5900", "R5900_VU0"} \subseteq u.on
  BY VuMacroDecodes
<1>4. VuMacro(w, v) = VuMacro(w, u)
  BY <1>2, <1>3 DEF VuMacro, Guarded, Replayed
<1>5. VendorAnswer(VendorClaims(w, v), w, v) = VuMacro(w, v)
  BY <1>2, <1>3, VuMacroAnswers
<1> QED BY <1>2, <1>4, <1>5 DEF CoreAnswer

-----------------------------------------------------------------------------
(* Replays below the vendors.                                              *)

\* The families no decoder asks for before the common ones.
LEMMA CommonReached ==
  ASSUME NEW w, NEW v, Asked(v) = v.on,
         v.on \cap {"XLP", "XLR", "MXU2", "MXU3", "LOONGASX", "LOONGSIMD", "R5900", "ALLEGREX"} = {}
  PROVE  CoreAnswer(w, v) = Probed(Winner(CommonClaims(w, v)).answer, FALSE, w, v)
<1>1. ~VendorsAsked(w, v)
  BY DEF VendorsAsked
<1>2. "ALLEGREX" \notin Asked(v) /\ "R5900" \notin Asked(v)
  OBVIOUS
<1>3. CoreAnswer(w, v) = VendorAnswer(VendorClaims(w, v), w, v)
  BY <1>2 DEF CoreAnswer
<1> QED BY <1>1, <1>2, <1>3, VendorsSilent, ProcessorsSilent

LEMMA AllegrexReplays ==
  ASSUME NEW w \in Words, NEW u, NEW v, Allegrex(w, u).status = "OK",
         Replayed(v, u, Allegrex(w, u).form)
  PROVE  CoreAnswer(w, v) = Allegrex(w, u)
<1>1. Needs(Allegrex(w, u).form, u.rev) = {"ALLEGREX"}
  BY OtherForms, RangeNeeds
<1>2. Asked(v) \subseteq {"ALLEGREX", "FPR32"} /\ "ALLEGREX" \in Asked(v) /\ "ALLEGREX" \in v.on
  BY <1>1, AskedOnly
<1>3. w \in {"MOVN", "SQ", "OP62"} /\ u.mode = 32 /\ "ALLEGREX" \in u.on
  BY RefusalsRefuse DEF Allegrex, Guarded, Listed, AllegrexForms
<1>4. Allegrex(w, v) = Allegrex(w, u)
  BY <1>2, <1>3 DEF Allegrex, Guarded, Replayed
<1>5. ~VendorsAsked(w, v)
  BY <1>2, AskedOnly DEF VendorsAsked, Asked
<1> DEFINE own == ProcessorClaims(w, v)
           given == Allegrex(w, v)
<1>6. given.status = "OK" /\ given # Unsupported
  BY <1>4, RefusalsRefuse
<1>7. DOMAIN own = 1..2 /\ Len(own) = 2
  BY DEF ProcessorClaims
<1>8. own[1].made /\ own[1].answer = given
  BY <1>2, <1>6 DEF ProcessorClaims, Claim
<1> HIDE DEF own, given
<1>9. Winner(own) = own[1]
  BY <1>7, <1>8, WinnerAt
<1>10. ProcessorAnswer(own, w, v) = given
  BY <1>6, <1>7, <1>8, <1>9 DEF ProcessorAnswer, Probed
<1>11. AllegrexAllowed(w)
  BY <1>3 DEF AllegrexAllowed
<1> QED BY <1>4, <1>5, <1>10, <1>11, VendorsSilent DEF CoreAnswer, own, given

LEMMA R5900Replays ==
  ASSUME NEW w \in Words, NEW u, NEW v, R5900(w, u).status = "OK",
         Replayed(v, u, R5900(w, u).form)
  PROVE  CoreAnswer(w, v) = R5900(w, u)
<1>1. Needs(R5900(w, u).form, u.rev) = {"R5900"}
  BY OtherForms, RangeNeeds
<1>2. /\ Asked(v) \subseteq {"R5900", "FPR32"} /\ "R5900" \in Asked(v) /\ "R5900" \in v.on
      /\ v.on = Asked(v)
  BY <1>1, AskedOnly
<1>3. u.mode = 64 /\ u.rev = "III" /\ w \notin {"OP62", "COP2"} /\ ("R5900" \in u.on \/ w = "MOVN")
  BY R5900Decodes
<1>4. R5900(w, v) = R5900(w, u)
  BY <1>2, <1>3 DEF R5900, Guarded, Replayed
<1>5. w \in R5900Owned
  BY <1>3, RefusalsRefuse DEF R5900, Guarded, Listed, R5900Forms, R5900Owned, Mmi, Quads
<1>6. ~VendorsAsked(w, v)
  BY <1>2, <1>3 DEF VendorsAsked
<1>7. CoreAnswer(w, v) = Probed(R5900(w, v), R5900(w, v) = Unsupported, w, v)
  BY <1>2, <1>5, <1>6, VendorsSilent, R5900Answers DEF CoreAnswer
<1> QED BY <1>4, <1>7 DEF Probed

LEMMA MxuReplays ==
  ASSUME NEW w \in Words, NEW u, NEW v, Mxu(w, u).status = "OK",
         Replayed(v, u, Mxu(w, u).form)
  PROVE  CoreAnswer(w, v) = Mxu(w, u)
<1>1. Needs(Mxu(w, u).form, u.rev) = {"MXU"}
  BY OtherForms, RangeNeeds
<1>2. v.on \subseteq {"MXU", "FPR32"} /\ "MXU" \in v.on /\ Asked(v) = v.on
  BY <1>1, AskedOnly
<1>3. MxuServes(u) /\ "MXU" \in u.on
  BY RefusalsRefuse DEF Mxu, Guarded
<1>4. Mxu(w, v) = Mxu(w, u)
  BY <1>2, <1>3 DEF Mxu, Guarded, Replayed, MxuServes
<1> DEFINE claims == CommonClaims(w, v)
           given == Mxu(w, v)
<1>5. given.status = "OK" /\ given # Unsupported
  BY <1>4, RefusalsRefuse
<1>6. Len(claims) = 5 /\ DOMAIN claims = 1..5
  BY DEF CommonClaims
<1>7. claims[1].made /\ claims[1].answer = given
  BY <1>5 DEF CommonClaims, Claim
<1> HIDE DEF claims, given
<1>8. Winner(claims) = claims[1]
  BY <1>6, <1>7, WinnerAt
<1>9. CoreAnswer(w, v) = Probed(given, FALSE, w, v)
  BY <1>2, <1>7, <1>8, CommonReached DEF claims
<1> QED BY <1>4, <1>5, <1>9 DEF Probed, given

-----------------------------------------------------------------------------
(* Replays of the inventory.                                               *)

\* The rows by their numbers: a number stands for one set of families.
RowNumbered(row) ==
  \/ row.form \in {20048, 20070} /\ row.needs = {"CNMIPS"}
  \/ row.form = 20065 /\ row.needs = {"CNMIPSP"}
  \/ row.form \in {20469, 20488, 20485} /\ row.needs = {"LOONGSON_EXT", "LOONGSON"}
  \/ row.form \in {20264, 20426} /\ row.needs = {"LOONGSON2F", "LOONGSON"}
  \/ row.form = 20428 /\ row.needs = {"LOONGSON_CAM", "LOONGSON"}
  \/ row.form \in {20159, 20160} /\ row.needs = {"MDMX", "FPU"}
  \/ row.form = 20178 /\ row.needs = {"LOONGSON2F", "LOONGSON", "FPU"}
  \/ row.form \in {20259, 20424} /\ row.needs = {"LOONGSON2E", "LOONGSON"}

LEMMA RowsNumbered ==
  ASSUME NEW w \in Words, NEW row \in Range(Inventory[w])
  PROVE  RowNumbered(row) /\ row.revs \in {Wide2To5, Loongson2Revs, MdmxRevs}
<1> USE DEF Inventory, Row, RowNumbered, Range, Quads
<1>1. CASE w = "OP62"
  BY <1>1
<1>2. CASE w = "MMI17"
  BY <1>2
<1>3. CASE w = "MOVN"
  BY <1>3
<1>4. CASE w \in {"LSA", "ASX"}
  BY <1>4
<1>5. CASE w \in Quads
  <2>1. CASE w = "COPY"
    BY <2>1
  <2>2. CASE w = "INSERT"
    BY <2>2
  <2>3. CASE w = "QUAD"
    BY <2>3
  <2> QED BY <1>5, <2>1, <2>2, <2>3
<1>6. CASE w = "MMI25"
  BY <1>6
<1>7. CASE w = "MMI53"
  BY <1>7
<1>8. CASE w = "COP2"
  BY <1>8
<1>9. CASE w = "SQ"
  BY <1>9
<1> QED BY <1>1, <1>2, <1>3, <1>4, <1>5, <1>6, <1>7, <1>8, <1>9 DEF Words, Mmi

LEMMA RowNeedsOwn ==
  ASSUME NEW w \in Words, NEW row \in Range(Inventory[w]), NEW r
  PROVE  Needs(row.form, r) = row.needs
<1>1. row \in RowsOfInventory
  BY DEF RowsOfInventory
<1>2. \A other \in RowsOfInventory : RowNumbered(other)
  <2>1. \A x \in Words : \A other \in Range(Inventory[x]) : RowNumbered(other)
    BY RowsNumbered
  <2> QED BY <2>1 DEF RowsOfInventory
<1> DEFINE other == CHOOSE o \in RowsOfInventory : o.form = row.form
<1>3. other \in RowsOfInventory /\ other.form = row.form
  BY <1>1
<1>4. Needs(row.form, r) = other.needs
  BY <1>1 DEF Needs
<1>5. RowNumbered(row) /\ RowNumbered(other)
  BY <1>1, <1>2, <1>3
<1> HIDE DEF other
<1>6. other.needs = row.needs
  BY <1>3, <1>5 DEF RowNumbered
<1> QED BY <1>4, <1>6

\* The row that answered is enabled again, and no earlier one.
LEMMA InventoryAgain ==
  ASSUME NEW w \in Words, NEW u, NEW v, InventoryAnswer(w, u).status = "OK",
         Replayed(v, u, InventoryAnswer(w, u).form)
  PROVE  \E row \in Range(Inventory[w]) :
           /\ row.form = InventoryAnswer(w, u).form
           /\ RowEnabled(row, u) /\ RowEnabled(row, v)
           /\ Needs(row.form, u.rev) = row.needs
           /\ InventoryAnswer(w, v) = InventoryAnswer(w, u)
<1>1. \A n : Ok(n).form = n
  BY DEF Ok, Unsupported
<1>2. PICK i \in Chosen(w, u) : /\ \A j \in Chosen(w, u) : i <= j
                                /\ InventoryAnswer(w, u) = Ok(Inventory[w][i].form)
  BY InventoryPicks, RefusalsRefuse
<1> DEFINE row == Inventory[w][i]
<1>3. row \in Range(Inventory[w]) /\ row.form = InventoryAnswer(w, u).form
  BY <1>1, <1>2, InventoryLists DEF Chosen, Range
<1>4. Needs(row.form, u.rev) = row.needs
  BY <1>3, RowNeedsOwn
<1>5. row.revs \cap PairedRevisions = {} /\ "FPR32" \notin row.needs
  BY <1>3, RowsNumbered, SMTT(30)
  DEF RowNumbered, Wide2To5, Loongson2Revs, MdmxRevs, PairedRevisions
<1>6. RowEnabled(row, u) /\ ~("FPR32" \in u.on /\ NeedsWideFprs(row))
  BY <1>2 DEF Chosen
<1>7. v.mode = u.mode /\ v.rev = u.rev /\ row.needs \subseteq v.on
      /\ ("FPR32" \in v.on <=> "FPR32" \in u.on) /\ v.on \subseteq row.needs \cup {"FPR32"}
  BY <1>3, <1>4, <1>5, <1>6 DEF Replayed, FprBit, RowEnabled
<1>8. RowEnabled(row, v) /\ i \in Chosen(w, v)
  BY <1>2, <1>6, <1>7 DEF RowEnabled, Chosen
<1>9. \A j \in Chosen(w, v) : j \in Chosen(w, u)
  <2> SUFFICES ASSUME NEW j \in Chosen(w, v) PROVE j \in Chosen(w, u)
    OBVIOUS
  <2>1. Inventory[w][j] \in Range(Inventory[w]) /\ RowEnabled(Inventory[w][j], v)
        /\ ~("FPR32" \in v.on /\ NeedsWideFprs(Inventory[w][j])) /\ j \in 1..Len(Inventory[w])
    BY InventoryLists DEF Chosen, Range
  <2>2. "FPR32" \notin Inventory[w][j].needs
    BY <2>1, RowForms DEF RowFamilies
  <2>3. Inventory[w][j].needs \subseteq u.on
    BY <1>6, <1>7, <2>1, <2>2 DEF RowEnabled
  <2>4. RowEnabled(Inventory[w][j], u)
    BY <1>7, <2>1, <2>3 DEF RowEnabled
  <2> QED BY <1>7, <2>1, <2>4 DEF Chosen
<1>10. PICK k \in Chosen(w, v) : /\ \A j \in Chosen(w, v) : k <= j
                                 /\ InventoryAnswer(w, v) = Ok(Inventory[w][k].form)
  BY <1>8, InventoryPicks
<1>11. k \in 1..Len(Inventory[w]) /\ i \in 1..Len(Inventory[w]) /\ k <= i /\ i <= k
  BY <1>2, <1>8, <1>9, <1>10 DEF Chosen
<1>12. Len(Inventory[w]) \in Nat
  BY DEF Inventory, Words, Mmi, Quads
<1>13. k = i
  BY <1>11, <1>12
<1> QED BY <1>2, <1>3, <1>4, <1>6, <1>8, <1>10, <1>13

LEMMA InventoryTaken ==
  ASSUME NEW w, NEW v, Mxu(w, v) = Unsupported, v.on \cap InventoryFirst # {},
         InventoryAnswer(w, v).status = "OK"
  PROVE  Winner(CommonClaims(w, v)).answer = InventoryAnswer(w, v)
<1> DEFINE claims == CommonClaims(w, v)
           given == InventoryAnswer(w, v)
<1>1. Len(claims) = 5 /\ DOMAIN claims = 1..5
  BY DEF CommonClaims
<1>2. given # Unsupported
  BY RefusalsRefuse
<1>3. ~claims[1].made /\ claims[2].made /\ claims[2].answer = given
  BY <1>2 DEF CommonClaims, Claim
<1> HIDE DEF claims, given
<1>4. Winner(claims) = claims[2]
  BY <1>1, <1>3, WinnerAt
<1> QED BY <1>3, <1>4 DEF claims, given

LEMMA RowsReached ==
  ASSUME NEW w, NEW v, NEW needs, needs \subseteq RowFamilies,
         v.on \subseteq needs \cup {"FPR32"}, Asked(v) = v.on
  PROVE  LET given == Winner(CommonClaims(w, v)).answer
         IN  CoreAnswer(w, v) = IF given.status # "OK" /\ InventoryAnswer(w, v).status = "OK"
                                THEN InventoryAnswer(w, v) ELSE given
<1>1. v.on \cap {"XLP", "XLR", "MXU2", "MXU3", "LOONGASX", "LOONGSIMD", "R5900", "ALLEGREX"} = {}
  BY DEF RowFamilies
<1> QED BY <1>1, CommonReached DEF Probed

LEMMA InventoryReplays ==
  ASSUME NEW w \in Words, NEW u, NEW v, InventoryAnswer(w, u).status = "OK",
         "CNMIPSP" \notin Needs(InventoryAnswer(w, u).form, u.rev),
         Replayed(v, u, InventoryAnswer(w, u).form)
  PROVE  CoreAnswer(w, v) = InventoryAnswer(w, u)
<1>1. PICK row \in Range(Inventory[w]) :
        /\ row.form = InventoryAnswer(w, u).form
        /\ RowEnabled(row, u) /\ RowEnabled(row, v)
        /\ Needs(row.form, u.rev) = row.needs
        /\ InventoryAnswer(w, v) = InventoryAnswer(w, u)
  BY InventoryAgain
<1>2. v.on \subseteq row.needs \cup {"FPR32"} /\ row.needs \subseteq v.on /\ Asked(v) = v.on
  BY <1>1, AskedOnly
<1>3. RowNumbered(row) /\ row.needs \subseteq RowFamilies
  BY RowsNumbered, RowForms
<1> DEFINE given == Winner(CommonClaims(w, v)).answer
<1>4. CoreAnswer(w, v) = IF given.status # "OK" /\ InventoryAnswer(w, v).status = "OK"
                         THEN InventoryAnswer(w, v) ELSE given
  <2>1. row.needs \subseteq RowFamilies /\ v.on \subseteq row.needs \cup {"FPR32"} /\ Asked(v) = v.on
    BY <1>2, <1>3
  <2> QED BY <2>1, RowsReached
<1>5. Mxu(w, v) = Unsupported
  BY <1>2, <1>3 DEF Mxu, Guarded, RowFamilies
<1>6. InventoryAnswer(w, v) # Unsupported
  BY <1>1, RefusalsRefuse
<1>7. CASE v.on \cap InventoryFirst # {}
  <2>1. Winner(CommonClaims(w, v)).answer = InventoryAnswer(w, v)
    BY <1>1, <1>5, <1>7, InventoryTaken
  <2> QED BY <1>1, <1>4, <2>1
<1>8. CASE v.on \cap InventoryFirst = {}
  <2>1. row.needs = {"MDMX", "FPU"} /\ w \in Quads
    <3>1. RowOwned(w, row)
      BY RowsOwned
    <3>2. row.needs # {"CNMIPSP"}
      BY <1>1
    <3> QED BY <1>2, <1>8, <3>1, <3>2 DEF RowOwned, InventoryFirst
  <2>2. v.rev \notin R6
    BY <1>1, RowsNumbered DEF RowEnabled, Wide2To5, Loongson2Revs, MdmxRevs, R6
  <2>3. Main(w, v) = Unsupported
    BY <2>1, MainKnows
  <2>4. w \in DOMAIN MsaForms
    BY <2>1, MsaFormsListed DEF Quads
  <2>5. Msa(w, v) \in {Unsupported, Invalid}
    BY <1>2, <2>1 DEF Msa, Guarded
  <2>6. Winner(CommonClaims(w, v)).answer \in {Unsupported, Invalid}
    BY <1>5, <1>8, <2>2, <2>3, <2>4, <2>5, CommonIsBase DEF Base, Modules
  <2> QED BY <1>1, <1>4, <2>6, RefusalsRefuse
<1> QED BY <1>7, <1>8

-----------------------------------------------------------------------------
(* Replays of the base set and its modules.                                *)

\* The families of the base set: no decoder of another's space is asked.
BaseFamilies == {"FPU", "COP2", "COP3", "DSP", "DSPR2", "DSPR3", "MSA", "FPR32"}

LEMMA BaseReached ==
  ASSUME NEW w \in Words, NEW v, v.on \subseteq BaseFamilies, Asked(v) = v.on,
         Winner(CommonClaims(w, v)).answer.status = "OK"
  PROVE  CoreAnswer(w, v) = Winner(CommonClaims(w, v)).answer
<1>1. v.on \cap {"XLP", "XLR", "MXU2", "MXU3", "LOONGASX", "LOONGSIMD", "R5900", "ALLEGREX"} = {}
  BY DEF BaseFamilies
<1> QED BY <1>1, CommonReached DEF Probed

LEMMA BaseReplays ==
  ASSUME NEW w \in Words, NEW v, v.on \subseteq BaseFamilies, Asked(v) = v.on,
         v.rev \notin R6, Base(w, v).status = "OK"
  PROVE  CoreAnswer(w, v) = Base(w, v)
<1>1. Mxu(w, v) = Unsupported /\ v.on \cap InventoryFirst = {}
  BY DEF Mxu, Guarded, BaseFamilies, InventoryFirst
<1>2. Winner(CommonClaims(w, v)).answer = Base(w, v)
  BY <1>1, CommonIsBase
<1> QED BY <1>2, BaseReached

LEMMA ExtraTaken ==
  ASSUME NEW w, NEW v, v.on \subseteq BaseFamilies, v.rev \in R6, Extra(w, v).status = "OK"
  PROVE  Winner(CommonClaims(w, v)).answer = Extra(w, v)
<1> DEFINE claims == CommonClaims(w, v)
           given == Extra(w, v)
<1>1. Len(claims) = 5 /\ DOMAIN claims = 1..5
  BY DEF CommonClaims
<1>2. given # Unsupported
  BY RefusalsRefuse
<1>3. ~claims[1].made /\ ~claims[2].made
  <2>1. Mxu(w, v) = Unsupported /\ v.on \cap InventoryFirst = {}
    BY DEF Mxu, Guarded, BaseFamilies, InventoryFirst
  <2> QED BY <2>1 DEF CommonClaims, Claim
<1>4. claims[3].made /\ claims[3].answer = given
  BY <1>2 DEF CommonClaims, Claim
<1> HIDE DEF claims, given
<1>5. Winner(claims) = claims[3]
  <2>1. claims[3].made /\ 3 \in 1..Len(claims) /\ Len(claims) \in Nat
    BY <1>1, <1>4
  <2>2. \A j \in 1..Len(claims) : j < 3 => ~claims[j].made
    BY <1>1, <1>3
  <2> QED BY <2>1, <2>2, WinnerAt, Zenon
<1> QED BY <1>4, <1>5 DEF claims, given

LEMMA ExtraReplays ==
  ASSUME NEW w \in Words, NEW v, v.on \subseteq BaseFamilies, Asked(v) = v.on,
         v.rev \in R6, Extra(w, v).status = "OK"
  PROVE  CoreAnswer(w, v) = Extra(w, v)
BY BaseReached, ExtraTaken

\* The three words of the base set, and what it asks for them.
LEMMA MainDecodes ==
  ASSUME NEW w \in Words, NEW u, Main(w, u).status = "OK"
  PROVE  \/ /\ w = "MOVN" /\ u.rev \notin {"I", "II", "III"} \cup R6 /\ Main(w, u) = Ok(101)
         \/ /\ w = "OP62" /\ u.rev \notin {"I"} \cup R6 /\ Main(w, u) = Ok(405)
            /\ "COP2" \in u.on
         \/ /\ w = "ASX" /\ u.rev \in {"I", "II"} /\ Main(w, u) = Ok(407)
            /\ "COP3" \in u.on
<1> HIDE DEF Ok
<1>1. w \in Mmi \cup {"SQ"} \cup Quads \cup {"LSA", "COP2"} => Refuses(Main(w, u))
  BY MainKnows DEF Refuses
<1>2. w \in {"MOVN", "OP62", "ASX"}
  BY <1>1, RefusalsRefuse DEF Refuses, Words
<1>3. CASE w = "MOVN"
  <2>1. Main(w, u) = IF u.rev \in {"I", "II", "III"} \cup R6 THEN Invalid ELSE Ok(101)
    BY <1>3, Zenon DEF Main, Guarded, Mmi
  <2> QED BY <1>3, <2>1, RefusalsRefuse
<1>4. CASE w = "OP62"
  <2>1. Main(w, u) = IF u.rev \in {"I"} \cup R6 THEN Invalid
                     ELSE IF "COP2" \notin u.on THEN Unsupported ELSE Ok(405)
    BY <1>4, Zenon DEF Main, Guarded, Mmi
  <2> QED BY <1>4, <2>1, RefusalsRefuse
<1>5. CASE w = "ASX"
  <2>1. Main(w, u) = IF u.rev \notin {"I", "II"} \/ "COP3" \notin u.on
                     THEN Unsupported ELSE Ok(407)
    BY <1>5, Zenon DEF Main, Guarded, Mmi
  <2> QED BY <1>5, <2>1, RefusalsRefuse
<1> QED BY <1>2, <1>3, <1>4, <1>5

LEMMA MainReplays ==
  ASSUME NEW w \in Words, NEW u, NEW v, Main(w, u).status = "OK",
         Replayed(v, u, Main(w, u).form)
  PROVE  CoreAnswer(w, v) = Main(w, u)
<1>1. \A n : Ok(n).form = n
  BY DEF Ok, Unsupported
<1>2. \/ /\ w = "MOVN" /\ u.rev \notin {"I", "II", "III"} \cup R6 /\ Main(w, u) = Ok(101)
      \/ /\ w = "OP62" /\ u.rev \notin {"I"} \cup R6 /\ Main(w, u) = Ok(405)
      \/ /\ w = "ASX" /\ u.rev \in {"I", "II"} /\ Main(w, u) = Ok(407)
  BY MainDecodes
<1>3. v.rev = u.rev
  BY DEF Replayed
<1>4. CASE w = "MOVN"
  <2>1. v.on \subseteq BaseFamilies /\ Asked(v) = v.on
    BY <1>1, <1>2, <1>4, BaseNeeds, AskedOnly DEF BaseFamilies
  <2>2. Main(w, v) = Main(w, u) /\ v.rev \notin R6
    BY <1>2, <1>3, <1>4, Zenon DEF Main, Guarded, Mmi
  <2> QED BY <2>1, <2>2, RefusalsRefuse, BaseReplays DEF Base
<1>5. CASE w = "OP62"
  <2>1. v.on \subseteq BaseFamilies /\ Asked(v) = v.on /\ "COP2" \in v.on
    BY <1>1, <1>2, <1>5, BaseNeeds, AskedOnly DEF BaseFamilies
  <2>2. Main(w, v) = Main(w, u) /\ v.rev \notin R6
    BY <1>2, <1>3, <1>5, <2>1, Zenon DEF Main, Guarded, Mmi
  <2> QED BY <2>1, <2>2, RefusalsRefuse, BaseReplays DEF Base
<1>6. CASE w = "ASX"
  <2>1. v.on \subseteq BaseFamilies /\ Asked(v) = v.on /\ "COP3" \in v.on
    BY <1>1, <1>2, <1>6, BaseNeeds, AskedOnly DEF BaseFamilies
  <2>2. Main(w, v) = Main(w, u)
    BY <1>2, <1>3, <1>6, <2>1, ZenonT(30) DEF Main, Guarded, Mmi
  <2>3. v.rev \notin R6
    BY <1>2, <1>3, <1>6 DEF R6
  <2> QED BY <2>1, <2>2, <2>3, RefusalsRefuse, BaseReplays DEF Base
<1> QED BY <1>2, <1>4, <1>5, <1>6

LEMMA Release6Replays ==
  ASSUME NEW w \in Words, NEW u, NEW v, Release6(w, u).status = "OK",
         Replayed(v, u, Release6(w, u).form)
  PROVE  CoreAnswer(w, v) = Release6(w, u)
<1>1. Needs(Release6(w, u).form, u.rev) = {}
  BY OtherForms, BaseNeeds
<1>2. v.on \subseteq {"FPR32"} /\ Asked(v) = v.on
  BY <1>1, AskedOnly
<1>3. u.rev \in R6 /\ v.rev = u.rev
  BY RefusalsRefuse DEF Release6, Guarded, Replayed
<1>4. Release6(w, v) = Release6(w, u)
  BY <1>3 DEF Release6, Guarded
<1>5. Extra(w, v) = Release6(w, v)
  BY <1>2, <1>4, RefusalsRefuse, FirstOfThree DEF Extra
<1> QED BY <1>2, <1>3, <1>4, <1>5, ExtraReplays DEF BaseFamilies

LEMMA AdduhReplays ==
  ASSUME NEW w \in Words, w = "SQ", NEW u, NEW v, Modules(w, u).status = "OK",
         Replayed(v, u, Modules(w, u).form)
  PROVE  CoreAnswer(w, v) = Modules(w, u)
<1>1. \A n : Ok(n).form = n
  BY DEF Ok, Unsupported
<1>2. \A x : Modules(w, x) = Adduh(x)
  BY MsaFormsListed DEF Modules
<1>3. Adduh(u) = Ok(16393) /\ u.rev \in Release2Up
  BY <1>2, RefusalsRefuse DEF Adduh, Guarded
<1>4. Needs(Modules(w, u).form, u.rev) = {"DSP", "DSPR2"} \cup IF u.rev \in R6 THEN {"DSPR3"} ELSE {}
  <2>1. Modules(w, u).form = 16393
    BY <1>1, <1>2, <1>3
  <2> QED BY <2>1, BaseNeeds
<1>5. /\ v.on \subseteq {"DSP", "DSPR2", "DSPR3", "FPR32"} /\ Asked(v) = v.on
      /\ {"DSP", "DSPR2"} \subseteq v.on /\ (u.rev \in R6 => "DSPR3" \in v.on) /\ v.rev = u.rev
  <2> DEFINE needs == Needs(Modules(w, u).form, u.rev)
  <2>1. /\ {"DSP", "DSPR2"} \subseteq needs /\ needs \subseteq {"DSP", "DSPR2", "DSPR3"}
        /\ u.rev \in R6 => "DSPR3" \in needs
    BY <1>4
  <2>2. /\ Asked(v) = v.on /\ needs \subseteq v.on /\ v.on \subseteq needs \cup {"FPR32"}
        /\ v.rev = u.rev
    BY AskedOnly DEF Replayed
  <2> HIDE DEF needs
  <2> QED BY <2>1, <2>2
<1>6. Adduh(v) = Ok(16393)
  BY <1>3, <1>5 DEF Adduh, Guarded
<1>7. v.on \subseteq BaseFamilies
  BY <1>5 DEF BaseFamilies
<1>8. Adduh(u).status = "OK"
  BY <1>2
<1>9. CASE v.rev \in R6
  <2>1. Extra(w, v) = Adduh(v)
    BY <1>2, <1>3, <1>5, <1>6, <1>8, <1>9, RefusalsRefuse, FirstOfThree DEF Extra
  <2> QED BY <1>2, <1>3, <1>5, <1>6, <1>7, <1>8, <1>9, <2>1, ExtraReplays
<1>10. CASE v.rev \notin R6
  <2>1. Main(w, v) = Unsupported
    <3>1. v.rev \in Release2Up
      BY <1>3, <1>5
    <3> QED BY <3>1, Zenon DEF Main, Guarded, Mmi
  <2>2. Base(w, v) = Adduh(v)
    BY <1>2, <2>1 DEF Base
  <2> QED BY <1>2, <1>3, <1>5, <1>6, <1>7, <1>8, <1>10, <2>2, BaseReplays
<1> QED BY <1>9, <1>10

\* What MSA asks of a view, without the families of revision 64R2.
LEMMA MsaDecodes ==
  ASSUME NEW w \in DOMAIN MsaForms, NEW u, Msa(w, u).status = "OK"
  PROVE  /\ Msa(w, u) = Ok(MsaForms[w]) /\ MsaForms[w] \in Range(MsaForms)
         /\ MsaRevision(u) /\ "FPR32" \notin u.on /\ {"MSA", "FPU"} \subseteq u.on
         /\ ~(w \in {"COPY", "INSERT"} /\ u.mode # 64)
         /\ u.rev \in {"32R5", "64R5", "64R2"} \cup R6
<1>1. MsaForms[w] \in Range(MsaForms)
  BY DEF Range
<1> QED BY <1>1, RefusalsRefuse DEF Msa, Guarded, MsaRevision

LEMMA MsaReplays ==
  ASSUME NEW w \in Words, w \in DOMAIN MsaForms, NEW u, NEW v, Modules(w, u).status = "OK",
         Replayed(v, u, Modules(w, u).form),
         ~(w = "LSA" /\ u.rev \in R6), u.rev = "64R2" => u.mode = 64
  PROVE  CoreAnswer(w, v) = Modules(w, u)
<1>1. \A n : Ok(n).form = n
  BY DEF Ok, Unsupported
<1>2. \A x : Modules(w, x) = Msa(w, x)
  BY DEF Modules
<1>3. Msa(w, u).status = "OK"
  BY <1>2
<1>4. Needs(Modules(w, u).form, u.rev) = MsaNeeds(u.rev)
  <2>1. Modules(w, u).form \in Range(MsaForms)
    BY <1>1, <1>2, <1>3, MsaDecodes
  <2>2. Modules(w, u).form \in Nat
    BY <2>1, MsaFormsListed
  <2> QED BY <2>1, <2>2, BaseNeeds
<1>5. u.rev \in {"32R5", "64R5", "64R2"} \cup R6 /\ "FPR32" \notin u.on
  BY <1>3, MsaDecodes
<1>6. v.mode = u.mode /\ v.rev = u.rev /\ v.on = MsaNeeds(u.rev) /\ Asked(v) = v.on
  <2>1. u.rev \notin PairedRevisions
    BY <1>5 DEF PairedRevisions, R6
  <2>2. v.mode = u.mode /\ v.rev = u.rev /\ v.on = Needs(Modules(w, u).form, u.rev)
    BY <1>5, <2>1 DEF Replayed, FprBit
  <2>3. Asked(v) = v.on
    BY AskedOnly
  <2> QED BY <1>4, <2>2, <2>3
<1>7. "FPR32" \notin v.on /\ {"MSA", "FPU"} \subseteq v.on
  BY <1>6 DEF MsaNeeds
<1>8. MsaRevision(v)
  BY <1>5, <1>6 DEF MsaRevision, MsaNeeds
<1>9. Msa(w, v) = Msa(w, u)
  BY <1>3, <1>6, <1>7, <1>8, MsaDecodes DEF Msa, Guarded
<1>10. w \in Quads \cup {"LSA"}
  BY MsaFormsListed DEF Quads
<1>11. Msa(w, v).status = "OK" /\ Msa(w, v) # Unsupported
  BY <1>3, <1>9, RefusalsRefuse
<1>12. CASE u.rev = "64R2"
  <2>1. v.on = {"MSA", "FPU", "LOONGSON", "LOONGSIMD"}
    BY <1>6, <1>12 DEF MsaNeeds
  <2>2. VendorAnswer(VendorClaims(w, v), w, v) = ProcessorAnswer(ProcessorClaims(w, v), w, v)
    <3> DEFINE claims == VendorClaims(w, v)
    <3>1. DOMAIN claims = 1..6
      BY DEF VendorClaims
    <3>2. w # "COP2" /\ Loongsimd(w, v) = Unsupported
      BY <1>10 DEF Loongsimd, Guarded, Quads
    <3>3. {"XLP", "XLR", "MXU2", "MXU3", "LOONGASX", "R5900"} \cap Asked(v) = {}
      BY <1>6, <2>1
    <3>4. /\ ~claims[1].made /\ ~claims[2].made /\ ~claims[3].made
          /\ ~claims[4].made /\ ~claims[5].made /\ ~claims[6].made
      BY <3>2, <3>3 DEF VendorClaims, Claim
    <3> HIDE DEF claims
    <3>5. ~\E k \in DOMAIN claims : claims[k].made
      BY <3>1, <3>4
    <3> QED BY <3>5 DEF VendorAnswer, claims
  <2>3. ProcessorAnswer(ProcessorClaims(w, v), w, v) = Msa(w, v)
    BY <1>6, <1>12, <2>1, MsaLast
  <2>4. "ALLEGREX" \notin Asked(v)
    BY <1>6, <2>1
  <2> QED BY <1>2, <1>9, <2>2, <2>3, <2>4 DEF CoreAnswer
<1>13. CASE u.rev # "64R2"
  <2>1. v.on \subseteq BaseFamilies /\ "DSPR3" \notin v.on
    BY <1>6, <1>13 DEF MsaNeeds, BaseFamilies
  <2>2. CASE v.rev \in R6
    <3>1. Release6(w, v) = Unsupported
      BY <1>6, <1>10, <2>2 DEF Release6, Guarded, Listed, Quads
    <3>2. Extra(w, v) = Msa(w, v)
      BY <1>2, <2>1, <3>1, FirstOfThree DEF Extra
    <3> QED BY <1>2, <1>6, <1>9, <1>11, <2>1, <2>2, <3>2, ExtraReplays
  <2>3. CASE v.rev \notin R6
    <3>1. Base(w, v) = Msa(w, v)
      BY <1>2, <1>10, MainKnows DEF Base
    <3> QED BY <1>2, <1>6, <1>9, <1>11, <2>1, <2>3, <3>1, BaseReplays
  <2> QED BY <2>2, <2>3
<1> QED BY <1>12, <1>13

\* The core's answer is given again to a request of what it needs.
LEMMA CoreReplays ==
  ASSUME NEW w \in Words, NEW u, NEW v, NEW a, a = CoreAnswer(w, u), a.status = "OK",
         Replayed(v, u, a.form), "CNMIPSP" \notin Needs(a.form, u.rev),
         ~(a.form = 16876 /\ u.rev \in R6),
         u.rev = "64R2" /\ a.form \in Range(MsaForms) => u.mode = 64
  PROVE  CoreAnswer(w, v) = a
<1>1. a \in Answers(w, u)
  BY CoreSource
<1>2. CASE a = Modules(w, u)
  <2>1. CASE w \in DOMAIN MsaForms
    <3>1. Msa(w, u).status = "OK" /\ a = Msa(w, u)
      BY <1>2, <2>1 DEF Modules
    <3>2. a = Ok(MsaForms[w]) /\ MsaForms[w] \in Range(MsaForms)
      BY <2>1, <3>1, MsaDecodes
    <3>3. a.form = MsaForms[w]
      BY <3>2 DEF Ok, Unsupported
    <3>4. w = "LSA" => a.form = 16876
      BY <3>3 DEF MsaForms
    <3>5. ~(w = "LSA" /\ u.rev \in R6) /\ (u.rev = "64R2" => u.mode = 64)
      BY <3>2, <3>3, <3>4
    <3> QED BY <1>2, <2>1, <3>5, MsaReplays
  <2>2. CASE w \notin DOMAIN MsaForms
    <3>1. w = "SQ"
      BY <1>2, <2>2, RefusalsRefuse DEF Modules
    <3> QED BY <1>2, <3>1, AdduhReplays
  <2> QED BY <2>1, <2>2
<1>3. CASE a \in {Xlp(w, u), Xlr(w, u), MxuVector(w, u), Loongasx(w, u), Loongsimd(w, u),
                  VuMacro(w, u)}
  BY <1>3, XlpReplays, XlrReplays, MxuVectorReplays, LoongasxReplays, LoongsimdReplays,
     VuMacroReplays
<1>4. CASE a \in {Allegrex(w, u), R5900(w, u), Mxu(w, u), InventoryAnswer(w, u), Main(w, u),
                  Release6(w, u)}
  BY <1>4, AllegrexReplays, R5900Replays, MxuReplays, InventoryReplays, MainReplays,
     Release6Replays
<1> QED BY <1>1, <1>2, <1>3, <1>4, RefusalsRefuse DEF Answers

-----------------------------------------------------------------------------
(* The request of what a form needs is accepted.                           *)

\* The sets of families a form can need, but for CNMIPSP alone.
NeedSets ==
  {{}, {"XLP"}, {"XLR"}, {"MXU2"}, {"MXU3"}, {"LOONGASX", "LOONGSON", "FPU"},
   {"LOONGSIMD", "LOONGSON", "FPU"}, {"R5900", "R5900_VU0"}, {"ALLEGREX"}, {"R5900"}, {"MXU"},
   {"DSP", "DSPR2"}, {"DSP", "DSPR2", "DSPR3"}, {"COP2"}, {"COP3"}, {"MSA", "FPU"},
   {"MSA", "FPU", "LOONGSON", "LOONGSIMD"}, {"CNMIPS"}, {"LOONGSON_EXT", "LOONGSON"},
   {"LOONGSON2F", "LOONGSON"}, {"LOONGSON_CAM", "LOONGSON"}, {"LOONGSON2E", "LOONGSON"},
   {"LOONGSON2F", "LOONGSON", "FPU"}, {"MDMX", "FPU"}}

LEMMA RequiredListed ==
  /\ \A f \in {"XLP", "XLR", "MXU2", "MXU3", "LOONGSON", "FPU", "R5900", "ALLEGREX", "MXU", "DSP",
               "COP2", "COP3", "CNMIPS"} : Required(f) = {f}
  /\ Required("LOONGASX") = {"LOONGASX", "LOONGSON", "FPU"}
  /\ Required("LOONGSIMD") = {"LOONGSIMD", "LOONGSON", "FPU"}
  /\ Required("R5900_VU0") = {"R5900_VU0", "R5900"}
  /\ Required("DSPR2") = {"DSPR2", "DSP"}
  /\ Required("DSPR3") = {"DSPR3", "DSPR2", "DSP"}
  /\ Required("MSA") = {"MSA", "FPU"} /\ Required("MDMX") = {"MDMX", "FPU"}
  /\ \A f \in {"LOONGSON_EXT", "LOONGSON2F", "LOONGSON2E", "LOONGSON_CAM"} :
       Required(f) = {f, "LOONGSON"}
<1>1. /\ Required("LOONGASX") = {"LOONGASX", "LOONGSON", "FPU"}
      /\ Required("LOONGSIMD") = {"LOONGSIMD", "LOONGSON", "FPU"}
  BY DEF Required
<1>2. \A f \in {"XLP", "XLR", "MXU2", "MXU3", "LOONGSON", "FPU", "R5900", "ALLEGREX", "MXU", "DSP",
               "COP2", "COP3", "CNMIPS"} : Required(f) = {f}
  BY DEF Required
<1>3. /\ Required("R5900_VU0") = {"R5900_VU0", "R5900"}
      /\ Required("DSPR2") = {"DSPR2", "DSP"}
      /\ Required("DSPR3") = {"DSPR3", "DSPR2", "DSP"}
  BY DEF Required
<1>4. Required("MSA") = {"MSA", "FPU"} /\ Required("MDMX") = {"MDMX", "FPU"}
  BY DEF Required
<1>5. \A f \in {"LOONGSON_EXT", "LOONGSON2F", "LOONGSON2E", "LOONGSON_CAM"} :
       Required(f) = {f, "LOONGSON"}
  BY DEF Required
<1> QED BY <1>1, <1>2, <1>3, <1>4, <1>5

LEMMA NeedSetsClosed ==
  ASSUME NEW S \in NeedSets
  PROVE  Closed(S)
BY RequiredListed DEF NeedSets, Closed

LEMMA NeedSetsSound ==
  ASSUME NEW S \in NeedSets, NEW layout, layout \subseteq {"FPR32"},
         layout # {} => S \cap {"MDMX", "MSA", "LOONGSIMD", "LOONGASX"} = {}
  PROVE  ~Rejected(S \cup layout)
BY DEF NeedSets, Rejected, ConflictingFeatures, MoreThanOne, Processors, Generations,
       LoongsonUsers, Vu

Paired(u) == u.rev \in PairedRevisions \/ "FPR32" \in u.on

\* What a form needs was in force when it was decoded, but for two spaces a
\* processor keeps without their families.
Requestable(needs, f, u) ==
  /\ needs \in NeedSets
  /\ Paired(u) => needs \cap {"MDMX", "MSA", "LOONGSIMD", "LOONGASX"} = {}
  /\ \/ needs \subseteq u.on
     \/ needs = {"R5900"} /\ u.mode = 64 /\ u.rev = "III"
     \/ needs = {"MSA", "FPU", "LOONGSON", "LOONGSIMD"} /\ u.rev = "64R2" /\ f \in Range(MsaForms)

LEMMA VendorRequestable ==
  ASSUME NEW w \in Words, NEW u
  PROVE  \A a \in {Xlp(w, u), Xlr(w, u), MxuVector(w, u), Loongasx(w, u), Loongsimd(w, u),
                   VuMacro(w, u)} :
           a.status = "OK" => Requestable(Needs(a.form, u.rev), a.form, u)
<1>1. ASSUME Xlp(w, u).status = "OK"
      PROVE  Requestable(Needs(Xlp(w, u).form, u.rev), Xlp(w, u).form, u)
  <2>1. Needs(Xlp(w, u).form, u.rev) = {"XLP"}
    BY <1>1, VendorForms, RangeNeeds
  <2>2. "XLP" \in u.on
    BY <1>1, XlpDecodes
  <2> QED BY <2>1, <2>2 DEF Requestable, NeedSets
<1>2. ASSUME Xlr(w, u).status = "OK"
      PROVE  Requestable(Needs(Xlr(w, u).form, u.rev), Xlr(w, u).form, u)
  <2>1. Needs(Xlr(w, u).form, u.rev) = {"XLR"}
    BY <1>2, VendorForms, RangeNeeds
  <2>2. "XLR" \in u.on
    BY <1>2, XlrDecodes
  <2> QED BY <2>1, <2>2 DEF Requestable, NeedSets
<1>3. ASSUME MxuVector(w, u).status = "OK"
      PROVE  Requestable(Needs(MxuVector(w, u).form, u.rev), MxuVector(w, u).form, u)
  <2> DEFINE f == MxuVector(w, u).form
  <2>1. \A n : Ok(n).form = n
    BY DEF Ok, Unsupported
  <2>2. \/ "MXU3" \in u.on /\ f \in {57147, 57289, 57395, 57434}
        \/ "MXU2" \in u.on /\ f \in {56020, 56202, 56332}
    BY <1>3, <2>1, RefusalsRefuse DEF MxuVector, MxuGeneration, Listed
  <2> HIDE DEF f
  <2>3. \/ "MXU3" \in u.on /\ Needs(f, u.rev) = {"MXU3"}
        \/ "MXU2" \in u.on /\ Needs(f, u.rev) = {"MXU2"}
    BY <2>2, RangeNeeds
  <2> QED BY <2>3 DEF Requestable, NeedSets, f
<1>4. ASSUME Loongasx(w, u).status = "OK"
      PROVE  Requestable(Needs(Loongasx(w, u).form, u.rev), Loongasx(w, u).form, u)
  <2>1. Needs(Loongasx(w, u).form, u.rev) = {"LOONGASX", "LOONGSON", "FPU"}
    BY <1>4, VendorForms, RangeNeeds
  <2>2. /\ u.rev = "64R2" /\ "FPR32" \notin u.on
        /\ {"LOONGASX", "LOONGSON", "FPU"} \subseteq u.on
    BY <1>4, LoongasxDecodes, RefusalsRefuse DEF Loongasx, Guarded
  <2>3. ~Paired(u)
    BY <2>2 DEF Paired, PairedRevisions
  <2> QED BY <2>1, <2>2, <2>3 DEF Requestable, NeedSets
<1>5. ASSUME Loongsimd(w, u).status = "OK"
      PROVE  Requestable(Needs(Loongsimd(w, u).form, u.rev), Loongsimd(w, u).form, u)
  <2>1. Needs(Loongsimd(w, u).form, u.rev) = {"LOONGSIMD", "LOONGSON", "FPU"}
    BY <1>5, VendorForms, RangeNeeds
  <2>2. /\ u.rev \in Wide2To5 /\ "FPR32" \notin u.on
        /\ {"LOONGSIMD", "LOONGSON", "FPU"} \subseteq u.on
    BY <1>5, LoongsimdDecodes, RefusalsRefuse DEF Loongsimd, Guarded
  <2>3. ~Paired(u)
    BY <2>2 DEF Paired, PairedRevisions, Wide2To5
  <2> QED BY <2>1, <2>2, <2>3 DEF Requestable, NeedSets
<1>6. ASSUME VuMacro(w, u).status = "OK"
      PROVE  Requestable(Needs(VuMacro(w, u).form, u.rev), VuMacro(w, u).form, u)
  <2>1. Needs(VuMacro(w, u).form, u.rev) = {"R5900", "R5900_VU0"}
    BY <1>6, VendorForms, RangeNeeds
  <2>2. {"R5900", "R5900_VU0"} \subseteq u.on
    BY <1>6, VuMacroDecodes
  <2> QED BY <2>1, <2>2 DEF Requestable, NeedSets
<1> QED BY <1>1, <1>2, <1>3, <1>4, <1>5, <1>6

LEMMA InventoryRequestable ==
  ASSUME NEW w \in Words, NEW u, InventoryAnswer(w, u).status = "OK",
         "CNMIPSP" \notin Needs(InventoryAnswer(w, u).form, u.rev)
  PROVE  Requestable(Needs(InventoryAnswer(w, u).form, u.rev), InventoryAnswer(w, u).form, u)
<1>1. \A n : Ok(n).form = n
  BY DEF Ok, Unsupported
<1>2. PICK i \in Chosen(w, u) : InventoryAnswer(w, u) = Ok(Inventory[w][i].form)
  BY InventoryPicks, RefusalsRefuse
<1> DEFINE row == Inventory[w][i]
<1>3. row \in Range(Inventory[w]) /\ row.form = InventoryAnswer(w, u).form
  BY <1>1, <1>2, InventoryLists DEF Chosen, Range
<1>4. Needs(row.form, u.rev) = row.needs
  BY <1>3, RowNeedsOwn
<1>5. RowNumbered(row) /\ row.revs \in {Wide2To5, Loongson2Revs, MdmxRevs}
  BY <1>3, RowsNumbered
<1>6. RowEnabled(row, u) /\ ~("FPR32" \in u.on /\ NeedsWideFprs(row))
  BY <1>2 DEF Chosen
<1>7. u.rev \notin PairedRevisions
  BY <1>5, <1>6 DEF RowEnabled, Wide2To5, Loongson2Revs, MdmxRevs, PairedRevisions
<1>8. Paired(u) => "MDMX" \notin row.needs
  BY <1>6, <1>7 DEF Paired, NeedsWideFprs
<1>9. row.needs \subseteq u.on
  BY <1>6 DEF RowEnabled
<1> HIDE DEF row
<1>10. "CNMIPSP" \notin row.needs
  BY <1>3, <1>4
<1>11. row.needs \in {{"CNMIPS"}, {"LOONGSON_EXT", "LOONGSON"}, {"LOONGSON2F", "LOONGSON"},
                      {"LOONGSON_CAM", "LOONGSON"}, {"LOONGSON2E", "LOONGSON"},
                      {"LOONGSON2F", "LOONGSON", "FPU"}, {"MDMX", "FPU"}}
  BY <1>5, <1>10 DEF RowNumbered
<1>12. row.needs \in NeedSets
  BY <1>11, Zenon DEF NeedSets
<1>13. Paired(u) => row.needs \cap {"MDMX", "MSA", "LOONGSIMD", "LOONGASX"} = {}
  BY <1>8, <1>11
<1> QED BY <1>3, <1>4, <1>9, <1>12, <1>13 DEF Requestable

LEMMA OtherRequestable ==
  ASSUME NEW w \in Words, NEW u
  PROVE  \A a \in {Allegrex(w, u), R5900(w, u), Mxu(w, u), Main(w, u), Release6(w, u),
                   Modules(w, u)} :
           a.status = "OK" => Requestable(Needs(a.form, u.rev), a.form, u)
<1>1. ASSUME Allegrex(w, u).status = "OK"
      PROVE  Requestable(Needs(Allegrex(w, u).form, u.rev), Allegrex(w, u).form, u)
  <2>1. Needs(Allegrex(w, u).form, u.rev) = {"ALLEGREX"}
    BY <1>1, OtherForms, RangeNeeds
  <2>2. "ALLEGREX" \in u.on
    BY <1>1, AllegrexDecodes
  <2> QED BY <2>1, <2>2 DEF Requestable, NeedSets
<1>2. ASSUME R5900(w, u).status = "OK"
      PROVE  Requestable(Needs(R5900(w, u).form, u.rev), R5900(w, u).form, u)
  <2>1. Needs(R5900(w, u).form, u.rev) = {"R5900"}
    BY <1>2, OtherForms, RangeNeeds
  <2>2. u.mode = 64 /\ u.rev = "III"
    BY <1>2, R5900Decodes
  <2> QED BY <2>1, <2>2 DEF Requestable, NeedSets
<1>3. ASSUME Mxu(w, u).status = "OK"
      PROVE  Requestable(Needs(Mxu(w, u).form, u.rev), Mxu(w, u).form, u)
  <2>1. Needs(Mxu(w, u).form, u.rev) = {"MXU"}
    BY <1>3, OtherForms, RangeNeeds
  <2>2. "MXU" \in u.on
    BY <1>3, MxuDecodes
  <2> QED BY <2>1, <2>2 DEF Requestable, NeedSets
<1>4. ASSUME Main(w, u).status = "OK"
      PROVE  Requestable(Needs(Main(w, u).form, u.rev), Main(w, u).form, u)
  <2>1. \A n : Ok(n).form = n
    BY DEF Ok, Unsupported
  <2>2. \/ Main(w, u).form = 101
        \/ Main(w, u).form = 405 /\ "COP2" \in u.on
        \/ Main(w, u).form = 407 /\ "COP3" \in u.on
    BY <1>4, <2>1, MainDecodes
  <2>3. \/ Needs(Main(w, u).form, u.rev) = {}
        \/ Needs(Main(w, u).form, u.rev) = {"COP2"} /\ "COP2" \in u.on
        \/ Needs(Main(w, u).form, u.rev) = {"COP3"} /\ "COP3" \in u.on
    BY <2>2, BaseNeeds
  <2> QED BY <2>3 DEF Requestable, NeedSets
<1>5. ASSUME Release6(w, u).status = "OK"
      PROVE  Requestable(Needs(Release6(w, u).form, u.rev), Release6(w, u).form, u)
  <2>1. Needs(Release6(w, u).form, u.rev) = {}
    BY <1>5, OtherForms, BaseNeeds
  <2> QED BY <2>1 DEF Requestable, NeedSets
<1>6. ASSUME Modules(w, u).status = "OK"
      PROVE  Requestable(Needs(Modules(w, u).form, u.rev), Modules(w, u).form, u)
  <2> DEFINE f == Modules(w, u).form
             needs == Needs(f, u.rev)
  <2>1. \A n : Ok(n).form = n
    BY DEF Ok, Unsupported
  <2>2. CASE w \in DOMAIN MsaForms
    <3>1. Msa(w, u).status = "OK" /\ Modules(w, u) = Msa(w, u)
      BY <1>6, <2>2 DEF Modules
    <3>2. /\ f \in Range(MsaForms) /\ "FPR32" \notin u.on /\ {"MSA", "FPU"} \subseteq u.on
          /\ u.rev \in {"32R5", "64R5", "64R2"} \cup R6
      BY <2>1, <2>2, <3>1, MsaDecodes
    <3>3. f \in Nat
      BY <3>2, MsaFormsListed
    <3> HIDE DEF f
    <3>4. needs = MsaNeeds(u.rev)
      BY <3>2, <3>3, BaseNeeds
    <3>5. ~Paired(u)
      BY <3>2 DEF Paired, PairedRevisions, R6
    <3>6. CASE u.rev = "64R2"
      BY <3>2, <3>4, <3>5, <3>6 DEF Requestable, MsaNeeds, NeedSets, f
    <3>7. CASE u.rev # "64R2"
      BY <3>2, <3>4, <3>5, <3>7 DEF Requestable, MsaNeeds, NeedSets, f
    <3> QED BY <3>6, <3>7
  <2>3. CASE w \notin DOMAIN MsaForms
    <3>1. w = "SQ" /\ Modules(w, u) = Adduh(u)
      BY <1>6, <2>3, RefusalsRefuse DEF Modules
    <3>2. /\ Adduh(u) = Ok(16393)
          /\ {"DSP", "DSPR2"} \subseteq u.on /\ (u.rev \in R6 => "DSPR3" \in u.on)
      BY <1>6, <3>1, RefusalsRefuse DEF Adduh, Guarded
    <3>3. f = 16393
      BY <2>1, <3>1, <3>2
    <3>4. needs = {"DSP", "DSPR2"} \cup IF u.rev \in R6 THEN {"DSPR3"} ELSE {}
      BY <3>3, BaseNeeds
    <3>5. needs \in {{"DSP", "DSPR2"}, {"DSP", "DSPR2", "DSPR3"}} /\ needs \subseteq u.on
      BY <3>2, <3>4
    <3> HIDE DEF f, needs
    <3>6. Requestable(needs, f, u)
      BY <3>5 DEF Requestable, NeedSets
    <3> QED BY <3>6 DEF f, needs
  <2> QED BY <2>2, <2>3
<1> QED BY <1>1, <1>2, <1>3, <1>4, <1>5, <1>6

LEMMA CoreRequestable ==
  ASSUME NEW w \in Words, NEW u, NEW a, a = CoreAnswer(w, u), a.status = "OK",
         "CNMIPSP" \notin Needs(a.form, u.rev)
  PROVE  Requestable(Needs(a.form, u.rev), a.form, u)
<1>1. a \in Answers(w, u)
  BY CoreSource
<1>2. CASE a = InventoryAnswer(w, u)
  BY <1>2, InventoryRequestable
<1>3. CASE a \in {Xlp(w, u), Xlr(w, u), MxuVector(w, u), Loongasx(w, u), Loongsimd(w, u),
                  VuMacro(w, u)}
  BY <1>3, VendorRequestable
<1>4. CASE a \in {Allegrex(w, u), R5900(w, u), Mxu(w, u), Main(w, u), Release6(w, u),
                  Modules(w, u)}
  BY <1>4, OtherRequestable
<1> QED BY <1>1, <1>2, <1>3, <1>4, RefusalsRefuse DEF Answers

\* What a view has in force its revision offers the generic processor too.
LEMMA ViewOffered ==
  ASSUME NEW k \in Callers, NEW S, RequestStatus(k, S) = "END_OF_INPUT", NEW u, u = View(k, S)
  PROVE  /\ u.mode = k.mode /\ u.rev = k.rev /\ u.policy = Policy(k.cpu, S)
         /\ u.on \subseteq RevisionFamilies("ANY", k.mode, k.rev) \cup {"FPR32"}
         /\ "FPR32" \in u.on => k.rev \notin R6
         /\ "R5900" \in Asked(u) => "FPR32" \in u.on
<1> DEFINE effective == EffectiveFamilies(k.cpu, k.mode, k.rev, "STANDARD", S, TRUE)
<1>1. k.cpu \in AllCpus /\ k.mode \in Modes /\ k.rev \in Revisions
  BY CallersAssumption
<1>2. effective \subseteq RevisionFamilies(k.cpu, k.mode, k.rev)
  BY OfferedFamilies DEF EffectiveFamilies
<1>3. u = [mode |-> k.mode, rev |-> k.rev,
           on |-> effective \cup FprBit(k.fpr32) \cup PolicyBits(k.cpu, effective),
           policy |-> Policy(k.cpu, S)]
  BY Zenon DEF View
<1>4. ~(k.fpr32 /\ k.rev \in R6) /\ RevisionAccepted(k.cpu, k.mode, k.rev)
  BY Zenon DEF RequestStatus, EmptyInputStatus
<1> HIDE DEF effective
<1>5. u.mode = k.mode /\ u.rev = k.rev /\ u.policy = Policy(k.cpu, S)
      /\ u.on = effective \cup FprBit(k.fpr32) \cup PolicyBits(k.cpu, effective)
  BY <1>3
<1>6. effective \subseteq RevisionFamilies("ANY", k.mode, k.rev)
  BY <1>1, <1>2, OfferedToGeneric
<1>7. "FPR32" \notin effective
  <2>1. effective \subseteq Families
    BY <1>1, <1>2, OfferedFamilies, FamiliesNamed
  <2> QED BY <2>1 DEF Families
<1>8. "R5900" \in effective => k.rev = "III"
  BY <1>2, OfferedFamilies DEF RevisionWithholds
<1>9. k.cpu # "ANY" /\ "R5900" \in CpuFamilies(k.cpu) => k.rev = "III"
  <2> SUFFICES ASSUME k.cpu # "ANY", "R5900" \in CpuFamilies(k.cpu) PROVE k.rev = "III"
    OBVIOUS
  <2>1. k.cpu = "R5900"
    BY <1>1, OnlyR5900
  <2>2. CpuRevision("R5900") = "III"
    BY DEF CpuRevision
  <2> QED BY <1>4, <2>1, <2>2 DEF RevisionAccepted
<1>10. "FPR32" \in u.on => k.rev \notin R6
  BY <1>4, <1>5, <1>7, <1>8, <1>9 DEF FprBit, PolicyBits, R6
<1>11. "R5900" \in Asked(u) => "FPR32" \in u.on
  <2>1. "R5900" \in Policy(k.cpu, S) => k.cpu # "ANY" /\ "R5900" \in CpuFamilies(k.cpu)
    BY DEF Policy
  <2>2. "R5900" \in FprBit(k.fpr32) \cup PolicyBits(k.cpu, effective) => FALSE
    BY DEF FprBit, PolicyBits
  <2> QED BY <1>5, <2>1, <2>2 DEF Asked, PolicyBits
<1>12. u.on \subseteq RevisionFamilies("ANY", k.mode, k.rev) \cup {"FPR32"}
  BY <1>5, <1>6 DEF FprBit, PolicyBits
<1> QED BY <1>5, <1>10, <1>11, <1>12

\* Two encoding spaces the generic processor has at their revisions.
LEMMA SpacesOffered ==
  /\ "R5900" \in RevisionFamilies("ANY", 64, "III")
  /\ {"MSA", "FPU", "LOONGSON", "LOONGSIMD"} \subseteq RevisionFamilies("ANY", 64, "64R2")
<1>1. AvailableFamilies("ANY", 64) = AllowedFamilies(64)
  <2>1. NativeFamilies = Families /\ BuildFamilies = Families
    BY FullBuild DEF NativeFamilies
  <2> QED BY <2>1, GenericHasAll DEF AvailableFamilies, AllowedFamilies, Modes
<1>2. {"R5900", "MSA", "FPU", "LOONGSON", "LOONGSIMD"} \subseteq AllowedFamilies(64)
  BY DEF AllowedFamilies, Families
<1>3. "R5900" \in RevisionFamilies("ANY", 64, "III")
  <2>1. "R5900" \notin RevisionWithholds(64, "III")
    BY DEF RevisionWithholds
  <2>2. \A avail : "R5900" \in RevisionAdmits("III", avail)
    <3> TAKE avail
    <3>1. RevisionAdmits("III", avail) =
            {"FPU", "COP2", "PAIRED_SINGLE", "R5900", "LOONGSON", "LOONGSON2E", "LOONGSON2F"} \cup Vu
      BY Zenon DEF RevisionAdmits, R6
    <3> QED BY <3>1
  <2> QED BY <1>1, <1>2, <2>1, <2>2 DEF RevisionFamilies
<1>4. {"MSA", "FPU", "LOONGSON", "LOONGSIMD"} \subseteq RevisionFamilies("ANY", 64, "64R2")
  <2> DEFINE avail == AvailableFamilies("ANY", 64) \ RevisionWithholds(64, "64R2")
  <2>1. {"MSA", "FPU", "LOONGSON", "LOONGSIMD"} \cap RevisionWithholds(64, "64R2") = {}
    BY DEF RevisionWithholds, Vu
  <2>2. {"MSA", "FPU", "LOONGSON", "LOONGSIMD"} \subseteq avail
    BY <1>1, <1>2, <2>1
  <2> HIDE DEF avail
  <2>3. RevisionAdmits("64R2", avail) =
          Families \ ({"DSPR3", "COP3", "CRC", "GINV"} \cup
                      IF "64R2" = "64R2" /\ "LOONGSIMD" \in avail THEN {} ELSE {"MSA"})
    BY Zenon DEF RevisionAdmits, R6
  <2> QED BY <2>2, <2>3 DEF RevisionFamilies, Families, avail
<1> QED BY <1>3, <1>4

\* The revision offers it.
LEMMA NeedsOffered ==
  ASSUME NEW k \in Callers, NEW S, RequestStatus(k, S) = "END_OF_INPUT", NEW u, u = View(k, S),
         NEW needs, NEW f, Requestable(needs, f, u), needs \subseteq Asked(u), "FPR32" \notin needs
  PROVE  needs \subseteq RevisionFamilies("ANY", k.mode, k.rev)
<1>1. u.mode = k.mode /\ u.rev = k.rev /\ u.policy = Policy(k.cpu, S)
      /\ u.on \subseteq RevisionFamilies("ANY", k.mode, k.rev) \cup {"FPR32"}
  BY ViewOffered
<1>2. CASE needs \subseteq u.on
  BY <1>1, <1>2
<1>3. CASE needs = {"R5900"} /\ u.mode = 64 /\ u.rev = "III"
  BY <1>1, <1>3, SpacesOffered
<1>4. CASE needs = {"MSA", "FPU", "LOONGSON", "LOONGSIMD"} /\ u.rev = "64R2"
  <2>1. "LOONGSON" \notin Policy(k.cpu, S)
    BY DEF Policy
  <2>2. "LOONGSON" \in RevisionFamilies("ANY", k.mode, k.rev)
    BY <1>1, <1>4, <2>1 DEF Asked
  <2>3. k.mode \in Modes
    BY CallersAssumption
  <2>4. k.mode = 64
    BY <2>2, <2>3 DEF RevisionFamilies, AvailableFamilies, AllowedFamilies, Modes
  <2> QED BY <1>1, <1>4, <2>4, SpacesOffered
<1> QED BY <1>2, <1>3, <1>4 DEF Requestable

\* The generic processor takes the request, and has it in force as it is.
LEMMA NeedsAccepted ==
  ASSUME NEW k \in Callers, NEW S, RequestStatus(k, S) = "END_OF_INPUT", NEW u, u = View(k, S),
         NEW needs, NEW f, Requestable(needs, f, u), needs \subseteq Asked(u), "FPR32" \notin needs,
         NEW g, g.cpu = "ANY", g.mode = k.mode, g.rev = k.rev,
         NEW layout, layout = FprBit(g.fpr32), "FPR32" \in layout <=> Paired(u)
  PROVE  /\ RequestStatus(g, needs) = "END_OF_INPUT"
         /\ View(g, needs) = [mode |-> u.mode, rev |-> u.rev, on |-> needs \cup layout,
                              policy |-> Policy("ANY", needs)]
<1>1. /\ u.mode = k.mode /\ u.rev = k.rev
      /\ "FPR32" \in u.on => k.rev \notin R6
      /\ "R5900" \in Asked(u) => "FPR32" \in u.on
  BY ViewOffered
<1>2. /\ k.cpu \in AllCpus /\ k.mode \in Modes /\ k.rev \in Revisions
  BY CallersAssumption
<1>3. needs \subseteq RevisionFamilies("ANY", k.mode, k.rev)
  BY NeedsOffered
<1>4. EffectiveFamilies("ANY", k.mode, k.rev, "STANDARD", needs, TRUE) = needs
  BY <1>3, OfferedFamilies DEF EffectiveFamilies
<1>5. RevisionAccepted("ANY", k.mode, k.rev)
  <2>1. RevisionAccepted(k.cpu, k.mode, k.rev)
    BY Zenon DEF RequestStatus, EmptyInputStatus
  <2> QED BY <1>2, <2>1, GenericHasAll DEF RevisionAccepted
<1>6. ~EncodingRefused("ANY", k.mode, k.rev, "STANDARD", needs)
  BY DEF EncodingRefused, VuWords, Compact
<1>7. ~(g.fpr32 /\ k.rev \in R6)
  BY <1>1 DEF Paired, PairedRevisions, R6, FprBit
<1>8. layout \subseteq {"FPR32"} /\ (layout # {} => Paired(u))
  BY DEF FprBit
<1>9. needs \in NeedSets
      /\ (Paired(u) => needs \cap {"MDMX", "MSA", "LOONGSIMD", "LOONGASX"} = {})
  BY DEF Requestable
<1>10. ~Rejected(needs \cup layout)
  BY <1>8, <1>9, NeedSetsSound
<1>11. PolicyBits("ANY", needs) \subseteq layout
  BY <1>1 DEF PolicyBits, FprBit, Paired
<1>12. needs \cup layout \cup PolicyBits("ANY", needs) = needs \cup layout
  BY <1>11
<1>13. Closed(needs)
  BY <1>9, NeedSetsClosed
<1>14. needs \subseteq BuildFamilies
  BY <1>3, FullBuild, OfferedFamilies, GenericHasAll
<1>15. ~RequestRefused("STANDARD", needs \cup layout)
  BY <1>10 DEF RequestRefused
<1>16. RequestStatus(g, needs) = "END_OF_INPUT"
  BY <1>2, <1>4, <1>5, <1>6, <1>7, <1>10, <1>12, <1>13, <1>14, <1>15, Zenon
  DEF RequestStatus, EmptyInputStatus
<1>17. View(g, needs) = [mode |-> k.mode, rev |-> k.rev, on |-> needs \cup layout,
                         policy |-> Policy("ANY", needs)]
  BY <1>2, <1>4, <1>12, Zenon DEF View
<1> QED BY <1>1, <1>16, <1>17

\* The one word that needs CNMIPSP.
LEMMA OcteonPlusWord ==
  ASSUME NEW f \in Nat, NEW r, "CNMIPSP" \in Needs(f, r)
  PROVE  f = 20065
<1>1. CASE f \notin 20000..20999
  <2>1. "CNMIPSP" \in NumberedNeeds(f, r)
    BY <1>1, NeedsNumbered
  <2> QED BY <2>1, NumberedNeed DEF MsaNeeds
<1>2. CASE f \in 20000..20999
  <2>1. "CNMIPSP" \notin NumberedNeeds(f, r)
    <3>1. f \notin Range(MsaForms)
      BY <1>2, MsaFormsListed
    <3> QED BY <1>2, <3>1, NumberedNeed
  <2>2. PICK row \in RowsOfInventory : row.form = f /\ "CNMIPSP" \in row.needs
    BY <2>1, RowNeeds
  <2>3. RowNumbered(row)
    BY RowsNumbered DEF RowsOfInventory
  <2> QED BY <2>2, <2>3 DEF RowNumbered
<1> QED BY <1>1, <1>2

\* An answer given is given again.
LEMMA AsksReplayed == Asks => Replays
<1> DEFINE f == answer.form
           r == caller.rev
           needs == Needs(f, r)
           p == answer.fpr32
           g == [caller EXCEPT !.cpu = "ANY", !.fpr32 = p]
           u == View(caller, selected)
           v == View(g, needs)
           a == CoreAnswer(word, u)
<1> SUFFICES ASSUME Asks, answer.status = "OK", ~ForgetsItsNeeds(answer, r)
             PROVE  Decode(word, g, needs) = answer
  BY DEF Replays
<1>1. /\ caller \in Callers /\ word \in Words
      /\ RequestStatus(caller, selected) = "END_OF_INPUT"
      /\ answer = DecodeView(word, caller, selected, u)
  BY DEF Asks, Decode
<1>2. u.mode = caller.mode /\ u.rev = r
  BY <1>1, ViewOffered
<1>3. answer = Checked(Core(word, u), word, caller, u)
  BY <1>1, RefusalsRefuse DEF DecodeView
<1>4. /\ Core(word, u).status = "OK" /\ answer = Core(word, u)
      /\ needs \subseteq CpuFamilies(caller.cpu) /\ needs \subseteq Asked(u)
  <2>1. Core(word, u).status = "OK"
    BY <1>3, CheckedRefuses
  <2>2. answer = Admitted(Core(word, u), Needs(Core(word, u).form, r), caller, u)
    BY <1>3, <2>1, CheckedRefuses
  <2>3. answer = Core(word, u)
    BY <2>2, RefusalsRefuse DEF Admitted
  <2> QED BY <2>1, <2>2, <2>3, RefusalsRefuse DEF Admitted
<1>5. a.status = "OK" /\ a.form = f
  BY <1>4, CoreForm
<1>6. f \in Nat /\ "FPR32" \notin needs
  BY <1>1, <1>5, CoreForms, NeedsListed
<1>7. p \in BOOLEAN /\ (p <=> Paired(u))
  BY <1>4, <1>5 DEF Core, WithLayout, Paired
<1>8. Policy("ANY", needs) \subseteq needs
  BY DEF Policy
<1>9. needs \subseteq Families
  BY <1>1, <1>4, FamiliesNamed, CallersAssumption
<1>10. g.cpu = "ANY" /\ g.rev = r
  BY <1>1, CallersAssumption
<1>11. /\ "CNMIPSP" \notin needs
       /\ ~(f = 16876 /\ r \in R6)
  BY <1>6, OcteonPlusWord DEF ForgetsItsNeeds
<1> HIDE DEF a
<1>12. Requestable(needs, f, u)
  BY <1>1, <1>2, <1>5, <1>11, CoreRequestable DEF a
<1>13. /\ RequestStatus(g, needs) = "END_OF_INPUT"
       /\ v = [mode |-> u.mode, rev |-> u.rev, on |-> needs \cup FprBit(p),
               policy |-> Policy("ANY", needs)]
  <2> DEFINE layout == FprBit(p)
  <2>1. /\ RequestStatus(caller, selected) = "END_OF_INPUT" /\ caller \in Callers
        /\ needs \subseteq Asked(u) /\ "FPR32" \notin needs
    BY <1>1, <1>4, <1>6
  <2>2. "FPR32" \in layout <=> Paired(u)
    BY <1>7 DEF FprBit
  <2>3. /\ g.cpu = "ANY" /\ g.mode = caller.mode /\ g.rev = caller.rev
        /\ layout = FprBit(g.fpr32)
    BY <1>1, CallersAssumption
  <2>4. u = View(caller, selected)
    OBVIOUS
  <2> HIDE DEF f, r, needs, p, g, u, layout
  <2>5. /\ RequestStatus(g, needs) = "END_OF_INPUT"
        /\ View(g, needs) = [mode |-> u.mode, rev |-> u.rev, on |-> needs \cup layout,
                             policy |-> Policy("ANY", needs)]
    BY <1>12, <2>1, <2>2, <2>3, <2>4, NeedsAccepted
  <2> QED BY <2>5 DEF layout
<1> HIDE DEF f, r, needs, p, g, u, v
<1>14. /\ v.mode = u.mode /\ v.rev = u.rev /\ v.on = needs \cup FprBit(p)
       /\ v.policy \subseteq needs
  BY <1>8, <1>13
<1>15. FprBit(p) = FprBit(Paired(u))
  BY <1>7 DEF FprBit
<1>16. Replayed(v, u, f)
  BY <1>2, <1>14, <1>15 DEF Replayed, Paired, needs
<1>17. u.rev = "64R2" /\ f \in Range(MsaForms) => u.mode = 64
  <2> SUFFICES ASSUME u.rev = "64R2", f \in Range(MsaForms) PROVE u.mode = 64
    OBVIOUS
  <2>1. "LOONGSON" \in needs
    BY <1>2, <1>6, BaseNeeds DEF MsaNeeds, needs
  <2>2. "LOONGSON" \in RevisionFamilies("ANY", caller.mode, r)
    BY <1>1, <1>4, <1>6, <1>12, <2>1, NeedsOffered DEF u, r
  <2> QED BY <1>1, <1>2, <2>2, CallersAssumption
          DEF RevisionFamilies, AvailableFamilies, AllowedFamilies, Modes
<1>18. CoreAnswer(word, v) = a
  BY <1>1, <1>2, <1>5, <1>11, <1>16, <1>17, CoreReplays DEF needs, a
<1>19. Core(word, v) = Core(word, u)
  <2>1. (v.rev \in PairedRevisions \/ "FPR32" \in v.on) <=> Paired(u)
    BY <1>6, <1>7, <1>14 DEF Paired, FprBit
  <2>2. WithLayout(a, v) = WithLayout(a, u)
    BY <2>1 DEF WithLayout, Paired
  <2> QED BY <1>18, <2>2 DEF Core, a
<1>20. ~OcteonKeeps(word, g, needs, v)
  BY <1>10, <1>14 DEF OcteonKeeps
<1>21. Checked(Core(word, v), word, g, v) = answer
  <2>1. Checked(Core(word, v), word, g, v) = Admitted(answer, needs, g, v)
    BY <1>4, <1>10, <1>19, CheckedRefuses DEF needs, f
  <2>2. needs \subseteq CpuFamilies(g.cpu) /\ needs \subseteq Asked(v)
    BY <1>9, <1>10, <1>14, GenericHasAll DEF Asked
  <2> QED BY <2>1, <2>2 DEF Admitted
<1>22. Decode(word, g, needs) = DecodeView(word, g, needs, v)
  BY <1>13, Zenon DEF Decode, v
<1> QED BY <1>20, <1>21, <1>22 DEF DecodeView

\* A decoded record can be replayed: for every caller and every selection, the
\* generic processor asked with nothing but what the record's form needs accepts
\* the request and decodes the word to the same record (the request that
\* cdisasm_mips_decode's record is checked with by the formatters and effects).
THEOREM RecordsReplay == Spec => []Replays
<1>1. Spec => []Asks
  BY AsksInitially, AsksKept, PTL DEF Spec
<1> QED BY <1>1, AsksReplayed, PTL

=============================================================================
