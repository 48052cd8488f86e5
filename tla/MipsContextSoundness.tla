------------------------ MODULE MipsContextSoundness ------------------------
(***************************************************************************)
(* What the context calls promise about a selection and about decoding     *)
(* with it, proved for every processor, revision, encoding and interface   *)
(* version.  Two of the promises need an assumption, and each assumption   *)
(* is one a run of MipsContext refutes the promise without.                *)
(***************************************************************************)
EXTENDS MipsContextProofs

\* The LOONGSON umbrella is built with the generations that select it.
WholeLoongsonBuild ==
  "LOONGSON" \in BuildFamilies => Generations \subseteq BuildFamilies

\* No context pairs the generic processor with an encoding that excludes the
\* vendor spaces the generic processor offers.
NoGenericCompact ==
  \A q \in Requests : q.cpu = "ANY" => q.enc \notin {"MIPS16", "MICROMIPS"}

-----------------------------------------------------------------------------
(* Contradictions.                                                         *)

\* LOONGSON is not left without a user.
Attended(F) == "LOONGSON" \in F => F \cap LoongsonUsers # {}

LEMMA MoreThanOneGrows ==
  ASSUME NEW S, NEW T, S \subseteq T, MoreThanOne(S)
  PROVE  MoreThanOne(T)
BY DEF MoreThanOne

LEMMA ProcessorsGrow ==
  ASSUME NEW F, NEW G, F \subseteq G
  PROVE  Processors(F) \subseteq Processors(G)
<1>1. (F \cap {"CNMIPS", "CNMIPSP"} # {}) => (G \cap {"CNMIPS", "CNMIPSP"} # {})
  OBVIOUS
<1>2. (F \cap {"MXU", "MXU2", "MXU3"} # {}) => (G \cap {"MXU", "MXU2", "MXU3"} # {})
  OBVIOUS
<1> QED BY <1>1, <1>2 DEF Processors

\* A part of a consistent selection is consistent, unless it orphans LOONGSON.
LEMMA PartConsistent ==
  ASSUME NEW F, NEW G, F \subseteq G, ~ConflictingFeatures(G), Attended(F)
  PROVE  ~ConflictingFeatures(F)
<1>1. ~MoreThanOne(Processors(F))
  BY ProcessorsGrow, MoreThanOneGrows DEF ConflictingFeatures
<1>2. ~MoreThanOne(F \cap Generations)
  <2>1. F \cap Generations \subseteq G \cap Generations
    OBVIOUS
  <2> QED BY <2>1, MoreThanOneGrows DEF ConflictingFeatures
<1>3. ~MoreThanOne(F \cap {"MXU", "MXU2", "MXU3"})
  <2>1. F \cap {"MXU", "MXU2", "MXU3"} \subseteq G \cap {"MXU", "MXU2", "MXU3"}
    OBVIOUS
  <2> QED BY <2>1, MoreThanOneGrows DEF ConflictingFeatures
<1>4. ~("LOONGASX" \in F /\ F \cap {"LOONGSON2E", "LOONGSON2F"} # {})
  BY DEF ConflictingFeatures
<1>5. ~("FPR32" \in F /\ F \cap {"LOONGSIMD", "LOONGASX"} # {})
  BY DEF ConflictingFeatures
<1>6. /\ ~(Vu \subseteq F)
      /\ ~({"MDMX", "FPR32"} \subseteq F)
      /\ ~({"MDMX", "MSA"} \subseteq F)
  BY DEF ConflictingFeatures
<1> QED BY <1>1, <1>2, <1>3, <1>4, <1>5, <1>6 DEF ConflictingFeatures, Attended

LEMMA PartNotRejected ==
  ASSUME NEW F, NEW G, F \subseteq G, ~Rejected(G), Attended(F)
  PROVE  ~Rejected(F)
BY PartConsistent DEF Rejected

\* The bit FPR32 is neither a processor nor a user of LOONGSON.
LEMMA BitAttends ==
  ASSUME NEW F, NEW B, B \subseteq {"FPR32"}
  PROVE  /\ Attended(F \cup B) <=> Attended(F)
         /\ Processors(F \cup B) = Processors(F)
<1>1. \A x : x # "FPR32" => (x \in F \cup B <=> x \in F)
  OBVIOUS
<1>2. Attended(F \cup B) <=> Attended(F)
  BY <1>1 DEF Attended, LoongsonUsers, Generations
<1>3. ((F \cup B) \cap {"CNMIPS", "CNMIPSP"} # {}) <=> (F \cap {"CNMIPS", "CNMIPSP"} # {})
  BY <1>1
<1>4. ((F \cup B) \cap {"MXU", "MXU2", "MXU3"} # {}) <=> (F \cap {"MXU", "MXU2", "MXU3"} # {})
  BY <1>1
<1>5. Processors(F \cup B) = Processors(F)
  BY <1>1, <1>3, <1>4 DEF Processors
<1> QED BY <1>2, <1>5

LEMMA ConsistentAttended ==
  ASSUME NEW F, ~ConflictingFeatures(F)
  PROVE  Attended(F)
BY DEF ConflictingFeatures, Attended

\* What the checks before the store let through is consistent without the bit.
LEMMA UncheckedBit ==
  ASSUME NEW F, NEW B, B \subseteq {"FPR32"}, ~Rejected(F \cup B)
  PROVE  ~ConflictingFeatures(F)
<1>1. Attended(F)
  BY BitAttends, ConsistentAttended DEF Rejected
<1> QED BY <1>1, PartConsistent DEF Rejected

-----------------------------------------------------------------------------
(* What a context is created with is consistent.                           *)

\* The families of a processor never meet those of another one.
LEMMA NamedConsistent ==
  ASSUME NEW c \in AllCpus, c # "ANY", NEW S, S \subseteq CpuFamilies(c),
         "R5900_VU1" \notin S, Attended(S)
  PROVE  ~ConflictingFeatures(S)
<1> USE DEF ConflictingFeatures, MoreThanOne, Processors, Generations, Vu,
            LoongsonUsers, Attended
<1>1. CASE c \in {"R3000", "4KC", "24KC", "5KC"}
  <2>1. CpuFamilies(c) = {}
    BY <1>1, Zenon DEF CpuFamilies
  <2> QED BY <2>1
<1>2. CASE c \in {"R4000", "24KF", "5KF", "24KEC", "34KC", "1004KC", "34KN",
                 "74KC", "P5600", "P5600_FPU", "P5600_FPU_MSA", "I6400",
                 "I6500", "P6600", "I6400_FPU", "I6500_FPU", "P6600_FPU",
                 "I6400_FPU_MSA", "I6500_FPU_MSA", "P6600_FPU_MSA"}
  <2>1. CpuFamilies(c) \subseteq
          {"FPU", "DSP", "DSPR2", "MT", "VZ", "EVA", "XPA", "MSA"}
    BY <1>2 DEF CpuFamilies
  <2> QED BY <2>1
<1>3. CASE c = "ALLEGREX"
  <2>1. CpuFamilies(c) = {"FPU", "ALLEGREX"}
    BY <1>3, Zenon DEF CpuFamilies
  <2> QED BY <2>1
<1>4. CASE c = "R5900"
  <2>1. CpuFamilies(c) = {"FPU", "R5900", "R5900_VU0", "R5900_VU1"}
    BY <1>4, Zenon DEF CpuFamilies
  <2> QED BY <2>1
<1>5. CASE c \in {"OCTEON", "OCTEONP"}
  <2>1. CpuFamilies(c) \subseteq {"COP2", "CNMIPS", "CNMIPSP"}
    BY <1>5 DEF CpuFamilies
  <2> QED BY <2>1
<1>6. CASE c = "LOONGSON2E"
  <2>1. CpuFamilies(c) = {"FPU", "PAIRED_SINGLE", "LOONGSON", "LOONGSON2E"}
    BY <1>6, Zenon DEF CpuFamilies
  <2> QED BY <2>1
<1>7. CASE c = "LOONGSON2F"
  <2>1. CpuFamilies(c) = {"FPU", "PAIRED_SINGLE", "LOONGSON", "LOONGSON2F"}
    BY <1>7, Zenon DEF CpuFamilies
  <2> QED BY <2>1
<1>8. CASE c \in {"LOONGSON3A3000", "LOONGSON3A4000"}
  <2>1. CpuFamilies(c) \subseteq {"FPU", "MSA", "LOONGSON", "LOONGSIMD", "LOONGASX"}
    BY <1>8 DEF CpuFamilies
  <2> QED BY <2>1
<1>9. CASE c \in {"XLR", "XLS"}
  <2>1. CpuFamilies(c) = {"COP2", "XLR"}
    BY <1>9, Zenon DEF CpuFamilies
  <2> QED BY <2>1
<1>10. CASE c = "XLP"
  <2>1. CpuFamilies(c) = {"FPU", "COP2", "XLP"}
    BY <1>10, Zenon DEF CpuFamilies
  <2> QED BY <2>1
<1> QED
  BY <1>1, <1>2, <1>3, <1>4, <1>5, <1>6, <1>7, <1>8, <1>9, <1>10 DEF AllCpus

\* The generic default holds no family of a single vendor.
LEMMA GenericConsistent ==
  ASSUME NEW S, S \cap (VendorFamilies \cup {"R5900_VU1", "LOONGASX", "FPR32"}) = {}
  PROVE  ~ConflictingFeatures(S)
BY DEF ConflictingFeatures, MoreThanOne, Processors, Generations, Vu,
       LoongsonUsers, VendorFamilies

\* On a Loongson whose families are built whole, the revision keeps the
\* generation wherever it keeps the umbrella.
LEMMA LoongsonAttended ==
  ASSUME WholeLoongsonBuild, NEW c \in AllCpus, c # "ANY", NEW m,
         NEW r, RevisionAccepted(c, m, r),
         "LOONGSON" \in RevisionFamilies(c, m, r)
  PROVE  RevisionFamilies(c, m, r) \cap Generations # {}
<1> DEFINE avail == AvailableFamilies(c, m)
           S == avail \ RevisionWithholds(m, r)
<1>1. m \in CpuModes(c) /\ r \in Revisions /\ m \in Modes /\ r = CpuRevision(c)
  BY DEF RevisionAccepted, RevisionSupportsMode
<1>2. avail = CpuFamilies(c) \cap NativeFamilies \cap BuildFamilies
                             \cap AllowedFamilies(m)
  BY <1>1 DEF AvailableFamilies
<1>3. RevisionFamilies(c, m, r) = S \cap RevisionAdmits(r, S)
  BY DEF RevisionFamilies
<1> HIDE DEF avail, S
<1>4. /\ "LOONGSON" \in CpuFamilies(c) /\ "LOONGSON" \in NativeFamilies
      /\ "LOONGSON" \in BuildFamilies /\ "LOONGSON" \in AllowedFamilies(m)
  BY <1>2, <1>3 DEF S
<1>5. NativeFamilies = Families
  BY <1>4 DEF NativeFamilies
<1>6. m = 64
  BY <1>1, <1>4 DEF AllowedFamilies, Modes
<1>7. Generations \subseteq AllowedFamilies(m)
  BY <1>6 DEF AllowedFamilies, Generations, Families
<1>8. Generations \subseteq NativeFamilies /\ Generations \subseteq BuildFamilies
  BY <1>4, <1>5 DEF WholeLoongsonBuild, Generations, Families
<1>9. c \in {"LOONGSON2E", "LOONGSON2F", "LOONGSON3A3000", "LOONGSON3A4000"}
  BY <1>4 DEF CpuFamilies, AllCpus
<1>10. CASE c = "LOONGSON2E"
  <2>1. r = "III" /\ "LOONGSON2E" \in CpuFamilies(c)
    BY <1>1, <1>10, Zenon DEF CpuRevision, CpuFamilies
  <2>2. "LOONGSON2E" \in S
    BY <1>2, <1>7, <1>8, <2>1 DEF S, RevisionWithholds, Generations, Vu
  <2>3. RevisionAdmits(r, S) =
          {"FPU", "COP2", "PAIRED_SINGLE", "R5900", "LOONGSON", "LOONGSON2E",
           "LOONGSON2F"} \cup Vu
    BY <2>1, Zenon DEF RevisionAdmits, R6
  <2> QED BY <1>3, <2>2, <2>3 DEF Generations
<1>11. CASE c = "LOONGSON2F"
  <2>1. r = "III" /\ "LOONGSON2F" \in CpuFamilies(c)
    BY <1>1, <1>11, Zenon DEF CpuRevision, CpuFamilies
  <2>2. "LOONGSON2F" \in S
    BY <1>2, <1>7, <1>8, <2>1 DEF S, RevisionWithholds, Generations, Vu
  <2>3. RevisionAdmits(r, S) =
          {"FPU", "COP2", "PAIRED_SINGLE", "R5900", "LOONGSON", "LOONGSON2E",
           "LOONGSON2F"} \cup Vu
    BY <2>1, Zenon DEF RevisionAdmits, R6
  <2> QED BY <1>3, <2>2, <2>3 DEF Generations
<1>12. CASE c \in {"LOONGSON3A3000", "LOONGSON3A4000"}
  <2>1. r = "64R2" /\ "LOONGSIMD" \in CpuFamilies(c)
    BY <1>1, <1>12 DEF CpuRevision, CpuFamilies
  <2>2. "LOONGSIMD" \in S
    BY <1>2, <1>7, <1>8, <2>1 DEF S, RevisionWithholds, Generations, Vu
  <2>3. "LOONGSIMD" \in RevisionAdmits(r, S)
    <3>1. RevisionAdmits(r, S) =
            Families \ ({"DSPR3", "COP3", "CRC", "GINV"} \cup
                        IF r = "64R2" /\ "LOONGSIMD" \in S THEN {} ELSE {"MSA"})
      BY <2>1, Zenon DEF RevisionAdmits, R6
    <3> QED BY <3>1 DEF Families
  <2> QED BY <1>3, <2>2, <2>3 DEF Generations
<1> QED BY <1>9, <1>10, <1>11, <1>12

LEMMA AvailableOfCpu ==
  ASSUME NEW c, NEW m, NEW r, NEW e \in Encodings
  PROVE  EncodingFamilies(c, m, r, e) \subseteq CpuFamilies(c)
<1>1. AvailableFamilies(c, m) \subseteq CpuFamilies(c)
  BY DEF AvailableFamilies
<1>2. RevisionFamilies(c, m, r) \subseteq AvailableFamilies(c, m)
  BY DEF RevisionFamilies
<1>3. \/ EncodingFamilies(c, m, r, e) \subseteq AvailableFamilies(c, m)
      \/ EncodingFamilies(c, m, r, e) = RevisionFamilies(c, m, r)
  BY Zenon DEF EncodingFamilies
<1> QED BY <1>1, <1>2, <1>3

LEMMA CreatedConsistent ==
  ASSUME WholeLoongsonBuild, NEW c \in AllCpus, NEW m, NEW r,
         NEW e \in Encodings, RevisionAccepted(c, m, r)
  PROVE  ~ConflictingFeatures(DefaultValue(c, m, r, e))
<1> DEFINE D == DefaultValue(c, m, r, e)
<1>1. CASE e \in VuWords
  <2>1. D \subseteq {"R5900", "R5900_VU0"}
    BY <1>1 DEF DefaultValue
  <2> QED
    BY <2>1 DEF ConflictingFeatures, MoreThanOne, Processors, Generations, Vu,
                LoongsonUsers
<1>2. CASE e \notin VuWords /\ c = "ANY"
  <2>1. D = DefaultFamilies(c, EncodingFamilies(c, m, r, e), r)
    BY <1>2 DEF DefaultValue
  <2>2. "FPR32" \notin EncodingFamilies(c, m, r, e)
    <3>1. EncodingFamilies(c, m, r, e) \subseteq Families
      BY EncodingFamiliesClosed, BuildAssumption
         DEF RevisionAccepted, RevisionSupportsMode
    <3> QED BY <3>1 DEF Families
  <2>3. D \cap (VendorFamilies \cup {"R5900_VU1", "LOONGASX", "FPR32"}) = {}
    BY <1>2, <2>1, <2>2 DEF DefaultFamilies
  <2> QED BY <2>3, GenericConsistent
<1>3. CASE e \notin VuWords /\ c # "ANY"
  <2>1. D = EncodingFamilies(c, m, r, e) \ {"R5900_VU1", "LOONGASX"}
    BY <1>3 DEF DefaultValue, DefaultFamilies
  <2>2. D \subseteq CpuFamilies(c) /\ "R5900_VU1" \notin D
    BY <2>1, AvailableOfCpu
  <2>3. Attended(D)
    <3>1. CASE e = "NANOMIPS"
      <4>1. EncodingFamilies(c, m, r, e) =
              AvailableFamilies(c, m) \cap
                {"FPU", "COP2", "DSP", "DSPR2", "DSPR3", "MT", "EVA", "CRC", "GINV"}
        BY <3>1, Zenon DEF EncodingFamilies, VuWords
      <4> QED BY <2>1, <4>1 DEF Attended
    <3>2. CASE e # "NANOMIPS"
      <4>1. EncodingFamilies(c, m, r, e) = RevisionFamilies(c, m, r)
        BY <1>3, <3>2, Zenon DEF EncodingFamilies, VuWords
      <4>2. "LOONGSON" \in D => D \cap Generations # {}
        BY <1>3, <2>1, <4>1, LoongsonAttended DEF Generations
      <4> QED BY <4>2 DEF Attended, LoongsonUsers
    <3> QED BY <3>1, <3>2
  <2> QED BY <1>3, <2>2, <2>3, NamedConsistent
<1> QED BY <1>1, <1>2, <1>3

-----------------------------------------------------------------------------
(* The policy a context carries.                                           *)

\* A context keeps what its creation has checked.
PolicyInv ==
  /\ policy = NoPolicy => mask = {}
  /\ policy # NoPolicy =>
       /\ RevisionAccepted(policy.cpu, policy.mode, policy.rev)
       /\ mask = EncodingFamilies(policy.cpu, policy.mode, policy.rev, policy.enc)
       /\ IF policy.api = "V1" THEN policy.enc = "STANDARD"
          ELSE Creatable(policy.cpu, policy.mode, policy.rev, policy.enc)

\* No context is one NoGenericCompact excludes.
EncodingInv == policy.cpu = "ANY" => policy.enc \notin {"MIPS16", "MICROMIPS"}

CInv == IInv /\ PolicyInv

LEMMA PolicyOrNone ==
  ASSUME NEW p \in Policies
  PROVE  p # NoPolicy
BY DEF Policies, NoPolicy, AllCpus

LEMMA CInvInitially == Init => CInv
BY InvInitially DEF Init, CInv, PolicyInv

\* Only creation writes the policy and the mask.
LEMMA PolicyFixed ==
  ASSUME [Next]_vars,
         ~\E q \in Requests, m \in Modes :
            CreateContext(q.cpu, m, q.rev, q.enc, q.api)
  PROVE  UNCHANGED <<policy, mask>>
<1>1. CASE UNCHANGED vars
  BY <1>1 DEF vars
<1>2. CASE SetFPR32 \/ Decode \/ LoopStep
  BY <1>2 DEF SetFPR32, Decode, LoopStep, GrowAdd, FinishAdd, PruneRemove,
              FinishRemove
<1>3. ASSUME NEW f \in Asked(policy), BeginAdd(f) \/ BeginRemove(f)
      PROVE  UNCHANGED <<policy, mask>>
  BY <1>3 DEF BeginAdd, BeginRemove
<1> QED BY <1>1, <1>2, <1>3 DEF Next

LEMMA PolicyKept == CInv /\ [Next]_vars => PolicyInv'
<1> SUFFICES ASSUME CInv, [Next]_vars PROVE PolicyInv'
  OBVIOUS
<1>1. ASSUME NEW q \in Requests, NEW m \in Modes,
             CreateContext(q.cpu, m, q.rev, q.enc, q.api)
      PROVE  PolicyInv'
  <2> DEFINE c == q.cpu
             e == q.enc
             a == q.api
             r == IF q.rev = "NONE" THEN CpuRevision(c) ELSE q.rev
  <2>1. c \in AllCpus /\ e \in Encodings /\ a \in Apis
    BY RequestTyped
  <2>2. CASE RevisionAccepted(c, m, r) /\ (a # "V1" => Creatable(c, m, r, e))
    <3>1. /\ policy' = [cpu |-> c, mode |-> m, rev |-> r, enc |-> e, api |-> a]
          /\ mask' = EncodingFamilies(c, m, r, e)
          /\ a = "V1" => e = "STANDARD"
      BY <1>1, <2>2 DEF CreateContext
    <3> HIDE DEF c, e, a, r
    <3>2. policy' # NoPolicy
      BY <2>1, <2>2, <3>1, CreatedPolicy, PolicyOrNone
    <3> QED BY <2>2, <3>1, <3>2 DEF PolicyInv
  <2>3. CASE ~(RevisionAccepted(c, m, r) /\ (a # "V1" => Creatable(c, m, r, e)))
    <3>1. policy' = NoPolicy /\ mask' = {}
      BY <1>1, <2>3 DEF CreateContext
    <3> QED BY <3>1 DEF PolicyInv
  <2> QED BY <2>2, <2>3
<1>2. CASE ~\E q \in Requests, m \in Modes :
              CreateContext(q.cpu, m, q.rev, q.enc, q.api)
  <2>1. UNCHANGED <<policy, mask>>
    BY <1>2, PolicyFixed
  <2> QED BY <2>1 DEF CInv, PolicyInv
<1> QED BY <1>1, <1>2

LEMMA CInvKept == CInv /\ [Next]_vars => CInv'
BY InvKept, PolicyKept DEF CInv

LEMMA EncodingKept ==
  ASSUME NoGenericCompact, EncodingInv, [Next]_vars
  PROVE  EncodingInv'
<1>1. ASSUME NEW q \in Requests, NEW m \in Modes,
             CreateContext(q.cpu, m, q.rev, q.enc, q.api)
      PROVE  EncodingInv'
  <2>1. \/ policy' = NoPolicy
        \/ policy'.cpu = q.cpu /\ policy'.enc = q.enc
    BY <1>1 DEF CreateContext
  <2> QED BY <2>1 DEF EncodingInv, NoPolicy, NoGenericCompact
<1>2. CASE ~\E q \in Requests, m \in Modes :
              CreateContext(q.cpu, m, q.rev, q.enc, q.api)
  BY <1>2, PolicyFixed DEF EncodingInv
<1> QED BY <1>1, <1>2

LEMMA EncodingInitially == Init => EncodingInv
BY DEF Init, EncodingInv, NoPolicy

-----------------------------------------------------------------------------
(* Sound selections.                                                       *)

LEMMA SoundInitially == Init => SelectionSound
BY DEF Init, SelectionSound, Closed, ConflictingFeatures, MoreThanOne,
       Processors, Generations, Vu, LoongsonUsers

LEMMA ConsistentKept ==
  ASSUME WholeLoongsonBuild, ~ConflictingFeatures(value), [Next]_vars
  PROVE  ~ConflictingFeatures(value')
<1>1. ASSUME NEW q \in Requests, NEW m \in Modes,
             CreateContext(q.cpu, m, q.rev, q.enc, q.api)
      PROVE  ~ConflictingFeatures(value')
  <2> DEFINE r == IF q.rev = "NONE" THEN CpuRevision(q.cpu) ELSE q.rev
  <2>1. CASE /\ RevisionAccepted(q.cpu, m, r)
             /\ value' = DefaultValue(q.cpu, m, r, q.enc)
    <3> HIDE DEF r
    <3> QED BY <2>1, RequestTyped, CreatedConsistent
  <2>2. CASE value' = {}
    BY <2>2 DEF ConflictingFeatures, MoreThanOne, Processors, Generations, Vu,
                LoongsonUsers
  <2>3. \/ RevisionAccepted(q.cpu, m, r) /\ value' = DefaultValue(q.cpu, m, r, q.enc)
        \/ value' = {}
    BY <1>1 DEF CreateContext
  <2> QED BY <2>1, <2>2, <2>3
<1>2. ASSUME NEW f \in Asked(policy), BeginAdd(f) \/ BeginRemove(f)
      PROVE  value' = value
  BY <1>2 DEF BeginAdd, BeginRemove
<1>3. CASE SetFPR32 \/ Decode \/ GrowAdd \/ PruneRemove \/ UNCHANGED vars
  BY <1>3 DEF SetFPR32, Decode, GrowAdd, PruneRemove, vars
<1>4. CASE FinishAdd \/ FinishRemove
  <2>1. \/ value' = value
        \/ ~Rejected(value' \cup FprBit(fpr32))
    BY <1>4 DEF FinishAdd, FinishRemove
  <2>2. FprBit(fpr32) \subseteq {"FPR32"}
    BY DEF FprBit
  <2> QED BY <2>1, <2>2, UncheckedBit
<1> QED BY <1>1, <1>2, <1>3, <1>4 DEF Next, LoopStep

(***************************************************************************)
(* However families are added and removed, in every interface version, a   *)
(* context never selects a family the processor, the revision or the       *)
(* encoding withholds, nor one without its parents, nor two generations,   *)
(* processors or VU units at once, nor a LOONGSON nobody uses.  A build    *)
(* that drops one Loongson generation breaks the last part by default      *)
(* selection alone.                                                        *)
(***************************************************************************)
THEOREM SelectionsAreSound ==
  ASSUME WholeLoongsonBuild
  PROVE  Spec => []SelectionSound
<1>1. Init => IInv /\ SelectionSound
  BY InvInitially, SoundInitially
<1>2. IInv /\ SelectionSound /\ [Next]_vars => IInv' /\ SelectionSound'
  <2> SUFFICES ASSUME IInv, SelectionSound, [Next]_vars
               PROVE  IInv' /\ SelectionSound'
    OBVIOUS
  <2>1. IInv'
    BY InvKept
  <2>2. ~ConflictingFeatures(value')
    BY ConsistentKept DEF SelectionSound
  <2>3. SelectionSound'
    BY <2>1, <2>2, ClosedIsParentsIn
       DEF IInv, SelectionInv, SupportedSet, SelectionSound
  <2> QED BY <2>1, <2>3
<1> QED BY <1>1, <1>2, PTL DEF Spec

-----------------------------------------------------------------------------
(* The decoders accept what the context calls build.                       *)

\* An encoding space that refuses the vendor families offers none of them.
LEMMA CompactOffersNoVendor ==
  ASSUME NEW c \in AllCpus, NEW m, NEW r, NEW e \in Compact,
         ~EncodingRefused(c, m, r, e, {}),
         c = "ANY" => e \notin {"MIPS16", "MICROMIPS"}
  PROVE  EncodingFamilies(c, m, r, e) \cap PrivateSpaces = {}
<1>1. e \in Encodings
  BY DEF Encodings
<1>2. CASE c = "ANY"
  <2>1. e = "NANOMIPS"
    BY <1>2 DEF Compact
  <2>2. EncodingFamilies(c, m, r, e) =
          AvailableFamilies(c, m) \cap
            {"FPU", "COP2", "DSP", "DSPR2", "DSPR3", "MT", "EVA", "CRC", "GINV"}
    BY <2>1, Zenon DEF EncodingFamilies, VuWords
  <2> QED BY <2>2 DEF PrivateSpaces
<1>3. CASE c # "ANY"
  <2>1. CpuFamilies(c) \cap PrivateSpaces = {}
    BY <1>3 DEF EncodingRefused
  <2> QED BY <1>1, <2>1, AvailableOfCpu
<1> QED BY <1>2, <1>3

\* The families whose registers the paired R5900 layout contradicts are not
\* offered where R5900 is.
LEMMA R5900Alone ==
  ASSUME NEW c \in AllCpus, NEW m, NEW r, NEW e \in Encodings,
         RevisionAccepted(c, m, r),
         NEW S, S \subseteq EncodingFamilies(c, m, r, e),
         PolicyBits(c, S) # {}
  PROVE  S \cap {"MSA", "MDMX", "LOONGSIMD", "LOONGASX"} = {}
<1>1. CASE c = "R5900"
  <2>1. CpuFamilies(c) = {"FPU", "R5900", "R5900_VU0", "R5900_VU1"}
    BY <1>1, Zenon DEF CpuFamilies
  <2> QED BY <2>1, AvailableOfCpu
<1>2. CASE c # "R5900"
  <2>1. "R5900" \in S
    <3>1. c # "ANY" => "R5900" \notin CpuFamilies(c)
      BY <1>2 DEF CpuFamilies, AllCpus
    <3> QED BY <3>1 DEF PolicyBits
  <2>2. CASE e \in VuWords
    <3>1. EncodingFamilies(c, m, r, e) \subseteq {"R5900"} \cup Vu
      BY <2>2, Zenon DEF EncodingFamilies, VuWords
    <3> QED BY <3>1 DEF Vu
  <2>3. CASE e = "NANOMIPS"
    <3>1. EncodingFamilies(c, m, r, e) =
            AvailableFamilies(c, m) \cap
              {"FPU", "COP2", "DSP", "DSPR2", "DSPR3", "MT", "EVA", "CRC", "GINV"}
      BY <2>3, Zenon DEF EncodingFamilies, VuWords
    <3> QED BY <2>1, <3>1
  <2>4. CASE e \notin VuWords /\ e # "NANOMIPS"
    <3> DEFINE A == AvailableFamilies(c, m) \ RevisionWithholds(m, r)
    <3>1. EncodingFamilies(c, m, r, e) = RevisionFamilies(c, m, r)
      BY <2>4, Zenon DEF EncodingFamilies, VuWords
    <3>2. RevisionFamilies(c, m, r) = A \cap RevisionAdmits(r, A)
      BY DEF RevisionFamilies
    <3>3. r = "III"
      BY <2>1, <3>1, <3>2 DEF RevisionWithholds
    <3> HIDE DEF A
    <3>4. RevisionAdmits(r, A) =
            {"FPU", "COP2", "PAIRED_SINGLE", "R5900", "LOONGSON",
             "LOONGSON2E", "LOONGSON2F"} \cup Vu
      BY <3>3, Zenon DEF RevisionAdmits, R6
    <3> QED BY <3>1, <3>2, <3>4 DEF Vu
  <2> QED BY <2>2, <2>3, <2>4
<1> QED BY <1>1, <1>2

\* So the layout adds no contradiction to a consistent selection.
LEMMA LayoutHarmless ==
  ASSUME NEW F, ~Rejected(F),
         F \cap {"MSA", "MDMX", "LOONGSIMD", "LOONGASX"} = {}
  PROVE  ~Rejected(F \cup {"FPR32"})
<1> DEFINE G == F \cup {"FPR32"}
<1>1. \A x : x # "FPR32" => (x \in G <=> x \in F)
  OBVIOUS
<1>2. Processors(G) = Processors(F)
  BY BitAttends
<1>3. /\ G \cap Generations = F \cap Generations
      /\ G \cap {"MXU", "MXU2", "MXU3"} = F \cap {"MXU", "MXU2", "MXU3"}
      /\ G \cap {"LOONGSON2E", "LOONGSON2F"} = F \cap {"LOONGSON2E", "LOONGSON2F"}
      /\ G \cap LoongsonUsers = F \cap LoongsonUsers
      /\ Vu \subseteq G <=> Vu \subseteq F
  BY <1>1 DEF Generations, LoongsonUsers, Vu
<1>4. G \cap {"MSA", "MDMX", "LOONGSIMD", "LOONGASX"} = {}
  BY <1>1
<1> HIDE DEF G
<1>5. ~ConflictingFeatures(G)
  BY <1>1, <1>2, <1>3, <1>4 DEF Rejected, ConflictingFeatures
<1> QED BY <1>4, <1>5 DEF Rejected, G

\* A consistent selection in a context as its creation has left it.
Decodable ==
  /\ TypeOK /\ SelectionInv /\ PolicyInv /\ EncodingInv
  /\ policy # NoPolicy
  /\ ~Rejected(value \cup FprBit(fpr32))
  /\ fpr32 => policy.rev \notin R6

LEMMA DecodableIsAccepted == Decodable => Accepted
<1> SUFFICES ASSUME Decodable PROVE Accepted
  OBVIOUS
<1> USE DEF Decodable
<1> DEFINE c == policy.cpu
           m == policy.mode
           r == policy.rev
           e == policy.enc
<1>1. /\ c \in AllCpus /\ m \in Modes /\ r \in Revisions /\ e \in Encodings
      /\ policy.api \in Apis
  BY DEF TypeOK, Policies
<1>2. /\ RevisionAccepted(c, m, r)
      /\ mask = EncodingFamilies(c, m, r, e)
      /\ IF policy.api = "V1" THEN e = "STANDARD" ELSE Creatable(c, m, r, e)
  BY DEF PolicyInv
<1>3. c = "ANY" => e \notin {"MIPS16", "MICROMIPS"}
  BY DEF EncodingInv
<1>4. value \subseteq mask /\ ParentsIn(value)
  BY DEF SelectionInv, SupportedSet
<1>5. mask \subseteq BuildFamilies
  BY <1>1, <1>2, EncodingFamiliesClosed
<1> HIDE DEF c, m, r, e
<1>6. ~EncodingRefused(c, m, r, e, {})
  <2>1. CASE policy.api = "V1"
    BY <1>2, <2>1 DEF EncodingRefused, VuWords, Compact
  <2>2. CASE policy.api # "V1"
    BY <1>2, <2>2 DEF Creatable, EmptyInputStatus
  <2> QED BY <2>1, <2>2
<1>7. ~EncodingRefused(c, m, r, e, value)
  <2>1. e \in Compact => value \cap PrivateSpaces = {}
    BY <1>1, <1>2, <1>3, <1>4, <1>6, CompactOffersNoVendor
  <2> QED BY <1>6, <2>1 DEF EncodingRefused
<1>8. EffectiveFamilies(c, m, r, e, value, TRUE) = value
  BY <1>2, <1>4 DEF EffectiveFamilies
<1>9. ~RequestRefused(e, value \cup FprBit(fpr32))
  BY DEF RequestRefused, Rejected
<1>10. ~Rejected(value \cup FprBit(fpr32) \cup PolicyBits(c, value))
  <2>1. CASE PolicyBits(c, value) = {}
    <3>1. value \cup FprBit(fpr32) \cup PolicyBits(c, value) = value \cup FprBit(fpr32)
      BY <2>1
    <3> QED BY <3>1
  <2>2. CASE PolicyBits(c, value) # {}
    <3>1. value \cap {"MSA", "MDMX", "LOONGSIMD", "LOONGASX"} = {}
      BY <1>1, <1>2, <1>4, <2>2, R5900Alone
    <3>2. (value \cup FprBit(fpr32)) \cap {"MSA", "MDMX", "LOONGSIMD", "LOONGASX"} = {}
      BY <3>1 DEF FprBit
    <3>3. PolicyBits(c, value) = {"FPR32"}
      BY <2>2 DEF PolicyBits
    <3> QED BY <3>2, <3>3, LayoutHarmless
  <2> QED BY <2>1, <2>2
<1>11. EmptyInputStatus(c, m, r, e, value, TRUE, fpr32) = "END_OF_INPUT"
  <2>1. Closed(value)
    BY <1>4, ClosedIsParentsIn
  <2>2. value \subseteq BuildFamilies
    BY <1>4, <1>5
  <2>3. ~(fpr32 /\ r \in R6)
    BY DEF r
  <2> QED BY <1>2, <1>7, <1>8, <1>9, <1>10, <2>1, <2>2, <2>3 DEF EmptyInputStatus
<1>12. ContextStatus = "END_OF_INPUT"
  BY <1>2, <1>4, <1>11 DEF ContextStatus, c, m, r, e
<1>13. policy.api = "V3" => V3Accepts
  BY <1>2, <1>12 DEF V3Accepts, c, m, r, e
<1> QED BY <1>12, <1>13 DEF Accepted, DecodeStatus

LEMMA DecodableIsAcceptedNext == (Decodable => Accepted)'
<1> QED BY DecodableIsAccepted, PTL

LEMMA BitlessNotRejected ==
  ASSUME NEW S \in SUBSET Families, ~ConflictingFeatures(S)
  PROVE  ~Rejected(S \cup FprBit(FALSE))
<1>1. "FPR32" \notin S
  BY DEF Families
<1>2. S \cup FprBit(FALSE) = S
  BY DEF FprBit
<1> QED BY <1>1, <1>2 DEF Rejected

(***************************************************************************)
(* What the context calls build, the argument checks of the decoders       *)
(* accept: two pieces of code over separate tables agree for every         *)
(* processor, revision, encoding and interface version.  Both assumptions  *)
(* are needed, a partial Loongson build and a generic context in a compact *)
(* encoding each reach a context that no longer decodes.                   *)
(***************************************************************************)
THEOREM ContextsDecode ==
  ASSUME WholeLoongsonBuild, NoGenericCompact
  PROVE  Spec => []ContextDecodes
<1> DEFINE Inv == CInv /\ EncodingInv /\ ~ConflictingFeatures(value)
<1>1. Init => Inv
  BY CInvInitially, EncodingInitially, SoundInitially DEF SelectionSound
<1>2. Inv /\ [Next]_vars => Inv'
  BY CInvKept, EncodingKept, ConsistentKept
<1>3. Inv => ContextDecodes
  <2> SUFFICES ASSUME Inv, policy # NoPolicy, fpr32 = FALSE PROVE Accepted
    BY DEF ContextDecodes, CInv, IInv, TypeOK
  <2>1. TypeOK /\ SelectionInv /\ PolicyInv
    BY DEF CInv, IInv
  <2>2. ~Rejected(value \cup FprBit(fpr32))
    BY <2>1, BitlessNotRejected DEF TypeOK
  <2> QED BY <2>1, <2>2, DecodableIsAccepted DEF Decodable
<1> QED BY <1>1, <1>2, <1>3, PTL DEF Spec

-----------------------------------------------------------------------------
(* Calls on a context that decodes.                                        *)

LEMMA AcceptedMeans ==
  ASSUME SelectionInv, Accepted
  PROVE  /\ policy # NoPolicy
         /\ fpr32 => policy.rev \notin R6
         /\ ~Rejected(value \cup FprBit(fpr32))
<1> DEFINE c == policy.cpu
           bits == PolicyBits(c, value)
<1>1. ContextStatus = "END_OF_INPUT"
  BY DEF Accepted, DecodeStatus
<1>2. /\ policy # NoPolicy
      /\ mask = EncodingFamilies(c, policy.mode, policy.rev, policy.enc)
      /\ EmptyInputStatus(c, policy.mode, policy.rev, policy.enc, value, TRUE, fpr32)
           = "END_OF_INPUT"
  BY <1>1 DEF ContextStatus
<1>3. EffectiveFamilies(c, policy.mode, policy.rev, policy.enc, value, TRUE) = value
  BY <1>2 DEF EffectiveFamilies, SelectionInv
<1>4. /\ ~(fpr32 /\ policy.rev \in R6)
      /\ ~RequestRefused(policy.enc, value \cup FprBit(fpr32))
      /\ ~Rejected(value \cup FprBit(fpr32) \cup bits)
  BY <1>2, <1>3 DEF EmptyInputStatus
<1>5. Attended(value \cup FprBit(fpr32))
  BY <1>4, ConsistentAttended DEF RequestRefused, Rejected
<1>6. ~Rejected(value \cup FprBit(fpr32))
  BY <1>4, <1>5, PartNotRejected
<1> QED BY <1>2, <1>4, <1>6

\* Only the two Finish steps end a call.
LEMMA EndsAtFinish ==
  ASSUME TypeOK, [Next]_vars, call # Idle, call' = Idle
  PROVE  FinishAdd \/ FinishRemove
<1>1. ~GrowAdd
  <2> SUFFICES ASSUME GrowAdd PROVE FALSE
    OBVIOUS
  <2>1. call.op = "add" /\ call'.op = call.op
    BY DEF GrowAdd, TypeOK
  <2> QED BY <2>1 DEF Idle
<1>2. ~PruneRemove
  <2> SUFFICES ASSUME PruneRemove PROVE FALSE
    OBVIOUS
  <2>1. call.op = "remove" /\ call'.op = call.op
    BY DEF PruneRemove, TypeOK
  <2> QED BY <2>1 DEF Idle
<1> QED
  BY <1>1, <1>2
     DEF Next, LoopStep, CreateContext, SetFPR32, Decode, BeginAdd, BeginRemove, vars

\* What the removal loop leaves of an accepted selection is accepted.
LEMMA PrunedNotRejected ==
  ASSUME IInv, Accepted, FinishRemove
  PROVE  ~Rejected(call.selected \cup FprBit(fpr32))
<1>1. /\ call.op = "remove"
      /\ StandingSet(call.selected, policy.rev)
  BY NothingDroppable DEF FinishRemove
<1>2. call.selected \subseteq value
  BY <1>1 DEF IInv, RemoveLoopInv
<1>3. ~Rejected(value \cup FprBit(fpr32))
  BY AcceptedMeans DEF IInv
<1>4. Attended(call.selected \cup FprBit(fpr32))
  <2>1. Attended(call.selected) /\ FprBit(fpr32) \subseteq {"FPR32"}
    BY <1>1 DEF StandingSet, Attended, FprBit
  <2> QED BY <2>1, BitAttends
<1>5. call.selected \cup FprBit(fpr32) \subseteq value \cup FprBit(fpr32)
  BY <1>2
<1> QED BY <1>3, <1>4, <1>5, PartNotRejected

(***************************************************************************)
(* A removal begun on a context that decodes is never refused, in any      *)
(* build: what remove_family leaves after its loop is never contradictory. *)
(***************************************************************************)
THEOREM RemovalsSucceed == Spec => RemovalSucceeds
<1>1. IInv /\ [Next]_vars =>
        [call.op = "remove" /\ call' = Idle /\ Accepted => ret' = "done"]_vars
  <2> SUFFICES ASSUME IInv, [Next]_vars, call.op = "remove", call' = Idle, Accepted
               PROVE  ret' = "done"
    OBVIOUS
  <2>1. FinishRemove
    <3>1. call # Idle
      BY DEF Idle
    <3> QED BY <3>1, EndsAtFinish DEF IInv, FinishAdd
  <2> QED BY <2>1, PrunedNotRejected DEF FinishRemove, Return
<1> QED BY <1>1, InvAlways, PTL DEF Spec, RemovalSucceeds

(***************************************************************************)
(* No add and no remove turns a context that decodes, FPR32 included, into *)
(* one that does not, as long as no context pairs the generic processor    *)
(* with MIPS16 or microMIPS: the checks before the store of add_family     *)
(* and remove_family are as strict as those of the decoders.               *)
(***************************************************************************)
THEOREM CallsKeepAcceptance ==
  ASSUME NoGenericCompact
  PROVE  Spec => AcceptedStaysAccepted
<1> DEFINE Inv == CInv /\ EncodingInv
<1>1. Init => Inv
  BY CInvInitially, EncodingInitially
<1>2. Inv /\ [Next]_vars => Inv'
  BY CInvKept, EncodingKept
<1>3. Inv /\ [Next]_vars =>
        [call # Idle /\ call' = Idle /\ Accepted => Accepted']_vars
  <2> SUFFICES ASSUME Inv, [Next]_vars, call # Idle, call' = Idle, Accepted
               PROVE  Accepted'
    OBVIOUS
  <2>1. Inv'
    BY <1>2
  <2>2. FinishAdd \/ FinishRemove
    BY EndsAtFinish DEF CInv, IInv
  <2>3. UNCHANGED <<policy, mask, fpr32>>
    BY <2>2 DEF FinishAdd, FinishRemove
  <2>4. /\ policy # NoPolicy
        /\ fpr32 => policy.rev \notin R6
        /\ ~Rejected(value \cup FprBit(fpr32))
    BY AcceptedMeans DEF CInv, IInv
  <2>5. ~Rejected(value' \cup FprBit(fpr32))
    <3>1. CASE FinishAdd
      BY <2>4, <3>1 DEF FinishAdd
    <3>2. CASE FinishRemove
      BY <2>4, <3>2, PrunedNotRejected DEF FinishRemove, CInv
    <3> QED BY <2>2, <3>1, <3>2
  <2>6. Decodable'
    BY <2>1, <2>3, <2>4, <2>5 DEF CInv, IInv, Decodable
  <2> QED BY <2>6, DecodableIsAcceptedNext
<1> QED BY <1>1, <1>2, <1>3, PTL DEF Spec, AcceptedStaysAccepted

=============================================================================
