------------------------- MODULE MipsContextProofs -------------------------
(***************************************************************************)
(* Theorems about MipsContext, for every set of processors, encodings and  *)
(* interface versions and for every build.                                 *)
(***************************************************************************)
EXTENDS MipsContext, TLAPS

-----------------------------------------------------------------------------
(* The family tables: what they offer is a set of families, closed under   *)
(* parents.                                                                *)

(***************************************************************************)
(* Closed, spelled out: the rows of the descriptor table whose             *)
(* required_flags name another family.                                     *)
(***************************************************************************)
ParentsIn(S) ==
  /\ "DSPR2" \in S => "DSP" \in S
  /\ "DSP64" \in S => "DSP" \in S
  /\ "DSPR3" \in S => "DSP" \in S /\ "DSPR2" \in S
  /\ "MSA" \in S => "FPU" \in S
  /\ "MIPS3D" \in S => "FPU" \in S
  /\ "MDMX" \in S => "FPU" \in S
  /\ "PAIRED_SINGLE" \in S => "FPU" \in S
  /\ "CNMIPSP" \in S => "CNMIPS" \in S
  /\ "LOONGSON2E" \in S => "LOONGSON" \in S
  /\ "LOONGSON2F" \in S => "LOONGSON" \in S
  /\ "LOONGSON_EXT" \in S => "LOONGSON" \in S
  /\ "LOONGSON_CAM" \in S => "LOONGSON" \in S
  /\ "LOONGSON_EXT2" \in S => "LOONGSON" \in S /\ "LOONGSON_EXT" \in S
  /\ "LOONGSIMD" \in S => "FPU" \in S /\ "LOONGSON" \in S
  /\ "LOONGASX" \in S => "FPU" \in S /\ "LOONGSON" \in S
  /\ "R5900_VU0" \in S => "R5900" \in S
  /\ "R5900_VU1" \in S => "R5900" \in S
  /\ "MXU3_1" \in S => "MXU3" \in S

\* A family requires only families of the table, itself among them.
LEMMA RequiredFamilies ==
  ASSUME NEW f \in Families
  PROVE  Required(f) \subseteq Families /\ f \in Required(f)
BY DEF Required, Families

\* The descriptor rows and the closure test say the same.
LEMMA ClosedIsParentsIn ==
  ASSUME NEW S
  PROVE  Closed(S) <=> ParentsIn(S)
<1>1. ASSUME Closed(S) PROVE ParentsIn(S)
  BY <1>1 DEF Closed, Required, ParentsIn
<1>2. ASSUME ParentsIn(S), NEW f \in S PROVE Required(f) \subseteq S
  BY <1>2 DEF Required, ParentsIn
<1> QED BY <1>1, <1>2 DEF Closed

\* Families that every closed source offers together are offered closed.
LEMMA ClosedIntersection ==
  ASSUME NEW S, NEW T, Closed(S), Closed(T)
  PROVE  Closed(S \cap T)
BY DEF Closed

LEMMA ClosedUnion ==
  ASSUME NEW S, NEW T, Closed(S), Closed(T)
  PROVE  Closed(S \cup T)
BY DEF Closed

(***************************************************************************)
(* Every table the availability computation intersects is closed.          *)
(***************************************************************************)

LEMMA CpuFamiliesClosed ==
  ASSUME NEW c \in AllCpus
  PROVE  ParentsIn(CpuFamilies(c))
<1>1. CASE c = "ANY"
  BY <1>1, ZenonT(60) DEF CpuFamilies, ParentsIn, Families
<1>2. CASE c \in {"R3000", "4KC", "24KC", "5KC"}
  BY <1>2, ZenonT(60) DEF CpuFamilies, ParentsIn
<1>3. CASE c \in {"R4000", "24KF", "5KF"}
  BY <1>3, Zenon DEF CpuFamilies, ParentsIn
<1>4. CASE c = "24KEC"
  BY <1>4, Zenon DEF CpuFamilies, ParentsIn
<1>5. CASE c \in {"34KC", "1004KC"}
  BY <1>5, Zenon DEF CpuFamilies, ParentsIn
<1>6. CASE c = "34KN"
  BY <1>6, Zenon DEF CpuFamilies, ParentsIn
<1>7. CASE c = "74KC"
  BY <1>7, Zenon DEF CpuFamilies, ParentsIn
<1>8. CASE c = "P5600"
  BY <1>8, Zenon DEF CpuFamilies, ParentsIn
<1>9. CASE c = "P5600_FPU"
  BY <1>9, Zenon DEF CpuFamilies, ParentsIn
<1>10. CASE c = "P5600_FPU_MSA"
  BY <1>10, Zenon DEF CpuFamilies, ParentsIn
<1>11. CASE c \in {"I6400", "I6500", "P6600"}
  BY <1>11, Zenon DEF CpuFamilies, ParentsIn
<1>12. CASE c \in {"I6400_FPU", "I6500_FPU", "P6600_FPU"}
  BY <1>12, Zenon DEF CpuFamilies, ParentsIn
<1>13. CASE c \in {"I6400_FPU_MSA", "I6500_FPU_MSA", "P6600_FPU_MSA"}
  BY <1>13, ZenonT(60) DEF CpuFamilies, ParentsIn
<1>14. CASE c = "ALLEGREX"
  BY <1>14, Zenon DEF CpuFamilies, ParentsIn
<1>15. CASE c = "R5900"
  BY <1>15, Zenon DEF CpuFamilies, ParentsIn
<1>16. CASE c = "OCTEON"
  BY <1>16, Zenon DEF CpuFamilies, ParentsIn
<1>17. CASE c = "OCTEONP"
  BY <1>17, Zenon DEF CpuFamilies, ParentsIn
<1>18. CASE c = "LOONGSON2E"
  BY <1>18, Zenon DEF CpuFamilies, ParentsIn
<1>19. CASE c = "LOONGSON2F"
  BY <1>19, Zenon DEF CpuFamilies, ParentsIn
<1>20. CASE c = "LOONGSON3A3000"
  BY <1>20, Zenon DEF CpuFamilies, ParentsIn
<1>21. CASE c = "LOONGSON3A4000"
  BY <1>21, Zenon DEF CpuFamilies, ParentsIn
<1>22. CASE c \in {"XLR", "XLS"}
  BY <1>22, Zenon DEF CpuFamilies, ParentsIn
<1>23. CASE c = "XLP"
  BY <1>23, Zenon DEF CpuFamilies, ParentsIn
<1> QED
  BY <1>1, <1>2, <1>3, <1>4, <1>5, <1>6, <1>7, <1>8, <1>9, <1>10, <1>11, <1>12, <1>13, <1>14, <1>15, <1>16, <1>17, <1>18, <1>19, <1>20, <1>21, <1>22, <1>23 DEF AllCpus

LEMMA NativeFamiliesClosed == ParentsIn(NativeFamilies)
BY DEF NativeFamilies, ParentsIn, Families

LEMMA AllowedFamiliesClosed ==
  ASSUME NEW m \in Modes
  PROVE  ParentsIn(AllowedFamilies(m))
BY DEF AllowedFamilies, ParentsIn, Families, Modes

LEMMA ParentsInIntersection ==
  ASSUME NEW S, NEW T, ParentsIn(S), ParentsIn(T)
  PROVE  ParentsIn(S \cap T)
BY DEF ParentsIn

LEMMA AvailableFamiliesClosed ==
  ASSUME NEW c \in AllCpus, NEW m \in Modes
  PROVE  /\ ParentsIn(AvailableFamilies(c, m))
         /\ AvailableFamilies(c, m) \subseteq BuildFamilies
<1>1. ParentsIn(BuildFamilies)
  BY BuildAssumption, ClosedIsParentsIn
<1>2. ParentsIn(CpuFamilies(c) \cap NativeFamilies)
  BY CpuFamiliesClosed, NativeFamiliesClosed, ParentsInIntersection
<1>3. ParentsIn(CpuFamilies(c) \cap NativeFamilies \cap BuildFamilies)
  BY <1>1, <1>2, ParentsInIntersection
<1>4. ParentsIn(CpuFamilies(c) \cap NativeFamilies \cap BuildFamilies
                               \cap AllowedFamilies(m))
  BY <1>3, AllowedFamiliesClosed, ParentsInIntersection
<1>5. ParentsIn({})
  BY DEF ParentsIn
<1> QED BY <1>4, <1>5 DEF AvailableFamilies

(***************************************************************************)
(* What a revision keeps is closed, and on 64R2 it keeps MSA only together *)
(* with the families of the 3A4000 slice.                                  *)
(***************************************************************************)

SupportedSet(S, r) ==
  /\ ParentsIn(S)
  /\ r = "64R2" /\ "MSA" \in S => "LOONGSIMD" \in S

LEMMA WithholdsWhole ==
  ASSUME NEW S, ParentsIn(S), NEW m \in Modes, NEW r \in Revisions
  PROVE  /\ ParentsIn(S \ RevisionWithholds(m, r))
         /\ r # "64R2" => "LOONGASX" \notin S \ RevisionWithholds(m, r)
BY DEF RevisionWithholds, ParentsIn, Vu

LEMMA RevisionFamiliesClosed ==
  ASSUME NEW c \in AllCpus, NEW m \in Modes, NEW r \in Revisions
  PROVE  /\ SupportedSet(RevisionFamilies(c, m, r), r)
         /\ RevisionFamilies(c, m, r) \subseteq BuildFamilies
<1> DEFINE S == AvailableFamilies(c, m) \ RevisionWithholds(m, r)
<1>1. ParentsIn(S) /\ (r # "64R2" => "LOONGASX" \notin S)
  BY AvailableFamiliesClosed, WithholdsWhole
<1>2. S \subseteq BuildFamilies /\ S \subseteq Families
  BY AvailableFamiliesClosed, BuildAssumption
<1>3. RevisionFamilies(c, m, r) = S \cap RevisionAdmits(r, S)
  BY DEF RevisionFamilies
<1> HIDE DEF S
<1>4. SupportedSet(S \cap RevisionAdmits(r, S), r)
  <2>1. CASE r \in {"I", "II"}
    <3>1. RevisionAdmits(r, S) = {"FPU", "COP2", "COP3"}
      BY <2>1, Zenon DEF RevisionAdmits, R6
    <3> QED BY <1>1, <2>1, <3>1 DEF SupportedSet, ParentsIn
  <2>2. CASE r = "III"
    <3>1. RevisionAdmits(r, S) =
            {"FPU", "COP2", "PAIRED_SINGLE", "R5900", "LOONGSON",
             "LOONGSON2E", "LOONGSON2F"} \cup Vu
      BY <2>2, Zenon DEF RevisionAdmits, R6
    <3> QED BY <1>1, <2>2, <3>1 DEF SupportedSet, ParentsIn, Vu
  <2>3. CASE r = "IV"
    <3>1. RevisionAdmits(r, S) = {"FPU", "COP2"}
      BY <2>3, Zenon DEF RevisionAdmits, R6
    <3> QED BY <1>1, <2>3, <3>1 DEF SupportedSet, ParentsIn
  <2>4. CASE r = "V"
    <3>1. RevisionAdmits(r, S) = {"FPU", "COP2", "PAIRED_SINGLE"}
      BY <2>4, Zenon DEF RevisionAdmits, R6
    <3> QED BY <1>1, <2>4, <3>1 DEF SupportedSet, ParentsIn
  <2>5. CASE r = "32R1"
    <3>1. RevisionAdmits(r, S) =
            {"FPU", "COP2", "SMARTMIPS", "ALLEGREX", "MXU", "MIPS16E2",
             "MXU2", "MXU3", "MXU3_1"}
      BY <2>5, Zenon DEF RevisionAdmits, R6
    <3> QED BY <1>1, <2>5, <3>1 DEF SupportedSet, ParentsIn
  <2>6. CASE r = "64R1"
    <3>1. RevisionAdmits(r, S) =
            {"FPU", "COP2", "PAIRED_SINGLE", "MIPS3D", "MDMX", "MIPS16E2",
             "XLR"}
      BY <2>6, Zenon DEF RevisionAdmits, R6
    <3> QED BY <1>1, <2>6, <3>1 DEF SupportedSet, ParentsIn
  <2>7. CASE r \in {"32R2", "32R3", "64R2", "64R3"}
    <3>1. RevisionAdmits(r, S) =
            Families \ ({"DSPR3", "COP3", "CRC", "GINV"} \cup
                        IF r = "64R2" /\ "LOONGSIMD" \in S THEN {}
                                                           ELSE {"MSA"})
      BY <2>7, Zenon DEF RevisionAdmits, R6
    <3> QED BY <1>1, <1>2, <2>7, <3>1 DEF SupportedSet, ParentsIn, Families
  <2>8. CASE r \in {"32R5", "64R5"}
    <3>1. RevisionAdmits(r, S) = Families \ {"DSPR3", "COP3"}
      BY <2>8, Zenon DEF RevisionAdmits, R6
    <3> QED BY <1>1, <1>2, <2>8, <3>1 DEF SupportedSet, ParentsIn, Families
  <2>9. CASE r \in R6
    <3>1. RevisionAdmits(r, S) =
            Families \ {"MIPS3D", "PAIRED_SINGLE", "COP3", "MT", "MDMX",
                        "SMARTMIPS", "CNMIPS", "CNMIPSP", "MXU", "MCU",
                        "DSP64", "MIPS16E2", "LOONGSON", "LOONGSON2E",
                        "LOONGSON2F", "LOONGSON_EXT", "LOONGSON_EXT2",
                        "LOONGSON_CAM", "MXU2", "MXU3", "MXU3_1",
                        "LOONGSIMD"}
      BY <2>9, Zenon DEF RevisionAdmits, R6
    <3> QED BY <1>1, <1>2, <2>9, <3>1 DEF SupportedSet, ParentsIn, Families, R6
  <2> QED
    BY <2>1, <2>2, <2>3, <2>4, <2>5, <2>6, <2>7, <2>8, <2>9 DEF Revisions, R6
<1> QED BY <1>2, <1>3, <1>4

LEMMA EncodingFamiliesClosed ==
  ASSUME NEW c \in AllCpus, NEW m \in Modes, NEW r \in Revisions,
         NEW e \in Encodings
  PROVE  /\ SupportedSet(EncodingFamilies(c, m, r, e), r)
         /\ EncodingFamilies(c, m, r, e) \subseteq BuildFamilies
<1>1. /\ ParentsIn(AvailableFamilies(c, m))
      /\ AvailableFamilies(c, m) \subseteq BuildFamilies
  BY AvailableFamiliesClosed
<1>2. CASE e \in VuWords
  <2>1. EncodingFamilies(c, m, r, e) =
          AvailableFamilies(c, m) \cap ({"R5900"} \cup Vu)
    BY <1>2, Zenon DEF EncodingFamilies, VuWords
  <2> QED BY <1>1, <2>1 DEF SupportedSet, ParentsIn, Vu
<1>3. CASE e = "NANOMIPS"
  <2>1. EncodingFamilies(c, m, r, e) =
          AvailableFamilies(c, m) \cap
            {"FPU", "COP2", "DSP", "DSPR2", "DSPR3", "MT", "EVA", "CRC", "GINV"}
    BY <1>3, Zenon DEF EncodingFamilies, VuWords
  <2> QED BY <1>1, <2>1 DEF SupportedSet, ParentsIn
<1>4. CASE e \notin VuWords /\ e # "NANOMIPS"
  <2>1. EncodingFamilies(c, m, r, e) = RevisionFamilies(c, m, r)
    BY <1>4, Zenon DEF EncodingFamilies, VuWords
  <2> QED BY <2>1, RevisionFamiliesClosed
<1> QED BY <1>2, <1>3, <1>4

\* The defaults drop families only together with their children.
LEMMA DefaultFamiliesClosed ==
  ASSUME NEW c, NEW r, NEW S, SupportedSet(S, r)
  PROVE  /\ SupportedSet(DefaultFamilies(c, S, r), r)
         /\ DefaultFamilies(c, S, r) \subseteq S
<1>1. CASE c = "ANY"
  BY <1>1 DEF DefaultFamilies, VendorFamilies, SupportedSet, ParentsIn
<1>2. CASE c # "ANY"
  BY <1>2 DEF DefaultFamilies, SupportedSet, ParentsIn
<1> QED BY <1>1, <1>2

-----------------------------------------------------------------------------
(* The contexts.                                                           *)

LEMMA RequestTyped ==
  ASSUME NEW q \in Requests
  PROVE  q.cpu \in AllCpus /\ q.rev \in RevisionArgs /\ q.enc \in Encodings /\ q.api \in Apis
BY ContextAssumption

LEMMA AskedTyped ==
  ASSUME policy \in Policies \cup {NoPolicy}
  PROVE  Asked(policy) \subseteq Families
BY ContextAssumption

LEMMA DefaultValueSupported ==
  ASSUME NEW c \in AllCpus, NEW m \in Modes, NEW r \in Revisions,
         NEW e \in Encodings
  PROVE  /\ DefaultValue(c, m, r, e) \subseteq EncodingFamilies(c, m, r, e)
         /\ EncodingFamilies(c, m, r, e) \subseteq Families
         /\ SupportedSet(DefaultValue(c, m, r, e), r)
<1>1. /\ SupportedSet(EncodingFamilies(c, m, r, e), r)
      /\ EncodingFamilies(c, m, r, e) \subseteq Families
  BY EncodingFamiliesClosed, BuildAssumption
<1>2. CASE e \in VuWords
  BY <1>1, <1>2 DEF DefaultValue, SupportedSet, ParentsIn
<1>3. CASE e \notin VuWords
  BY <1>1, <1>3, DefaultFamiliesClosed DEF DefaultValue
<1> QED BY <1>1, <1>2, <1>3

\* What CreateContext stores, common to the proofs below.
LEMMA CreatedPolicy ==
  ASSUME NEW c \in AllCpus, NEW m \in Modes, NEW r, NEW e \in Encodings,
         NEW a \in Apis, RevisionAccepted(c, m, r)
  PROVE  /\ r \in Revisions
         /\ c \in AllCpus
         /\ e \in Encodings
         /\ [cpu |-> c, mode |-> m, rev |-> r, enc |-> e, api |-> a] \in Policies
BY ContextAssumption DEF RevisionAccepted, RevisionSupportsMode, Policies

-----------------------------------------------------------------------------
(* Types.                                                                  *)

LEMMA TypeInitially == Init => TypeOK
<1>1. Idle \in [op : {"idle", "add", "remove"}, family : Families \cup {"NONE"},
                selected : SUBSET Families]
  BY DEF Idle
<1> QED BY <1>1 DEF Init, TypeOK

LEMMA TypeKept == TypeOK /\ [Next]_vars => TypeOK'
<1> SUFFICES ASSUME TypeOK, [Next]_vars PROVE TypeOK'
  OBVIOUS
<1> USE DEF TypeOK
<1>1. ASSUME NEW c \in AllCpus, NEW m \in Modes, NEW arg \in RevisionArgs,
             NEW e \in Encodings, NEW a \in Apis,
             CreateContext(c, m, arg, e, a)
      PROVE  TypeOK'
  <2> DEFINE r == IF arg = "NONE" THEN CpuRevision(c) ELSE arg
  <2>1. CASE RevisionAccepted(c, m, r) /\ (a # "V1" => Creatable(c, m, r, e))
    <3>1. /\ policy' = [cpu |-> c, mode |-> m, rev |-> r, enc |-> e, api |-> a]
          /\ mask' = EncodingFamilies(c, m, r, e)
          /\ value' = DefaultValue(c, m, r, e)
          /\ ret' = "OK" /\ fpr32' = FALSE /\ call' = call
      BY <1>1, <2>1 DEF CreateContext
    <3> HIDE DEF r
    <3>2. r \in Revisions /\ c \in AllCpus /\ e \in Encodings /\ policy' \in Policies
      BY <2>1, <3>1, CreatedPolicy
    <3>3. mask' \subseteq Families /\ value' \subseteq Families
      BY <3>1, <3>2, DefaultValueSupported
    <3> QED BY <3>1, <3>2, <3>3
  <2>2. CASE ~(RevisionAccepted(c, m, r) /\ (a # "V1" => Creatable(c, m, r, e)))
    <3>1. /\ policy' = NoPolicy /\ mask' = {} /\ value' = {}
          /\ ret' = "INVALID_ARGUMENT" /\ fpr32' = FALSE /\ call' = call
      BY <1>1, <2>2 DEF CreateContext
    <3> QED BY <3>1 DEF Statuses
  <2> QED BY <2>1, <2>2
<1>2. CASE SetFPR32
  BY <1>2 DEF SetFPR32
<1>3. CASE Decode
  <2>1. DecodeStatus \in Statuses
    BY DEF DecodeStatus, ContextStatus, EmptyInputStatus, Statuses
  <2> QED BY <1>3, <2>1 DEF Decode
<1>4. ASSUME NEW f \in Asked(policy), BeginAdd(f) PROVE TypeOK'
  BY <1>4, AskedTyped DEF BeginAdd, Return, Enter, Idle
<1>5. ASSUME NEW f \in Asked(policy), BeginRemove(f) PROVE TypeOK'
  BY <1>5, AskedTyped DEF BeginRemove, Return, Enter, Idle
<1>6. CASE GrowAdd
  <2>1. PICK g \in call.selected :
          call' = [call EXCEPT !.selected = @ \cup Required(g)]
    BY <1>6 DEF GrowAdd
  <2>2. Required(g) \subseteq Families
    BY <2>1, RequiredFamilies
  <2>3. UNCHANGED <<policy, mask, value, fpr32, ret>>
    BY <1>6 DEF GrowAdd
  <2> QED BY <2>1, <2>2, <2>3
<1>7. CASE FinishAdd
  <2>1. VendorSlice(call.selected, policy.rev) \subseteq Families
    BY DEF VendorSlice, Families
  <2> QED BY <1>7, <2>1 DEF FinishAdd, Return, Idle
<1>8. CASE PruneRemove
  BY <1>8 DEF PruneRemove
<1>9. CASE FinishRemove
  BY <1>9 DEF FinishRemove, Return, Idle
<1>10. CASE UNCHANGED vars
  BY <1>10 DEF vars
<1> QED
  BY <1>1, <1>2, <1>3, <1>4, <1>5, <1>6, <1>7, <1>8, <1>9, <1>10, RequestTyped
     DEF Next, LoopStep

(***************************************************************************)
(* Every variable keeps its type, in every build, for every set of         *)
(* processors, encodings and requested families: the tables never produce  *)
(* a bit that is not a family.                                             *)
(***************************************************************************)
THEOREM TypeCorrect == Spec => []TypeOK
<1>1. Init => TypeOK
  BY TypeInitially
<1>2. TypeOK /\ [Next]_vars => TypeOK'
  BY TypeKept
<1> QED BY <1>1, <1>2, PTL DEF Spec

-----------------------------------------------------------------------------
(* The selection and the loops.                                            *)

StandingSet(S, r) ==
  /\ SupportedSet(S, r)
  /\ "LOONGSON" \in S => S \cap LoongsonUsers # {}

\* Between calls a context selects available families and all they need.
SelectionInv ==
  /\ value \subseteq mask
  /\ SupportedSet(value, policy.rev)

\* The growing set is below every closed set that contains the family.
AddLoopInv ==
  call.op = "add" =>
    /\ call.family \in call.selected
    /\ \A T \in SUBSET Families :
         ParentsIn(T) /\ call.family \in T => call.selected \subseteq T

\* The shrinking set is above every standing selection without the family.
RemoveLoopInv ==
  call.op = "remove" =>
    /\ call.family \in mask
    /\ call.selected \subseteq value \ {call.family}
    /\ \A T \in SUBSET (value \ {call.family}) :
         StandingSet(T, policy.rev) => T \subseteq call.selected

IInv == TypeOK /\ SelectionInv /\ AddLoopInv /\ RemoveLoopInv

LEMMA InvInitially == Init => IInv
<1>1. ParentsIn({})
  BY DEF ParentsIn
<1> QED
  BY <1>1, TypeInitially
     DEF Init, IInv, SelectionInv, AddLoopInv, RemoveLoopInv, SupportedSet, Idle

\* Dropping what the loop calls droppable loses no standing selection.
LEMMA DroppedNotStanding ==
  ASSUME NEW S, NEW r, NEW g \in Droppable(S, r),
         NEW T, T \subseteq S, StandingSet(T, r)
  PROVE  g \notin T
<1> SUFFICES ASSUME g \in T PROVE FALSE
  OBVIOUS
<1>1. Closed(T)
  BY ClosedIsParentsIn DEF StandingSet, SupportedSet
<1>2. Required(g) \subseteq S
  BY <1>1 DEF Closed
<1>3. CASE r = "64R2" /\ "LOONGSIMD" \notin S /\ g = "MSA"
  BY <1>3 DEF StandingSet, SupportedSet
<1>4. CASE S \cap LoongsonUsers = {} /\ g = "LOONGSON"
  BY <1>4 DEF StandingSet
<1> QED BY <1>2, <1>3, <1>4 DEF Droppable

\* Where nothing is droppable, what is left stands.
LEMMA NothingDroppable ==
  ASSUME NEW S, NEW r, Droppable(S, r) = {}
  PROVE  StandingSet(S, r)
<1>1. Closed(S)
  BY DEF Droppable, Closed
<1>2. r = "64R2" /\ "MSA" \in S => "LOONGSIMD" \in S
  BY DEF Droppable
<1>3. "LOONGSON" \in S => S \cap LoongsonUsers # {}
  BY DEF Droppable
<1> QED BY <1>1, <1>2, <1>3, ClosedIsParentsIn DEF StandingSet, SupportedSet

\* What FinishAdd stores is supported.
LEMMA AddedSupported ==
  ASSUME NEW S, NEW V, NEW r, Closed(S), SupportedSet(V, r)
  PROVE  SupportedSet(V \cup S \cup VendorSlice(S, r), r)
<1>1. ParentsIn(S) /\ ParentsIn(V)
  BY ClosedIsParentsIn DEF SupportedSet
<1>2. CASE r = "64R2" /\ "MSA" \in S
  BY <1>1, <1>2 DEF SupportedSet, VendorSlice, ParentsIn
<1>3. CASE ~(r = "64R2" /\ "MSA" \in S)
  BY <1>1, <1>3 DEF SupportedSet, VendorSlice, ParentsIn
<1> QED BY <1>2, <1>3

LEMMA InvKept == IInv /\ [Next]_vars => IInv'
<1> SUFFICES ASSUME IInv, [Next]_vars PROVE IInv'
  OBVIOUS
<1> USE DEF IInv
<1>0. TypeOK'
  BY TypeKept
<1>1. ASSUME NEW c \in AllCpus, NEW m \in Modes, NEW arg \in RevisionArgs,
             NEW e \in Encodings, NEW a \in Apis,
             CreateContext(c, m, arg, e, a)
      PROVE  IInv'
  <2> DEFINE r == IF arg = "NONE" THEN CpuRevision(c) ELSE arg
  <2>1. call' = call /\ call = Idle
    BY <1>1 DEF CreateContext
  <2>2. AddLoopInv' /\ RemoveLoopInv'
    BY <2>1 DEF AddLoopInv, RemoveLoopInv, Idle
  <2>3. CASE RevisionAccepted(c, m, r) /\ (a # "V1" => Creatable(c, m, r, e))
    <3>1. /\ policy' = [cpu |-> c, mode |-> m, rev |-> r, enc |-> e, api |-> a]
          /\ mask' = EncodingFamilies(c, m, r, e)
          /\ value' = DefaultValue(c, m, r, e)
      BY <1>1, <2>3 DEF CreateContext
    <3> HIDE DEF r
    <3>2. r \in Revisions /\ c \in AllCpus /\ e \in Encodings
      BY <2>3, CreatedPolicy
    <3> QED BY <1>0, <2>2, <3>1, <3>2, DefaultValueSupported DEF SelectionInv
  <2>4. CASE ~(RevisionAccepted(c, m, r) /\ (a # "V1" => Creatable(c, m, r, e)))
    <3>1. policy' = NoPolicy /\ mask' = {} /\ value' = {}
      BY <1>1, <2>4 DEF CreateContext
    <3> QED
      BY <1>0, <2>2, <3>1 DEF SelectionInv, SupportedSet, ParentsIn, NoPolicy
  <2> QED BY <2>3, <2>4
<1>2. CASE SetFPR32 \/ Decode
  BY <1>0, <1>2
     DEF SetFPR32, Decode, SelectionInv, AddLoopInv, RemoveLoopInv
<1>3. ASSUME NEW f \in Asked(policy), BeginAdd(f) PROVE IInv'
  <2>1. UNCHANGED <<policy, mask, value>>
    BY <1>3 DEF BeginAdd
  <2>2. \/ call' = Idle
        \/ call' = [op |-> "add", family |-> f, selected |-> {f}]
    BY <1>3 DEF BeginAdd, Return, Enter
  <2>3. AddLoopInv' /\ RemoveLoopInv'
    BY <2>2 DEF AddLoopInv, RemoveLoopInv, Idle
  <2> QED BY <1>0, <2>1, <2>3 DEF SelectionInv
<1>4. ASSUME NEW f \in Asked(policy), BeginRemove(f) PROVE IInv'
  <2>1. UNCHANGED <<policy, mask, value>>
    BY <1>4 DEF BeginRemove
  <2>2. \/ call' = Idle
        \/ f \in mask /\ call' = [op |-> "remove", family |-> f,
                                 selected |-> value \ {f}]
    BY <1>4 DEF BeginRemove, Return, Enter
  <2>3. AddLoopInv' /\ RemoveLoopInv'
    BY <2>1, <2>2 DEF AddLoopInv, RemoveLoopInv, Idle
  <2> QED BY <1>0, <2>1, <2>3 DEF SelectionInv
<1>5. CASE GrowAdd
  <2>1. PICK g \in call.selected :
          call' = [call EXCEPT !.selected = @ \cup Required(g)]
    BY <1>5 DEF GrowAdd
  <2>2. call.op = "add" /\ UNCHANGED <<policy, mask, value>>
    BY <1>5 DEF GrowAdd
  <2>3. /\ call'.op = "add" /\ call'.family = call.family
        /\ call'.selected = call.selected \cup Required(g)
    BY <2>1, <2>2 DEF TypeOK
  <2>4. ASSUME NEW T \in SUBSET Families, ParentsIn(T), call.family \in T
        PROVE  call'.selected \subseteq T
    <3>1. g \in T
      BY <2>1, <2>2, <2>4 DEF AddLoopInv
    <3>2. Required(g) \subseteq T
      BY <2>4, <3>1, ClosedIsParentsIn DEF Closed
    <3> QED BY <2>2, <2>3, <2>4, <3>2 DEF AddLoopInv
  <2>5. AddLoopInv' /\ RemoveLoopInv'
    BY <2>2, <2>3, <2>4 DEF AddLoopInv, RemoveLoopInv
  <2> QED BY <1>0, <2>2, <2>5 DEF SelectionInv
<1>6. CASE FinishAdd
  <2>1. call' = Idle /\ UNCHANGED <<policy, mask>> /\ Closed(call.selected)
    BY <1>6 DEF FinishAdd, Return
  <2>2. AddLoopInv' /\ RemoveLoopInv'
    BY <2>1 DEF AddLoopInv, RemoveLoopInv, Idle
  <2>3. \/ value' = value
        \/ LET family == call.selected \cup VendorSlice(call.selected, policy.rev)
           IN  family \subseteq mask /\ value' = value \cup family
    BY <1>6 DEF FinishAdd
  <2>4. SelectionInv'
    <3>1. SupportedSet(value \cup call.selected
                         \cup VendorSlice(call.selected, policy.rev), policy.rev)
      BY <2>1, AddedSupported DEF SelectionInv
    <3>2. value \cup (call.selected \cup VendorSlice(call.selected, policy.rev)) =
          value \cup call.selected \cup VendorSlice(call.selected, policy.rev)
      OBVIOUS
    <3> QED BY <2>1, <2>3, <3>1, <3>2 DEF SelectionInv
  <2> QED BY <1>0, <2>2, <2>4
<1>7. CASE PruneRemove
  <2>1. PICK g \in Droppable(call.selected, policy.rev) :
          call' = [call EXCEPT !.selected = @ \ {g}]
    BY <1>7 DEF PruneRemove
  <2>2. call.op = "remove" /\ UNCHANGED <<policy, mask, value>>
    BY <1>7 DEF PruneRemove
  <2>3. /\ call'.op = "remove" /\ call'.family = call.family
        /\ call'.selected = call.selected \ {g}
    BY <2>1, <2>2 DEF TypeOK
  <2>4. ASSUME NEW T \in SUBSET (value \ {call.family}),
               StandingSet(T, policy.rev)
        PROVE  T \subseteq call'.selected
    <3>1. T \subseteq call.selected
      BY <2>2, <2>4 DEF RemoveLoopInv
    <3>2. g \notin T
      BY <2>1, <2>4, <3>1, DroppedNotStanding
    <3> QED BY <2>3, <3>1, <3>2
  <2>5. AddLoopInv' /\ RemoveLoopInv'
    BY <2>2, <2>3, <2>4 DEF AddLoopInv, RemoveLoopInv
  <2> QED BY <1>0, <2>2, <2>5 DEF SelectionInv
<1>8. CASE FinishRemove
  <2>1. call.op = "remove" /\ call' = Idle /\ UNCHANGED <<policy, mask>>
    BY <1>8 DEF FinishRemove, Return
  <2>2. AddLoopInv' /\ RemoveLoopInv'
    BY <2>1 DEF AddLoopInv, RemoveLoopInv, Idle
  <2>3. StandingSet(call.selected, policy.rev)
    BY <1>8, NothingDroppable DEF FinishRemove
  <2>4. value' = value \/ value' = call.selected
    BY <1>8 DEF FinishRemove
  <2>5. SelectionInv'
    BY <2>1, <2>3, <2>4 DEF SelectionInv, RemoveLoopInv, StandingSet
  <2> QED BY <1>0, <2>2, <2>5
<1>9. CASE UNCHANGED vars
  BY <1>0, <1>9 DEF vars, SelectionInv, AddLoopInv, RemoveLoopInv
<1> QED
  BY <1>1, <1>2, <1>3, <1>4, <1>5, <1>6, <1>7, <1>8, <1>9, RequestTyped DEF Next, LoopStep

LEMMA InvAlways == Spec => []IInv
<1> QED BY InvInitially, InvKept, PTL DEF Spec

-----------------------------------------------------------------------------
(* The selection is the one the interface promises.                        *)

\* The abstract specification reads the same tables.
LEMMA SameClosed ==
  ASSUME NEW S PROVE Selection!Closed(S) <=> ParentsIn(S)
<1>1. Selection!Closed(S) <=> Closed(S)
  BY Zenon DEF Selection!Closed, Selection!Required, Closed, Required
<1> QED BY <1>1, ClosedIsParentsIn

LEMMA SameSupported ==
  ASSUME NEW S, NEW r
  PROVE  Selection!Supported(S, r) <=> SupportedSet(S, r)
BY SameClosed DEF Selection!Supported, SupportedSet, ParentsIn

LEMMA SameStanding ==
  ASSUME NEW S, NEW r
  PROVE  Selection!Standing(S, r) <=> StandingSet(S, r)
BY SameSupported
   DEF Selection!Standing, StandingSet, Selection!LoongsonUsers,
       Selection!Generations, LoongsonUsers, Generations

LEMMA SameRejected ==
  ASSUME NEW F
  PROVE  Selection!Rejected(F) <=> Rejected(F)
BY DEF Selection!Rejected, Selection!ConflictingFeatures,
       Selection!MoreThanOne, Selection!Processors, Selection!Generations,
       Selection!LoongsonUsers, Selection!Vu, Rejected, ConflictingFeatures,
       MoreThanOne, Processors, Generations, LoongsonUsers, Vu

LEMMA InitRefines == Init => Selection!Init
BY DEF Init, Selection!Init, NoPolicy

\* An add that succeeds selects the least supported superset.
LEMMA AddRefines ==
  ASSUME IInv, FinishAdd
  PROVE  Selection!Next \/ UNCHANGED Selection!vars
<1> DEFINE family == call.selected \cup VendorSlice(call.selected, policy.rev)
           f == call.family
<1>1. call.op = "add" /\ Closed(call.selected) /\ UNCHANGED <<policy, mask, fpr32>>
  BY DEF FinishAdd
<1>2. \/ value' = value
      \/ /\ family \subseteq mask
         /\ ~Rejected(value \cup family \cup FprBit(fpr32))
         /\ value' = value \cup family
  BY DEF FinishAdd
<1>3. CASE value' = value
  BY <1>1, <1>3 DEF Selection!vars
<1>4. CASE /\ family \subseteq mask
           /\ ~Rejected(value \cup family \cup FprBit(fpr32))
           /\ value' = value \cup family
  <2>1. f \in call.selected /\ f \in Families /\ mask \subseteq Families
    BY <1>1, <1>4 DEF IInv, AddLoopInv, TypeOK
  <2>2. value \cup {f} \subseteq value' /\ value' \subseteq mask
    BY <1>4, <2>1 DEF IInv, SelectionInv
  <2>3. Selection!Supported(value', policy.rev)
    <3>1. SupportedSet(value \cup call.selected
                         \cup VendorSlice(call.selected, policy.rev), policy.rev)
      BY <1>1, AddedSupported DEF IInv, SelectionInv
    <3>2. value' = value \cup call.selected
                          \cup VendorSlice(call.selected, policy.rev)
      BY <1>4
    <3> QED BY <3>1, <3>2, SameSupported
  <2>4. ASSUME NEW T \in SUBSET (value' \ (value \cup {f})),
               Selection!Supported(value' \ T, policy.rev)
        PROVE  T = {}
    <3>1. SupportedSet(value' \ T, policy.rev)
      BY <2>4, SameSupported
    <3>2. value' \ T \in SUBSET Families /\ f \in value' \ T
      BY <2>1, <2>2
    <3>3. call.selected \subseteq value' \ T
      BY <1>1, <3>1, <3>2 DEF IInv, AddLoopInv, SupportedSet
    <3>4. VendorSlice(call.selected, policy.rev) \subseteq value' \ T
      BY <3>1, <3>3 DEF VendorSlice, SupportedSet, ParentsIn
    <3>5. value' \subseteq value' \ T
      BY <1>4, <2>4, <3>3, <3>4
    <3> QED BY <2>4, <3>5
  <2>5. ~Selection!Rejected(value' \cup Selection!Bit)
    <3>1. Selection!Bit = FprBit(fpr32)
      BY DEF Selection!Bit, FprBit
    <3> QED BY <1>4, <3>1, SameRejected
  <2>6. Selection!Select(f)
    BY <1>1, <2>2, <2>3, <2>4, <2>5 DEF Selection!Select
  <2>7. f \in Selection!Families
    BY <2>1 DEF Selection!Families, Families
  <2> QED BY <2>6, <2>7 DEF Selection!Next
<1> QED BY <1>2, <1>3, <1>4

\* A removal that succeeds keeps the greatest standing selection.
LEMMA RemoveRefines ==
  ASSUME IInv, FinishRemove
  PROVE  Selection!Next \/ UNCHANGED Selection!vars
<1> DEFINE f == call.family
<1>1. call.op = "remove" /\ UNCHANGED <<policy, mask, fpr32>>
  BY DEF FinishRemove
<1>2. \/ value' = value
      \/ /\ ~Rejected(call.selected \cup FprBit(fpr32))
         /\ value' = call.selected
  BY DEF FinishRemove
<1>3. CASE value' = value
  BY <1>1, <1>3 DEF Selection!vars
<1>4. CASE /\ ~Rejected(call.selected \cup FprBit(fpr32))
           /\ value' = call.selected
  <2>1. f \in mask /\ f \in Families
    BY <1>1 DEF IInv, RemoveLoopInv, TypeOK
  <2>2. value' \subseteq value \ {f}
    BY <1>1, <1>4 DEF IInv, RemoveLoopInv
  <2>3. Selection!Standing(value', policy.rev)
    BY <1>4, NothingDroppable, SameStanding DEF FinishRemove
  <2>4. ASSUME NEW T \in SUBSET ((value \ {f}) \ value'),
               Selection!Standing(value' \cup T, policy.rev)
        PROVE  T = {}
    <3>1. StandingSet(value' \cup T, policy.rev)
      BY <2>4, SameStanding
    <3>2. value' \cup T \in SUBSET (value \ {f})
      BY <2>2
    <3>3. value' \cup T \subseteq call.selected
      BY <1>1, <3>1, <3>2 DEF IInv, RemoveLoopInv
    <3> QED BY <1>4, <2>4, <3>3
  <2>5. ~Selection!Rejected(value' \cup Selection!Bit)
    <3>1. Selection!Bit = FprBit(fpr32)
      BY DEF Selection!Bit, FprBit
    <3> QED BY <1>4, <3>1, SameRejected
  <2>6. Selection!Deselect(f)
    BY <1>1, <2>1, <2>2, <2>3, <2>4, <2>5 DEF Selection!Deselect
  <2>7. f \in Selection!Families
    BY <2>1 DEF Selection!Families, Families
  <2> QED BY <2>6, <2>7 DEF Selection!Next
<1> QED BY <1>2, <1>3, <1>4

\* A context is created with a selection that supports itself.
LEMMA CreateRefines ==
  ASSUME IInv, IInv', NEW c \in AllCpus, NEW m \in Modes, NEW arg \in RevisionArgs,
         NEW e \in Encodings, NEW a \in Apis, CreateContext(c, m, arg, e, a)
  PROVE  Selection!Create
<1>1. fpr32' = FALSE
  BY DEF CreateContext
<1>2. /\ mask' \subseteq Families /\ value' \subseteq mask'
      /\ SupportedSet(value', policy'.rev)
      /\ policy' \in Policies \cup {NoPolicy}
  BY DEF IInv, TypeOK, SelectionInv
<1>3. policy'.rev \in Revisions \cup {"NONE"}
  BY <1>2 DEF Policies, NoPolicy
<1>4. Selection!Families = Families /\ Selection!Revisions = Revisions
  BY DEF Selection!Families, Families, Selection!Revisions, Revisions
<1> QED BY <1>1, <1>2, <1>3, <1>4, SameSupported DEF Selection!Create

LEMMA StepRefines ==
  IInv /\ IInv' /\ [Next]_vars => [Selection!Next]_Selection!vars
<1> SUFFICES ASSUME IInv, IInv', [Next]_vars
             PROVE  Selection!Next \/ UNCHANGED Selection!vars
  OBVIOUS
<1>1. ASSUME NEW c \in AllCpus, NEW m \in Modes, NEW arg \in RevisionArgs,
             NEW e \in Encodings, NEW a \in Apis,
             CreateContext(c, m, arg, e, a)
      PROVE  Selection!Next
  BY <1>1, CreateRefines DEF Selection!Next
<1>2. CASE SetFPR32
  <2>1. fpr32' \in BOOLEAN /\ UNCHANGED <<policy, mask, value>>
    BY <1>2 DEF SetFPR32
  <2> QED BY <2>1 DEF Selection!Next, Selection!SetFPR32
<1>3. CASE Decode \/ GrowAdd \/ PruneRemove
  BY <1>3 DEF Decode, GrowAdd, PruneRemove, Selection!vars
<1>4. ASSUME NEW f \in Asked(policy), BeginAdd(f) \/ BeginRemove(f)
      PROVE  UNCHANGED Selection!vars
  BY <1>4 DEF BeginAdd, BeginRemove, Selection!vars
<1>5. CASE FinishAdd
  BY <1>5, AddRefines
<1>6. CASE FinishRemove
  BY <1>6, RemoveRefines
<1>7. CASE UNCHANGED vars
  BY <1>7 DEF vars, Selection!vars
<1> QED BY <1>1, <1>2, <1>3, <1>4, <1>5, <1>6, <1>7, RequestTyped DEF Next, LoopStep

(***************************************************************************)
(* The add and remove calls of all three interface versions compute, for   *)
(* every processor, revision, encoding and build, what FamilySelection     *)
(* promises: the loops of family_dependencies and remove_family find the   *)
(* least supported superset and the greatest standing subset, and a call   *)
(* that is refused leaves the context as it was.                           *)
(***************************************************************************)
THEOREM ContextsImplementSelection == Spec => ImplementsFamilySelection
<1>1. Init => Selection!Init
  BY InitRefines
<1>2. IInv /\ IInv' /\ [Next]_vars => [Selection!Next]_Selection!vars
  BY StepRefines
<1>3. Spec => []IInv
  BY InvAlways
<1> QED
  BY <1>1, <1>2, <1>3, PTL DEF Spec, ImplementsFamilySelection, Selection!Spec

=============================================================================
