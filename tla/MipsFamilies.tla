---------------------------- MODULE MipsFamilies ----------------------------
(***************************************************************************)
(* The constant policy of the MIPS decoder: the forty selectable families, *)
(* what each requires, which of them a processor, a mode and a revision    *)
(* make available, which of them are selected by default and which         *)
(* selections contradict themselves (src/src/mips/cdisasm_mips.c).         *)
(*                                                                         *)
(* The code keeps a set of families in two forms, a family mask and the    *)
(* feature bits of a decode-flags word, with a bijection between them      *)
(* (mips_family_flag_bits).  Both are sets of family names here.           *)
(***************************************************************************)
EXTENDS FiniteSets

CONSTANTS
  BuildFamilies,   \* CDISASM_MIPS_BUILD_FAMILY_MASK: the USE_MIPS_* switches
  ExtraOpcodes     \* USE_EXTRA_OPCODES

Families ==
  {"FPU", "DSP", "DSPR2", "MT", "MSA", "VZ", "EVA", "XPA", "DSPR3", "MIPS3D",
   "MDMX", "SMARTMIPS", "MCU", "CRC", "GINV", "COP2", "COP3",
   "PAIRED_SINGLE", "CNMIPS", "CNMIPSP", "LOONGSON", "ALLEGREX", "R5900",
   "MXU", "MIPS16E2", "LOONGSON2E", "LOONGSON2F", "LOONGSON_EXT",
   "LOONGSON_EXT2", "LOONGSON_CAM", "DSP64", "MXU2", "MXU3", "LOONGSIMD",
   "R5900_VU0", "R5900_VU1", "MXU3_1", "LOONGASX", "XLR", "XLP"}

\* The descriptor column required_flags: a family and its direct parents.
Required(f) ==
  {f} \cup
  CASE f \in {"DSPR2", "DSP64"}                               -> {"DSP"}
    [] f = "DSPR3"                                            -> {"DSP", "DSPR2"}
    [] f \in {"MSA", "MIPS3D", "MDMX", "PAIRED_SINGLE"}       -> {"FPU"}
    [] f = "CNMIPSP"                                          -> {"CNMIPS"}
    [] f \in {"LOONGSON2E", "LOONGSON2F", "LOONGSON_EXT",
              "LOONGSON_CAM"}                                 -> {"LOONGSON"}
    [] f = "LOONGSON_EXT2"                  -> {"LOONGSON", "LOONGSON_EXT"}
    [] f \in {"LOONGSIMD", "LOONGASX"}      -> {"FPU", "LOONGSON"}
    [] f \in {"R5900_VU0", "R5900_VU1"}     -> {"R5900"}
    [] f = "MXU3_1"                         -> {"MXU3"}
    [] OTHER                                -> {}

Closed(S) == \A f \in S : Required(f) \subseteq S

\* cmake/cdisasm_mips_families.cmake: a disabled parent disables its children.
ASSUME BuildAssumption ==
  /\ BuildFamilies \subseteq Families
  /\ Closed(BuildFamilies)
  /\ ExtraOpcodes \in BOOLEAN

-----------------------------------------------------------------------------
(* Modes, revisions, processors.                                           *)

Modes == {32, 64}

Revisions ==
  {"I", "II", "III", "IV", "V", "32R1", "32R2", "32R3", "32R5", "32R6",
   "64R1", "64R2", "64R3", "64R5", "64R6"}

R6 == {"32R6", "64R6"}

RevisionSupportsMode(r, m) ==
  /\ r \in Revisions
  /\ m \in Modes
  /\ m = 32 \/ r \in {"III", "IV", "V", "64R1", "64R2", "64R3", "64R5", "64R6"}

\* The descriptor column allowed_modes.
AllowedFamilies(m) ==
  Families \ IF m = 64
             THEN {"EVA", "XPA", "SMARTMIPS", "MCU", "ALLEGREX", "MXU",
                   "MXU2", "MXU3", "MXU3_1"}
             ELSE {"MDMX", "LOONGSON", "R5900", "LOONGSON2E", "LOONGSON2F",
                   "LOONGSON_EXT", "LOONGSON_EXT2", "LOONGSON_CAM", "DSP64",
                   "LOONGSIMD", "R5900_VU0", "R5900_VU1", "LOONGASX", "XLP"}

\* mips_profiles.  CPU_ANY has no revision of its own and every family.
AllCpus ==
  {"ANY", "R3000", "R4000", "4KC", "24KC", "24KF", "5KC", "5KF", "24KEC",
   "34KC", "34KN", "74KC", "1004KC", "P5600", "I6400", "I6500", "P6600",
   "P5600_FPU", "P5600_FPU_MSA", "I6400_FPU", "I6400_FPU_MSA", "I6500_FPU",
   "I6500_FPU_MSA", "P6600_FPU", "P6600_FPU_MSA", "ALLEGREX", "R5900",
   "OCTEON", "OCTEONP", "LOONGSON2E", "LOONGSON2F", "LOONGSON3A3000",
   "LOONGSON3A4000", "XLR", "XLS", "XLP"}

CpuRevision(c) ==
  CASE c = "ANY"                                              -> "NONE"
    [] c = "R3000"                                            -> "I"
    [] c \in {"R4000", "R5900", "LOONGSON2E", "LOONGSON2F"}   -> "III"
    [] c \in {"4KC", "ALLEGREX"}                              -> "32R1"
    [] c \in {"24KC", "24KF", "24KEC", "34KC", "34KN", "74KC",
              "1004KC"}                                       -> "32R2"
    [] c \in {"P5600", "P5600_FPU", "P5600_FPU_MSA"}          -> "32R5"
    [] c \in {"5KC", "5KF", "XLR", "XLS"}                     -> "64R1"
    [] c \in {"OCTEON", "OCTEONP", "LOONGSON3A3000", "LOONGSON3A4000",
              "XLP"}                                          -> "64R2"
    [] OTHER                                                  -> "64R6"

CpuModes(c) ==
  CASE c \in {"R5900", "LOONGSON2E", "LOONGSON2F", "LOONGSON3A3000",
              "LOONGSON3A4000"}                               -> {64}
    [] CpuRevision(c) \in {"I", "32R1", "32R2", "32R5"}       -> {32}
    [] OTHER                                                  -> Modes

CpuFamilies(c) ==
  CASE c = "ANY"                                      -> Families
    [] c \in {"R3000", "4KC", "24KC", "5KC"}          -> {}
    [] c \in {"R4000", "24KF", "5KF"}                 -> {"FPU"}
    [] c = "24KEC"                                    -> {"DSP"}
    [] c \in {"34KC", "1004KC"}                       -> {"DSP", "MT"}
    [] c = "34KN"                                     -> {"MT"}
    [] c = "74KC"                                     -> {"DSP", "DSPR2"}
    [] c = "P5600"                                    -> {"VZ", "EVA", "XPA"}
    [] c = "P5600_FPU"                        -> {"VZ", "EVA", "XPA", "FPU"}
    [] c = "P5600_FPU_MSA"             -> {"VZ", "EVA", "XPA", "FPU", "MSA"}
    [] c \in {"I6400", "I6500", "P6600"}              -> {"VZ"}
    [] c \in {"I6400_FPU", "I6500_FPU", "P6600_FPU"}  -> {"VZ", "FPU"}
    [] c \in {"I6400_FPU_MSA", "I6500_FPU_MSA", "P6600_FPU_MSA"}
                                                      -> {"VZ", "FPU", "MSA"}
    [] c = "ALLEGREX"                                 -> {"FPU", "ALLEGREX"}
    [] c = "R5900"     -> {"FPU", "R5900", "R5900_VU0", "R5900_VU1"}
    [] c = "OCTEON"    -> {"COP2", "CNMIPS"}
    [] c = "OCTEONP"   -> {"COP2", "CNMIPS", "CNMIPSP"}
    [] c = "LOONGSON2E" -> {"FPU", "PAIRED_SINGLE", "LOONGSON", "LOONGSON2E"}
    [] c = "LOONGSON2F" -> {"FPU", "PAIRED_SINGLE", "LOONGSON", "LOONGSON2F"}
    [] c = "LOONGSON3A3000" -> {"FPU", "LOONGSON", "LOONGSIMD"}
    [] c = "LOONGSON3A4000"
                       -> {"FPU", "MSA", "LOONGSON", "LOONGSIMD", "LOONGASX"}
    [] c \in {"XLR", "XLS"}                           -> {"COP2", "XLR"}
    [] c = "XLP"                                      -> {"FPU", "COP2", "XLP"}

-----------------------------------------------------------------------------
(* Availability and defaults.                                              *)

\* Families whose decoders exist in this build, before the family switches.
NativeFamilies ==
  IF ExtraOpcodes THEN Families
  ELSE {"FPU", "PAIRED_SINGLE", "COP2", "COP3", "ALLEGREX", "R5900"}

\* available_families
AvailableFamilies(c, m) ==
  IF m \notin CpuModes(c) THEN {}
  ELSE CpuFamilies(c) \cap NativeFamilies \cap BuildFamilies
                      \cap AllowedFamilies(m)

Vu == {"R5900_VU0", "R5900_VU1"}

\* What a revision withholds whatever the switch below it admits.
RevisionWithholds(m, r) ==
  UNION {
    IF r # "III" THEN {"R5900", "LOONGSON2E", "LOONGSON2F"} \cup Vu ELSE {},
    IF r # "64R1" THEN {"XLR"} ELSE {},
    IF r # "64R2" \/ m # 64 THEN {"XLP"} ELSE {},
    IF r # "32R1" THEN {"ALLEGREX"} ELSE {},
    IF r \notin {"64R2", "64R3", "64R5"} THEN {"LOONGSIMD"} ELSE {},
    IF r # "64R2" THEN {"LOONGASX"} ELSE {},
    IF m = 64 THEN {"EVA", "XPA"} ELSE {} }

\* The switch of revision_families; avail decides whether 64R2 keeps MSA.
RevisionAdmits(r, avail) ==
  CASE r \in {"I", "II"} -> {"FPU", "COP2", "COP3"}
    [] r = "III"  -> {"FPU", "COP2", "PAIRED_SINGLE", "R5900", "LOONGSON",
                      "LOONGSON2E", "LOONGSON2F"} \cup Vu
    [] r = "IV"   -> {"FPU", "COP2"}
    [] r = "V"    -> {"FPU", "COP2", "PAIRED_SINGLE"}
    [] r = "32R1" -> {"FPU", "COP2", "SMARTMIPS", "ALLEGREX", "MXU",
                      "MIPS16E2", "MXU2", "MXU3", "MXU3_1"}
    [] r = "64R1" -> {"FPU", "COP2", "PAIRED_SINGLE", "MIPS3D", "MDMX",
                      "MIPS16E2", "XLR"}
    [] r \in {"32R2", "32R3", "64R2", "64R3"} ->
         Families \ ({"DSPR3", "COP3", "CRC", "GINV"} \cup
                     IF r = "64R2" /\ "LOONGSIMD" \in avail THEN {}
                                                            ELSE {"MSA"})
    [] r \in {"32R5", "64R5"} -> Families \ {"DSPR3", "COP3"}
    [] r \in R6 ->
         Families \ {"MIPS3D", "PAIRED_SINGLE", "COP3", "MT", "MDMX",
                     "SMARTMIPS", "CNMIPS", "CNMIPSP", "MXU", "MCU", "DSP64",
                     "MIPS16E2", "LOONGSON", "LOONGSON2E", "LOONGSON2F",
                     "LOONGSON_EXT", "LOONGSON_EXT2", "LOONGSON_CAM", "MXU2",
                     "MXU3", "MXU3_1", "LOONGSIMD"}

\* revision_families
RevisionFamilies(c, m, r) ==
  LET avail == AvailableFamilies(c, m) \ RevisionWithholds(m, r)
  IN  avail \cap RevisionAdmits(r, avail)

\* Encoding spaces and register models no generic default selects.
VendorFamilies ==
  {"MDMX", "SMARTMIPS", "CNMIPS", "CNMIPSP", "LOONGSON", "ALLEGREX", "R5900",
   "MXU", "LOONGSON2E", "LOONGSON2F", "LOONGSON_EXT", "LOONGSON_EXT2",
   "LOONGSON_CAM", "DSP64", "MIPS16E2", "MXU2", "MXU3", "MXU3_1",
   "LOONGSIMD", "R5900_VU0", "XLR", "XLP"}

\* Mutant: the default of an R5900 carries its register layout as a family.
DefaultFamilies_WithLayout(c, supported, r) ==
  supported \cup (IF c = "R5900" THEN {"FPR32"} ELSE {})

\* Mutant: a generic default keeps the LOONGSON umbrella.
DefaultFamilies_KeepsUmbrella(c, supported, r) ==
  supported \ ({"R5900_VU1", "LOONGASX"} \cup
               IF c # "ANY" THEN {} ELSE VendorFamilies \ {"LOONGSON"})

\* default_families
DefaultFamilies(c, supported, r) ==
  supported \ ({"R5900_VU1", "LOONGASX"} \cup
               IF c # "ANY" THEN {}
               ELSE VendorFamilies \cup
                    IF r \in {"64R2", "64R3"} THEN {"MSA"} ELSE {})

-----------------------------------------------------------------------------
(* Encodings (the V2 interface).                                           *)

Compact    == {"MIPS16", "MICROMIPS", "NANOMIPS"}
VuWords    == {"VU_UPPER", "VU_LOWER", "VU_LOWER_LOI"}
Encodings  == {"STANDARD"} \cup Compact \cup VuWords

\* encoding_families
EncodingFamilies(c, m, r, e) ==
  CASE e \in VuWords    -> AvailableFamilies(c, m) \cap ({"R5900"} \cup Vu)
    [] e = "NANOMIPS"   -> AvailableFamilies(c, m) \cap
                           {"FPU", "COP2", "DSP", "DSPR2", "DSPR3", "MT",
                            "EVA", "CRC", "GINV"}
    [] OTHER            -> RevisionFamilies(c, m, r)

-----------------------------------------------------------------------------
(* Contradictory selections.                                               *)

MoreThanOne(S) == \E x \in S : S \ {x} # {}

\* The processors whose encoding spaces a feature set selects.
Processors(F) ==
  (F \cap {"ALLEGREX", "R5900", "LOONGSON", "XLR", "XLP"})
  \cup (IF F \cap {"CNMIPS", "CNMIPSP"} # {} THEN {"OCTEON"} ELSE {})
  \cup (IF F \cap {"MXU", "MXU2", "MXU3"} # {} THEN {"INGENIC"} ELSE {})

Generations == {"LOONGSON2E", "LOONGSON2F", "LOONGSIMD"}

\* What keeps the LOONGSON umbrella from standing alone.
LoongsonUsers ==
  Generations \cup {"LOONGSON_EXT", "LOONGSON_CAM", "LOONGASX"}

\* Mutant: several Loongson generations at once.
ConflictingFeatures_Generations(F) ==
  \/ MoreThanOne(Processors(F))
  \/ MoreThanOne(F \cap {"MXU", "MXU2", "MXU3"})
  \/ Vu \subseteq F
  \/ "LOONGASX" \in F /\ F \cap {"LOONGSON2E", "LOONGSON2F"} # {}
  \/ "LOONGSON" \in F /\ F \cap LoongsonUsers = {}
  \/ {"MDMX", "FPR32"} \subseteq F
  \/ {"MDMX", "MSA"} \subseteq F
  \/ "FPR32" \in F /\ F \cap {"LOONGSIMD", "LOONGASX"} # {}

\* conflicting_features
ConflictingFeatures(F) ==
  \/ MoreThanOne(Processors(F))
  \/ MoreThanOne(F \cap Generations)
  \/ MoreThanOne(F \cap {"MXU", "MXU2", "MXU3"})
  \/ Vu \subseteq F
  \/ "LOONGASX" \in F /\ F \cap {"LOONGSON2E", "LOONGSON2F"} # {}
  \/ "LOONGSON" \in F /\ F \cap LoongsonUsers = {}
  \/ {"MDMX", "FPR32"} \subseteq F
  \/ {"MDMX", "MSA"} \subseteq F
  \/ "FPR32" \in F /\ F \cap {"LOONGSIMD", "LOONGASX"} # {}

\* The check both decode entry points and the context functions add to it.
Rejected(F) == ConflictingFeatures(F) \/ {"MSA", "FPR32"} \subseteq F

=============================================================================
