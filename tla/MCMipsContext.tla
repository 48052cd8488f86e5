--------------------------- MODULE MCMipsContext ---------------------------
(***************************************************************************)
(* Constant values for the runs of MipsContext.                            *)
(***************************************************************************)
EXTENDS MipsContext

AllBuilt == Families

\* One processor of every shape: none of the vendor spaces, each of them,
\* R6, and both Loongson generations with their register-model rules.
NamedCpus ==
  {"74KC", "P5600_FPU_MSA", "I6400_FPU_MSA", "ALLEGREX", "R5900", "OCTEONP",
   "LOONGSON2F", "LOONGSON3A4000", "XLR", "XLP"}

NamedFamilies == UNION {CpuFamilies(c) : c \in NamedCpus}

NamedContexts ==
  [cpu : NamedCpus, rev : {"NONE"}, enc : {"STANDARD", "MIPS16"}, api : {"V1", "V3"}]

\* On CPU_ANY: the revisions at which the vendor spaces meet, and the
\* families that pull others in, exclude each other or lose their parents.
GenericContexts ==
  [cpu : {"ANY"}, rev : {"III", "32R1", "64R2", "64R5", "64R6"}, enc : {"STANDARD"},
   api : {"V1", "V3"}]

GenericAsked ==
  {"FPU", "MSA", "PAIRED_SINGLE", "LOONGSON", "LOONGSON2E", "LOONGSON2F", "LOONGSIMD",
   "LOONGASX", "R5900_VU0", "R5900_VU1", "ALLEGREX", "MXU"}

\* The encodings whose families come from tables of their own.
OtherEncodings == {"NANOMIPS", "VU_UPPER", "VU_LOWER"}

EncodingContexts ==
  [cpu : {"ANY", "R5900", "74KC", "I6400_FPU_MSA"}, rev : {"NONE", "III", "32R6"},
   enc : OtherEncodings, api : {"V2", "V3"}]

EncodingAsked ==
  {"R5900", "R5900_VU0", "R5900_VU1", "DSP", "DSPR2", "DSPR3", "FPU", "MSA"}

AllContexts == NamedContexts \cup GenericContexts \cup EncodingContexts

AskedOf(p) ==
  IF p.enc \in OtherEncodings THEN EncodingAsked
  ELSE IF p.cpu = "ANY" THEN GenericAsked
  ELSE NamedFamilies

\* A context of the generic processor in a compact encoding.
CompactContexts == [cpu : {"ANY"}, rev : {"III"}, enc : {"MIPS16"}, api : {"V3"}]
CompactAsked(p) == {"FPU", "LOONGSON2E"}

\* cmake -DUSE_MIPS_LOONGSON2E=OFF
WithoutLoongson2E == Families \ {"LOONGSON2E"}
PartialContexts ==
  [cpu : {"LOONGSON2E", "LOONGSON2F"}, rev : {"NONE"}, enc : {"STANDARD"}, api : {"V1"}]

=============================================================================
