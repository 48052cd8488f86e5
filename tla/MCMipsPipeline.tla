--------------------------- MODULE MCMipsPipeline ---------------------------
(***************************************************************************)
(* Constant values for the run of MipsPipeline.                            *)
(***************************************************************************)
EXTENDS MipsPipeline

AllBuilt == Families

Named == {"R4000", "74KC", "ALLEGREX", "R5900", "OCTEON", "OCTEONP", "LOONGSON2E",
          "LOONGSON2F", "LOONGSON3A3000", "LOONGSON3A4000", "XLR", "XLP",
          "I6400_FPU_MSA", "P5600_FPU_MSA"}

Request(c, m, r, fpr32) == [cpu |-> c, mode |-> m, rev |-> r, fpr32 |-> fpr32]

\* CPU_ANY at every revision and mode, with paired registers where the two
\* layouts differ; one processor of every encoding space at its own revision.
AllCallers ==
  {k \in {Request("ANY", m, r, fpr32) : m \in Modes, r \in Revisions, fpr32 \in BOOLEAN} :
     RevisionSupportsMode(k.rev, k.mode) /\ (k.fpr32 => k.rev \in {"III", "64R1", "64R2"})}
  \cup {Request(c, m, CpuRevision(c), FALSE) : c \in Named, m \in Modes}

\* Every family one of the words belongs to, or that a vendor claims it with.
WordFamilies ==
  {"FPU", "DSPR2", "DSPR3", "MSA", "MDMX", "COP2", "CNMIPS", "CNMIPSP",
   "LOONGSON2E", "LOONGSON2F", "LOONGSON_EXT", "LOONGSON_CAM", "LOONGSIMD",
   "LOONGASX", "ALLEGREX", "R5900", "R5900_VU0", "MXU", "MXU2", "MXU3", "MXU3_1",
   "XLR", "XLP"}

=============================================================================
