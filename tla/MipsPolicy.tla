----------------------------- MODULE MipsPolicy -----------------------------
(***************************************************************************)
(* What the MIPS decoder makes of a processor, a mode, a revision, an      *)
(* encoding and a set of requested families before it looks at a single    *)
(* code byte: the argument checks of cdisasm_mips_decode and of prepare_v2 *)
(* in src/src/mips/cdisasm_mips.c, up to the zero-length check.            *)
(*                                                                         *)
(* A request is accepted when decoding zero bytes answers END_OF_INPUT,    *)
(* the probe context_to_v2 itself uses.                                    *)
(***************************************************************************)
EXTENDS MipsFamilies

\* Encoding spaces that share no processor with MIPS16, microMIPS, nanoMIPS.
PrivateSpaces ==
  {"ALLEGREX", "R5900", "LOONGSON", "CNMIPS", "MXU", "MXU2", "MXU3", "XLR",
   "XLP"}

\* The encoding checks of prepare_v2.
EncodingRefused(c, m, r, e, requested) ==
  \/ e \in VuWords /\ ~(m = 64 /\ r = "III" /\ "R5900" \in CpuFamilies(c))
  \/ /\ e \in Compact
     /\ \/ c # "ANY" /\ CpuFamilies(c) \cap PrivateSpaces # {}
        \/ requested \cap PrivateSpaces # {}
  \/ e = "MIPS16" /\ r \in R6
  \/ e = "NANOMIPS" /\ ~(m = 32 /\ r = "32R6")

FprBit(fpr32) == IF fpr32 THEN {"FPR32"} ELSE {}

\* The families a decode runs with: an explicit request is restricted to what
\* the revision supports, no request selects the default.
EffectiveFamilies(c, m, r, e, requested, explicit) ==
  LET supported == EncodingFamilies(c, m, r, e)
  IN  IF requested # {} \/ explicit THEN requested \cap supported
      ELSE IF e \in VuWords THEN supported \cap {"R5900", "R5900_VU0"}
      ELSE DefaultFamilies(c, supported, r)

\* apply_cpu_policy: an R5900, selected or physical, has paired FPRs.
PolicyBits(c, effective) ==
  IF \/ "R5900" \in effective
     \/ c # "ANY" /\ "R5900" \in CpuFamilies(c)
  THEN {"FPR32"} ELSE {}

RevisionAccepted(c, m, r) ==
  /\ m \in CpuModes(c)
  /\ RevisionSupportsMode(r, m)
  /\ c = "ANY" \/ r = CpuRevision(c)

\* Only the standard decoder refuses a request for MSA with FPR32 before it
\* looks at the build; prepare_v2 refuses it in the effective set.
RequestRefused(e, options) ==
  IF e = "STANDARD" THEN Rejected(options) ELSE ConflictingFeatures(options)

\* The status of decoding zero bytes.
EmptyInputStatus(c, m, r, e, requested, explicit, fpr32) ==
  LET effective == EffectiveFamilies(c, m, r, e, requested, explicit)
  IN  IF \/ ~RevisionAccepted(c, m, r)
         \/ EncodingRefused(c, m, r, e, requested)
         \/ fpr32 /\ r \in R6
         \/ RequestRefused(e, requested \cup FprBit(fpr32))
         \/ ~Closed(requested)
      THEN "INVALID_ARGUMENT"
      ELSE IF ~(requested \subseteq BuildFamilies)
      THEN "UNSUPPORTED_INSTRUCTION"
      ELSE IF Rejected(effective \cup FprBit(fpr32) \cup PolicyBits(c, effective))
      THEN "INVALID_ARGUMENT"
      ELSE "END_OF_INPUT"

Statuses == {"INVALID_ARGUMENT", "UNSUPPORTED_INSTRUCTION", "END_OF_INPUT"}

=============================================================================
