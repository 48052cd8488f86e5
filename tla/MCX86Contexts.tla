--------------------------- MODULE MCX86Contexts ---------------------------
(***************************************************************************)
(* Constant values for X86Contexts: every processor in every mode and in   *)
(* one that does not exist, two umbrellas with a flag each of those they   *)
(* cover, and families of every mode, opt-in and not.  The tables are the  *)
(* program's and not parameters: that they cover what is decoded is checked*)
(* here, once.                                                             *)
(***************************************************************************)
EXTENDS X86Contexts

ASSUME TablesAssumption == TablesCover /\ GenericCovers

EveryRequest == [cpu : Processors, mode : CpuModes \cup {8}]

SomeFlags ==
  {"AVX512", "VNNI", "AES", "VAES", "SSE4", "SSE41", "BITMANIP", "BMI1"}

SomeFamilies ==
  {"X87", "SSE4", "AVX512_EVEX", "AVX10", "3DNOW", "TDX", "INTEL_VMX"}

=============================================================================
