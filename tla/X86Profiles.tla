---------------------------- MODULE X86Profiles ----------------------------
(***************************************************************************)
(* What each x86 processor has: the tables cpu_capabilities,               *)
(* cpu_extra_capabilities and cpu_extra_capabilities_high of               *)
(* src/src/x86/x86_decoder.c, and the decode flags and families derived    *)
(* from them.  Capabilities that decide neither a flag, a family nor an    *)
(* instruction of X86Contexts are left out.                                *)
(***************************************************************************)
EXTENDS Naturals

CpuModes == {16, 32, 64}

\* The processors by when they run: 16-bit code only, 16 and 32, all modes.
Only16 ==
  {"8086", "80186", "80286", "8086_8087", "80186_80187", "80286_80287"}
Upto32 ==
  {"80386", "80386_80387", "80486", "80486_CPUID", "PENTIUM", "PENTIUM_PRO",
   "PENTIUM_MMX", "PENTIUM_II", "AMD_K6_2", "PENTIUM_III", "PENTIUM_4"}
Upto64 ==
  {"X86", "ATHLON_64", "PRESCOTT", "INTEL_VT_X", "AMD_V", "CORE_2", "PENRYN",
   "AMD_BARCELONA", "NEHALEM", "WESTMERE", "SANDY_BRIDGE", "AMD_BULLDOZER",
   "IVY_BRIDGE", "HASWELL", "BROADWELL", "SKYLAKE", "GOLDMONT", "AMD_ZEN",
   "SKYLAKE_SP", "ICE_LAKE", "TIGER_LAKE", "ALDER_LAKE", "AMD_ZEN_4",
   "SAPPHIRE_RAPIDS", "AVX10", "APX", "CELERON_G1840", "CELERON_G3900",
   "CELERON_N3350", "CELERON_N4020", "CELERON_G5900", "PENTIUM_SILVER_N6000",
   "GRANITE_RAPIDS", "ARROW_LAKE", "DIAMOND_RAPIDS", "KNIGHTS_MILL"}

Processors == Only16 \cup Upto32 \cup Upto64

Runs(cpu, mode) ==
  \/ mode = 16
  \/ mode = 32 /\ cpu \notin Only16
  \/ mode = 64 /\ cpu \in Upto64

-----------------------------------------------------------------------------
(* The core capabilities, each generation over an earlier one.             *)

Caps186 == {"80186"}
Caps286 == Caps186 \cup {"80286"}
Caps386 == Caps286 \cup {"80386"}
Caps486 == Caps386 \cup {"80486", "X87"}
CapsCpuid == Caps486 \cup {"CPUID"}
CapsPentium == CapsCpuid \cup {"PENTIUM"}
CapsMmx == CapsPentium \cup {"MMX"}
CapsPentium2 == CapsMmx \cup {"P6", "FXSR"}
CapsPentium4 == CapsPentium2 \cup {"SSE", "SSE2", "PAUSE", "CLFLUSH"}
CapsAmd64 ==
  CapsMmx \cup {"P6", "PAUSE", "SSE", "SSE2", "CLFLUSH", "FXSR"}
CapsK6 == CapsMmx \cup {"3DNOW", "PREFETCH", "PREFETCHW"}
CapsAthlon64 == CapsAmd64 \cup CapsK6
CapsPrescott == CapsPentium4 \cup {"SSE3", "MONITOR"}
CapsCore2 == CapsPrescott \cup {"VMX", "SMX", "SSSE3"}
CapsAmdV == CapsAthlon64 \cup {"SVM", "SSE3"}
CapsBulldozer ==
  CapsAmd64 \cup {"SVM", "POPCNT", "LZCNT", "PREFETCH", "PREFETCHW", "AVX",
                  "SSE3", "SSSE3", "SSE41", "SSE4A", "SSE42", "MONITOR"}
CapsNehalem == CapsCore2 \cup {"SSE41", "POPCNT", "SSE42"}
CapsSandyBridge == CapsNehalem \cup {"AVX"}
CapsBroadwell ==
  CapsSandyBridge \cup {"VMFUNC", "LZCNT", "BMI1", "HLE", "AVX2", "PREFETCHW"}
CapsZen == CapsBulldozer \cup {"BMI1", "AVX2"}
CapsLowEnd ==
  CapsPrescott \cup {"VMX", "POPCNT", "SSSE3", "SSE41", "SSE42"}
CapsAtom == CapsLowEnd \cup {"PREFETCHW", "VMFUNC", "CLFLUSHOPT"}

AllCaps ==
  CapsBroadwell \cup CapsK6 \cup CapsZen
    \cup {"3DNOW_EXT", "CLFLUSHOPT", "CLWB", "SEV_ES", "CET_IBT"}

\* cpu_capabilities
Caps == [cpu \in Processors |->
  CASE cpu = "X86" -> AllCaps
    [] cpu = "8086" -> {}
    [] cpu = "8086_8087" -> {"X87"}
    [] cpu = "80186" -> Caps186
    [] cpu = "80186_80187" -> Caps186 \cup {"X87"}
    [] cpu = "80286" -> Caps286
    [] cpu = "80286_80287" -> Caps286 \cup {"X87"}
    [] cpu = "80386" -> Caps386
    [] cpu = "80386_80387" -> Caps386 \cup {"X87"}
    [] cpu = "80486" -> Caps486
    [] cpu = "80486_CPUID" -> CapsCpuid
    [] cpu = "PENTIUM" -> CapsPentium
    [] cpu = "PENTIUM_PRO" -> CapsPentium \cup {"P6"}
    [] cpu = "PENTIUM_MMX" -> CapsMmx
    [] cpu = "AMD_K6_2" -> CapsK6
    [] cpu = "PENTIUM_II" -> CapsPentium2
    [] cpu = "PENTIUM_III" -> CapsPentium2 \cup {"SSE"}
    [] cpu = "PENTIUM_4" -> CapsPentium4
    [] cpu = "ATHLON_64" -> CapsAthlon64 \cup {"3DNOW_EXT"}
    [] cpu = "AMD_V" -> CapsAmdV \cup {"3DNOW_EXT"}
    [] cpu = "AMD_BARCELONA" ->
         CapsAmdV \cup {"3DNOW_EXT", "POPCNT", "LZCNT", "SSE4A"}
    [] cpu = "PRESCOTT" -> CapsPrescott
    [] cpu = "INTEL_VT_X" -> CapsPrescott \cup {"VMX"}
    [] cpu = "CORE_2" -> CapsCore2
    [] cpu = "PENRYN" -> CapsCore2 \cup {"SSE41"}
    [] cpu \in {"NEHALEM", "WESTMERE"} -> CapsNehalem
    [] cpu \in {"SANDY_BRIDGE", "IVY_BRIDGE"} -> CapsSandyBridge
    [] cpu = "HASWELL" -> CapsBroadwell \ {"PREFETCHW"}
    [] cpu = "BROADWELL" -> CapsBroadwell
    [] cpu = "SKYLAKE" -> CapsBroadwell \cup {"CLFLUSHOPT"}
    [] cpu = "SKYLAKE_SP" -> CapsBroadwell \cup {"CLFLUSHOPT", "CLWB"}
    [] cpu = "ICE_LAKE" -> (CapsBroadwell \ {"HLE"}) \cup {"CLFLUSHOPT"}
    [] cpu = "GOLDMONT" ->
         (CapsBroadwell \ {"HLE", "AVX", "AVX2"}) \cup {"CLFLUSHOPT"}
    [] cpu \in {"TIGER_LAKE", "ALDER_LAKE", "ARROW_LAKE"} ->
         (CapsBroadwell \ {"HLE"}) \cup {"CET_IBT", "CLFLUSHOPT", "CLWB"}
    [] cpu \in {"AVX10", "APX"} -> (CapsBroadwell \ {"HLE"}) \cup {"CET_IBT"}
    [] cpu \in {"SAPPHIRE_RAPIDS", "GRANITE_RAPIDS", "DIAMOND_RAPIDS"} ->
         CapsBroadwell \cup {"CET_IBT", "CLFLUSHOPT", "CLWB"}
    [] cpu = "KNIGHTS_MILL" ->
         CapsSandyBridge \cup {"AVX2", "LZCNT", "BMI1", "PREFETCHW", "VMFUNC"}
    [] cpu = "AMD_BULLDOZER" -> CapsBulldozer
    [] cpu = "AMD_ZEN" -> CapsZen \cup {"CLFLUSHOPT"}
    [] cpu = "AMD_ZEN_4" ->
         CapsZen \cup {"SEV_ES", "CET_IBT", "CLFLUSHOPT", "CLWB"}
    [] cpu = "CELERON_G1840" -> CapsLowEnd
    [] cpu \in {"CELERON_G3900", "CELERON_G5900"} ->
         CapsLowEnd \cup {"CLFLUSHOPT"}
    [] cpu \in {"CELERON_N3350", "CELERON_N4020"} -> CapsAtom
    [] cpu = "PENTIUM_SILVER_N6000" -> CapsAtom \cup {"CLWB"}]

-----------------------------------------------------------------------------
(* The optional capabilities, named by the group that needs them.          *)

Aes == {"AESNI", "PCLMULQDQ"}
AvxCommon == {"F16C", "FMA3", "BMI1", "BMI2"}
VectorCrypto == {"VAES", "VPCLMULQDQ"}
Crypto == Aes \cup AvxCommon \cup VectorCrypto \cup {"GFNI", "SHA"}
ArrowCrypto == {"SHA512", "SM3", "SM4"}
Avx512Core == {"AVX512F", "AVX512CD", "AVX512DQ", "AVX512BW", "AVX512VL"}
Avx512Late ==
  Avx512Core \cup {"AVX512IFMA", "AVX512VBMI", "AVX512VBMI2",
                   "AVX512VPOPCNTDQ", "AVX512BITALG", "AVX512VNNI"}
Entropy == {"RDRAND", "XSAVE"}
Client == Entropy \cup {"ADX", "PKU"}
AvxVnni8 == {"AVX_VNNI_INT8", "AVX_VNNI_INT16"}
Server ==
  Crypto \cup Avx512Late \cup Client
    \cup {"AVX_VNNI", "AMX_TILE", "AMX_INT8", "AMX_BF16", "RTM", "TSX_LDTRK",
          "CET_SS"}
Avx10 ==
  Crypto \cup Client
    \cup {"AVX_VNNI", "AVX10_1", "AVX10_2", "AVX512VL", "CET_SS"}
Diamond ==
  Server \cup ArrowCrypto \cup AvxVnni8
    \cup {"AMX_FP16", "AMX_COMPLEX", "AMX_FP8", "AMX_MOVRS", "AMX_AVX512",
          "AVX10_1", "AVX10_2", "APX_F"}

AllExtras ==
  Diamond \cup Avx10 \cup {"XOP", "FMA4", "SGX", "TBM", "AVX512ER"}

\* cpu_extra_capabilities and cpu_extra_capabilities_high
Extras == [cpu \in Processors |->
  CASE cpu = "X86" -> AllExtras
    [] cpu = "NEHALEM" -> {"XSAVE"}
    [] cpu \in {"WESTMERE", "SANDY_BRIDGE"} -> Aes \cup {"XSAVE"}
    [] cpu = "IVY_BRIDGE" -> Aes \cup Entropy \cup {"F16C"}
    [] cpu = "HASWELL" -> Aes \cup AvxCommon \cup Entropy \cup {"RTM"}
    [] cpu = "BROADWELL" -> Aes \cup AvxCommon \cup Entropy \cup {"RTM", "ADX"}
    [] cpu = "SKYLAKE" -> Aes \cup AvxCommon \cup Client \cup {"RTM", "SGX"}
    [] cpu = "SKYLAKE_SP" ->
         Aes \cup AvxCommon \cup Avx512Core \cup Client \cup {"RTM", "SGX"}
    [] cpu = "ICE_LAKE" -> Crypto \cup Avx512Late \cup Client \cup {"SGX"}
    [] cpu = "TIGER_LAKE" ->
         Crypto \cup Avx512Late \cup Client \cup {"SGX", "CET_SS"}
    [] cpu = "ALDER_LAKE" -> Crypto \cup Client \cup {"AVX_VNNI", "CET_SS"}
    [] cpu = "ARROW_LAKE" ->
         Crypto \cup Client \cup ArrowCrypto \cup AvxVnni8
           \cup {"AVX_VNNI", "CET_SS"}
    [] cpu = "SAPPHIRE_RAPIDS" -> Server \cup {"SGX"}
    [] cpu = "GRANITE_RAPIDS" ->
         Server \cup {"AMX_FP16", "AMX_COMPLEX", "AVX10_1"}
    [] cpu = "DIAMOND_RAPIDS" -> Diamond
    [] cpu = "KNIGHTS_MILL" ->
         Aes \cup AvxCommon \cup {"AVX512F", "AVX512CD", "AVX512ER",
                                  "AVX512VPOPCNTDQ", "RDRAND", "ADX"}
    [] cpu = "AMD_BULLDOZER" -> Aes \cup {"XOP", "FMA4", "XSAVE"}
    [] cpu = "AMD_ZEN" -> Aes \cup AvxCommon \cup Entropy \cup {"SHA", "ADX"}
    [] cpu = "AMD_ZEN_4" ->
         Crypto \cup Avx512Late \cup Entropy \cup {"ADX", "CET_SS"}
    [] cpu \in {"GOLDMONT", "CELERON_N3350", "CELERON_N4020"} ->
         Aes \cup Entropy \cup {"SHA"}
    [] cpu = "CELERON_G1840" -> Entropy
    [] cpu \in {"CELERON_G3900", "CELERON_G5900"} -> Aes \cup Entropy \cup {"ADX"}
    [] cpu = "PENTIUM_SILVER_N6000" -> Aes \cup Entropy \cup {"SHA", "GFNI"}
    [] cpu = "AVX10" -> Avx10
    [] cpu = "APX" -> Avx10 \cup {"APX_F"}
    [] OTHER -> {}]

-----------------------------------------------------------------------------
(* The decode flags (bitmap 0) and the families.                           *)

AmxFlags ==
  {"AMX", "AMX_TILE", "AMX_INT8", "AMX_BF16", "AMX_FP16", "AMX_COMPLEX",
   "AMX_FP8", "AMX_MOVRS", "AMX_AVX512"}
\* The flags that refine AVX512 and are also given by AVX10.1, and the others.
Avx10Slices ==
  {"VBMI", "VNNI", "VBMI2", "VPOPCNTDQ", "BITALG", "CD"}
Avx512Slices == Avx10Slices \cup {"IFMA", "DQ", "BW"}

Flags ==
  {"FPU", "MMX", "3DNOW", "SSE", "SSE2", "SSE3", "SSSE3", "SSE4", "SSE41",
   "SSE42", "SSE4A", "AVX", "AVX2", "F16C", "FMA3", "XOP", "FMA4", "AES",
   "VAES", "PCLMUL", "VPCLMULQDQ", "SHA", "SHA512", "SM3", "SM4", "GFNI",
   "BITMANIP", "BMI1", "BMI2", "AVX512", "COMPRESS_EXPAND", "AVX10", "APX",
   "SMX", "VMX", "SVM", "SYSTEM", "CET", "STATE", "TRANSACTIONAL", "SECURITY",
   "MEMORY_HINTS", "UNDOCUMENTED", "AVX_VNNI", "AVX_VNNI_INT8",
   "AVX_VNNI_INT16"} \cup Avx512Slices \cup AmxFlags

\* What gives a named processor a flag: any of these core capabilities, or
\* any of these optional ones.
CoreSource(flag) ==
  CASE flag = "FPU" -> {"X87"}
    [] flag = "3DNOW" -> {"3DNOW", "3DNOW_EXT"}
    [] flag = "SSE4" -> {"SSE41", "SSE4A", "SSE42"}
    [] flag = "BITMANIP" -> {"LZCNT", "POPCNT", "BMI1"}
    [] flag = "SVM" -> {"SVM", "SEV_ES"}
    [] flag = "CET" -> {"CET_IBT"}
    [] flag = "STATE" -> {"FXSR"}
    [] flag = "TRANSACTIONAL" -> {"HLE"}
    [] flag = "MEMORY_HINTS" ->
         {"PREFETCH", "PREFETCHW", "PAUSE", "SSE", "CLFLUSH", "CLFLUSHOPT",
          "CLWB"}
    [] flag \in {"MMX", "SSE", "SSE2", "SSE3", "SSSE3", "SSE41", "SSE42",
                 "SSE4A", "AVX", "AVX2", "BMI1", "SMX", "VMX"} -> {flag}
    [] OTHER -> {}

ExtraSource(flag) ==
  CASE flag = "AES" -> {"AESNI", "VAES"}
    [] flag = "PCLMUL" -> {"PCLMULQDQ", "VPCLMULQDQ"}
    [] flag = "SHA" -> {"SHA", "SHA512"}
    [] flag = "SECURITY" -> {"RDRAND", "SGX", "PKU"}
    [] flag = "TRANSACTIONAL" -> {"RTM", "TSX_LDTRK"}
    [] flag = "STATE" -> {"XSAVE"}
    [] flag = "BITMANIP" -> {"TBM", "BMI1", "BMI2", "ADX"}
    [] flag = "CET" -> {"CET_SS"}
    [] flag = "AVX10" -> {"AVX10_1", "AVX10_2"}
    [] flag = "AVX512" -> {"AVX512F"}
    [] flag = "COMPRESS_EXPAND" -> {"AVX512F", "AVX10_1"}
    [] flag = "APX" -> {"APX_F"}
    [] flag = "AMX" ->
         {"AMX_TILE", "AMX_COMPLEX", "AMX_FP8", "AMX_MOVRS", "AMX_AVX512"}
    [] flag = "CD" -> {"AVX512CD", "AVX10_1"}
    [] flag = "VBMI" -> {"AVX512VBMI", "AVX10_1"}
    [] flag = "VNNI" -> {"AVX512VNNI", "AVX10_1"}
    [] flag = "VBMI2" -> {"AVX512VBMI2", "AVX10_1"}
    [] flag = "VPOPCNTDQ" -> {"AVX512VPOPCNTDQ", "AVX10_1"}
    [] flag = "BITALG" -> {"AVX512BITALG", "AVX10_1"}
    [] flag = "IFMA" -> {"AVX512IFMA"}
    [] flag = "DQ" -> {"AVX512DQ"}
    [] flag = "BW" -> {"AVX512BW"}
    [] OTHER -> {flag}

Only64Flags == AmxFlags \cup {"APX"}

\* cdisasm_x86_cpu_decode_flag_mask
FlagMask(cpu, mode) ==
  {flag \in Flags :
     /\ mode = 64 \/ flag \notin Only64Flags
     /\ \/ cpu = "X86"
        \/ flag \in {"SYSTEM", "UNDOCUMENTED"}
        \/ CoreSource(flag) \cap Caps[cpu] # {}
        \/ ExtraSource(flag) \cap Extras[cpu] # {}}

Families ==
  {"AVX512_EVEX", "APX_EVEX", "AVX2_GATHER", "FRED", "TDX", "VIA_PADLOCK",
   "X87", "MOVRS", "INTEL_VMX", "AMD_SVM", "MMX", "3DNOW", "SSE", "SSE2",
   "SSE3", "SSSE3", "SSE4", "AVX", "AVX2", "F16C", "FMA3", "XOP", "FMA4",
   "AES", "PCLMUL", "SHA", "GFNI", "BITMANIP", "AVX10", "AMX"}

\* CDISASM_X86_FAMILY_MASK_DEFAULT
OptIn ==
  {"FRED", "TDX", "VIA_PADLOCK", "INTEL_VMX", "AMD_SVM", "3DNOW", "XOP",
   "FMA4"}

\* The modes of the family descriptors.
FamilyModes(family) ==
  CASE family \in {"AVX512_EVEX", "APX_EVEX", "AVX2_GATHER", "FRED", "TDX",
                   "MOVRS", "AVX10", "AMX"} -> {64}
    [] family \in {"X87", "MMX"} -> CpuModes
    [] OTHER -> {32, 64}

\* The families shown by the exact ISA_SET bits of a processor, those of the
\* generated table x86_cpu_isa_set_flag_masks that stand for a family.
ExactFamilies(cpu, mode) ==
  {family \in Families :
     CASE family = "AVX512_EVEX" ->
            cpu \in {"X86", "DIAMOND_RAPIDS", "GRANITE_RAPIDS", "SKYLAKE_SP",
                     "ICE_LAKE", "TIGER_LAKE", "SAPPHIRE_RAPIDS", "AVX10",
                     "APX", "KNIGHTS_MILL", "AMD_ZEN_4"}
       [] family = "APX_EVEX" ->
            mode = 64 /\ cpu \in {"X86", "DIAMOND_RAPIDS", "APX", "ARROW_LAKE"}
       [] family = "AVX2_GATHER" ->
            cpu \in {"X86", "DIAMOND_RAPIDS", "GRANITE_RAPIDS", "SKYLAKE_SP",
                     "ICE_LAKE", "TIGER_LAKE", "SAPPHIRE_RAPIDS", "AVX10",
                     "APX", "KNIGHTS_MILL", "AMD_ZEN_4", "HASWELL",
                     "BROADWELL", "SKYLAKE", "ALDER_LAKE", "ARROW_LAKE",
                     "AMD_ZEN"}
       [] family = "FRED" -> mode = 64 /\ cpu \in {"X86", "DIAMOND_RAPIDS"}
       [] family = "TDX" -> cpu \in {"X86", "DIAMOND_RAPIDS", "GRANITE_RAPIDS"}
       [] family = "VIA_PADLOCK" -> cpu = "X86"
       [] family = "MOVRS" ->
            \/ cpu \in {"X86", "DIAMOND_RAPIDS"}
            \/ mode = 64 /\ cpu \in {"AVX10", "APX"}
       [] family = "INTEL_VMX" ->
            cpu \in Upto64 \ {"ATHLON_64", "PRESCOTT", "AMD_V",
                              "AMD_BARCELONA", "AMD_BULLDOZER", "AMD_ZEN",
                              "AMD_ZEN_4"}
       [] OTHER -> FALSE}

\* The families of which a flag of bitmap 0 is a sign.
FlagFamilies(flags) ==
  {family \in Families :
     CASE family = "X87" -> "FPU" \in flags
       [] family = "SSE4" -> flags \cap {"SSE4", "SSE41", "SSE42", "SSE4A"} # {}
       [] family = "AES" -> flags \cap {"AES", "VAES"} # {}
       [] family = "PCLMUL" -> flags \cap {"PCLMUL", "VPCLMULQDQ"} # {}
       [] family = "SHA" -> flags \cap {"SHA", "SHA512"} # {}
       [] family = "BITMANIP" -> flags \cap {"BITMANIP", "BMI1", "BMI2"} # {}
       [] family = "AMX" -> flags \cap AmxFlags # {}
       [] family = "AVX512_EVEX" -> "AVX512" \in flags
       [] family = "APX_EVEX" -> "APX" \in flags
       [] family = "INTEL_VMX" -> "VMX" \in flags
       [] family = "AMD_SVM" -> "SVM" \in flags
       [] family = "MOVRS" -> "AMX_MOVRS" \in flags
       [] OTHER -> family \in flags}

\* cdisasm_x86_family_mask_from_flags for the flags a processor has: the
\* exact bits are part of the same flags words.
FamiliesFromFlags(cpu, mode) ==
  FlagFamilies(FlagMask(cpu, mode)) \cup ExactFamilies(cpu, mode)

\* The family mask of a new context.
FamilyMask(cpu, mode) ==
  {family \in FamiliesFromFlags(cpu, mode) : mode \in FamilyModes(family)}

=============================================================================
