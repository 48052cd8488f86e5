---------------------------- MODULE X86Contexts ----------------------------
(***************************************************************************)
(* x86 decode contexts (src/src/x86/cdisasm_x86.c): what the instructions  *)
(* a processor decodes ask of the flags and of the families, and the calls *)
(* by which a caller creates a context, edits it and decodes with it.      *)
(* There is an instruction of every kind that the decode flags tell apart, *)
(* all of them decoded by the hand-written decoder.                        *)
(***************************************************************************)
EXTENDS X86Profiles, FiniteSets, Sequences

CONSTANTS
  Requests,       \* the contexts that are created: processor and mode
  EditedFlags,    \* the flags a caller sets and clears
  EditedFamilies, \* the families it adds and removes
  MaxEdits        \* by how many of them a context differs from a new one

ASSUME RequestsAssumption ==
  /\ \A r \in Requests : r.cpu \in Processors
  /\ EditedFlags \subseteq Flags /\ EditedFamilies \subseteq Families
  /\ MaxEdits \in Nat

VARIABLES
  context,   \* the caller's cdisasm_x86_decode_context
  returned   \* what the last call returned

contextVars == <<context, returned>>

-----------------------------------------------------------------------------
(* The instructions, by the capabilities their encodings need.             *)

\* EVEX instructions: the AVX-512 subsets that each needs, AVX10.1 being the
\* other way to have any of them.
EvexNeeds ==
  [VADDPS_512   |-> {"AVX512F"},
   VADDPS_128   |-> {"AVX512F", "AVX512VL"},
   VPADDB_512   |-> {"AVX512F", "AVX512BW"},
   VPDPBUSD_512 |-> {"AVX512F", "AVX512VNNI"},
   VPOPCNTB     |-> {"AVX512F", "AVX512BITALG"},
   VPERMB       |-> {"AVX512F", "AVX512VBMI"},
   VPCONFLICTD  |-> {"AVX512F", "AVX512CD"},
   VPCOMPRESSD  |-> {"AVX512F"}]

EvexForms == DOMAIN EvexNeeds

\* Core capabilities, of the others.
CoreNeeds ==
  [NOP |-> {}, WAIT |-> {}, SALC |-> {}, INT1 |-> {"80386"},
   FADD |-> {"X87"}, FISTTP |-> {"X87", "SSE3"}, EMMS |-> {"MMX"},
   FEMMS |-> {"3DNOW"}, ADDPS |-> {"SSE"}, ADDPD |-> {"SSE2"}, PAUSE |-> {},
   PREFETCHW |-> {"PREFETCHW"}, PREFETCHT0 |-> {"SSE"},
   CLFLUSH |-> {"CLFLUSH"}, CLWB |-> {"CLWB"}, HADDPD |-> {"SSE3"},
   PTEST |-> {"SSE41"}, PCMPGTQ |-> {"SSE42"}, EXTRQ |-> {"SSE4A"},
   VADDPS |-> {"AVX"}, VPADDB |-> {"AVX", "AVX2"}, VFMADD |-> {"AVX"},
   VCVTPH2PS |-> {"AVX"}, AESENC |-> {"SSE2"}, VAESENC_128 |-> {"AVX"},
   VAESENC_256 |-> {"AVX"}, PCLMULQDQ |-> {"SSE2"}, SHA1NEXTE |-> {"SSE2"},
   VSHA512MSG1 |-> {"AVX"}, VSM4RNDS4 |-> {"AVX"}, VPDPBUSD |-> {"AVX"},
   ANDN |-> {"AVX", "BMI1"}, MULX |-> {"AVX"}, LZCNT |-> {"80386"},
   POPCNT |-> {"POPCNT"}, ADCX |-> {"80386"}, GF2P8MULB |-> {"SSE2"},
   VADDBF16 |-> {"AVX"}, VPHADDBD |-> {"AVX"}, VFMADDPS4 |-> {"AVX"},
   VMCALL |-> {"VMX"}, VMFUNC |-> {"VMX", "VMFUNC"}, VMRUN |-> {"SVM"},
   GETSEC |-> {"SMX"}, XSAVE |-> {}, FXSAVE |-> {"FXSR"},
   CPUID |-> {"CPUID"}, RDTSC |-> {"PENTIUM"}, RDMSR |-> {"PENTIUM"},
   WBINVD |-> {"80486"}, MONITOR |-> {"MONITOR"}, RDRAND |-> {},
   XEND |-> {}, ENDBR |-> {"P6"}, RDPKRU |-> {}, TILEZERO |-> {},
   TDPBSSD |-> {}, ADD_APX |-> {}, SEAMCALL |-> {}, XSTORE |-> {}]

\* Optional capabilities.
ExtraNeeds(form) ==
  CASE form = "VFMADD" -> {"FMA3"}
    [] form = "VCVTPH2PS" -> {"F16C"}
    [] form \in {"AESENC", "VAESENC_128"} -> {"AESNI"}
    [] form = "VAESENC_256" -> {"VAES"}
    [] form = "PCLMULQDQ" -> {"PCLMULQDQ"}
    [] form = "SHA1NEXTE" -> {"SHA"}
    [] form = "VSHA512MSG1" -> {"SHA512"}
    [] form = "VSM4RNDS4" -> {"SM4"}
    [] form = "VPDPBUSD" -> {"AVX_VNNI"}
    [] form = "MULX" -> {"BMI2"}
    [] form = "ADCX" -> {"ADX"}
    [] form = "GF2P8MULB" -> {"GFNI"}
    [] form = "VADDBF16" -> {"AVX10_2"}
    [] form = "VPHADDBD" -> {"XOP"}
    [] form = "VFMADDPS4" -> {"FMA4"}
    [] form = "XSAVE" -> {"XSAVE"}
    [] form = "RDRAND" -> {"RDRAND"}
    [] form = "XEND" -> {"RTM"}
    [] form = "RDPKRU" -> {"PKU"}
    [] form = "TILEZERO" -> {"AMX_TILE"}
    [] form = "TDPBSSD" -> {"AMX_TILE", "AMX_INT8"}
    [] form = "ADD_APX" -> {"APX_F"}
    [] OTHER -> {}

Forms == EvexForms \cup DOMAIN CoreNeeds

Only64Forms == {"TILEZERO", "TDPBSSD", "ADD_APX", "SEAMCALL"}

\* The encodings that older processors read as another instruction: PAUSE is
\* NOP there, LZCNT is BSR, ENDBR a long NOP.
NewNeeds ==
  [PAUSE |-> {"PAUSE", "SSE2"}, LZCNT |-> {"LZCNT"}, ENDBR |-> {"CET_IBT"}]

ReadAnew(cpu, form) == form \in DOMAIN NewNeeds => NewNeeds[form] \subseteq Caps[cpu]

HasAvx512(cpu, form) == EvexNeeds[form] \subseteq Extras[cpu]

\* The hand-written decoder's answer on a processor.
Decodes(cpu, mode, form) ==
  /\ Runs(cpu, mode)
  /\ form \in Only64Forms => mode = 64
  /\ IF form \in EvexForms
     THEN "AVX" \in Caps[cpu] /\ (HasAvx512(cpu, form) \/ "AVX10_1" \in Extras[cpu])
     ELSE /\ CoreNeeds[form] \subseteq Caps[cpu]
          /\ ExtraNeeds(form) \subseteq Extras[cpu]
          /\ form = "XSTORE" => cpu = "X86"

\* The groups of the decoded instruction.
Groups(cpu, form) ==
  CASE form \in EvexForms ->
         {"AVX"} \cup IF HasAvx512(cpu, form) THEN EvexNeeds[form] ELSE {"AVX10_1"}
    [] form = "SEAMCALL" -> {"TDX"}
    [] form = "XSTORE" -> {"VIA_PADLOCK"}
    [] form \in DOMAIN NewNeeds /\ ReadAnew(cpu, form) -> NewNeeds[form]
    [] OTHER -> CoreNeeds[form] \cup ExtraNeeds(form)

-----------------------------------------------------------------------------
(* What an instruction asks of the flags.                                  *)

\* x86_group_decode_flag
GroupFlag(group) ==
  CASE group = "X87" -> {"FPU"}
    [] group = "AESNI" -> {"AES"}
    [] group = "PCLMULQDQ" -> {"PCLMUL"}
    [] group \in {"ADX", "LZCNT", "POPCNT"} -> {"BITMANIP"}
    [] group \in {"AVX512F", "AVX512VL"} -> {"AVX512"}
    [] group = "AVX512BW" -> {"BW"}
    [] group = "AVX512VNNI" -> {"VNNI"}
    [] group = "AVX512BITALG" -> {"BITALG"}
    [] group = "AVX512VBMI" -> {"VBMI"}
    [] group = "AVX512CD" -> {"CD"}
    [] group \in {"AVX10_1", "AVX10_2"} -> {"AVX10"}
    [] group = "APX_F" -> {"APX"}
    [] group \in {"RDRAND", "PKU"} -> {"SECURITY"}
    [] group = "RTM" -> {"TRANSACTIONAL"}
    [] group \in {"XSAVE", "FXSR"} -> {"STATE"}
    [] group = "CET_IBT" -> {"CET"}
    [] group \in {"CLWB", "CLFLUSH"} -> {"MEMORY_HINTS"}
    [] OTHER -> {group} \cap Flags

FpuNames == {"WAIT", "FADD", "FISTTP"}
UndocumentedNames == {"SALC", "INT1"}
MemoryHintNames == {"PAUSE", "PREFETCHW", "PREFETCHT0", "CLFLUSH", "CLWB"}
\* Privileged, or among the names of x86_name_is_system.
SystemNames ==
  {"VMCALL", "VMRUN", "GETSEC", "CPUID", "RDTSC", "RDMSR", "WBINVD",
   "MONITOR", "SEAMCALL", "XSTORE"}

\* The names with a flag of their own, whatever their groups.
NamedFlag ==
  [VPDPBUSD_512 |-> "VNNI", VPOPCNTB |-> "BITALG", VPERMB |-> "VBMI",
   VPCONFLICTD |-> "CD", VPCOMPRESSD |-> "COMPRESS_EXPAND"]

\* Of the flags of its groups the first of these.
FlagOrder ==
  <<"VMX", "SVM", "SMX", "CET", "STATE", "TRANSACTIONAL", "SECURITY",
    "MEMORY_HINTS", "SYSTEM", "APX", "AMX_AVX512", "AMX_MOVRS", "AMX_FP8",
    "AMX_COMPLEX", "AMX_FP16", "AMX_BF16", "AMX_INT8", "AMX_TILE", "AMX",
    "SM4", "SM3", "AVX10", "VAES", "AES", "VPCLMULQDQ", "PCLMUL", "SHA512",
    "SHA", "GFNI", "VBMI2", "VPOPCNTDQ", "BITALG", "CD", "IFMA", "VBMI",
    "VNNI", "DQ", "BW", "AVX512", "BMI2", "BMI1", "BITMANIP", "FMA4", "XOP",
    "FMA3", "F16C", "AVX_VNNI_INT16", "AVX_VNNI_INT8", "AVX_VNNI", "AVX2",
    "AVX", "SSE41", "SSE42", "SSE4A", "SSE4", "SSSE3", "SSE3", "SSE2", "SSE",
    "3DNOW", "MMX", "FPU">>

FirstFlag(flags) ==
  {f \in flags : \E i \in DOMAIN FlagOrder :
     f = FlagOrder[i] /\ \A j \in 1..(i - 1) : FlagOrder[j] \notin flags}

AllRequired(cpu, form) ==
  UNION {GroupFlag(g) : g \in Groups(cpu, form)}
    \cup (IF form \in SystemNames THEN {"SYSTEM"} ELSE {})
    \cup (IF form \in MemoryHintNames /\ ReadAnew(cpu, form)
          THEN {"MEMORY_HINTS"} ELSE {})

\* x86_instruction_decode_flags
Required(cpu, form) ==
  CASE form \in FpuNames -> {"FPU"}
    [] form \in DOMAIN NamedFlag -> {NamedFlag[form]}
    [] form \in UndocumentedNames -> {"UNDOCUMENTED"}
    [] OTHER -> FirstFlag(AllRequired(cpu, form))

Needed == [cpu \in Processors |-> [form \in Forms |-> Required(cpu, form)]]

\* A flag that stands for the flags added after it.
Umbrella(flag) ==
  CASE flag \in Avx512Slices \cup {"COMPRESS_EXPAND"} -> "AVX512"
    [] flag = "VAES" -> "AES"
    [] flag = "VPCLMULQDQ" -> "PCLMUL"
    [] flag = "SHA512" -> "SHA"
    [] flag \in AmxFlags -> "AMX"
    [] flag \in {"SSE41", "SSE42", "SSE4A"} -> "SSE4"
    [] flag \in {"BMI1", "BMI2"} -> "BITMANIP"
    [] OTHER -> flag

\* Mutant: the umbrellas forgotten.
Admits_Exact(flags, cpu, form) ==
  \A flag \in Needed[cpu][form] : flag \in flags \/ form = "XSTORE"

\* x86_decode_flags_admit: the exact bit of the PadLock instructions, which is
\* set wherever they are decoded, stands for SYSTEM.
Admits(flags, cpu, form) ==
  \A flag \in Needed[cpu][form] :
    \/ {flag, Umbrella(flag)} \cap flags # {}
    \/ form = "XSTORE" /\ flag = "SYSTEM"

-----------------------------------------------------------------------------
(* The family of an instruction.                                           *)

\* x86_direct_family_for_group
DirectFamily(group) ==
  CASE group \in {"SSE41", "SSE42", "SSE4A"} -> {"SSE4"}
    [] group \in {"AESNI", "VAES"} -> {"AES"}
    [] group = "PCLMULQDQ" -> {"PCLMUL"}
    [] group \in {"SHA", "SHA512"} -> {"SHA"}
    [] group \in {"BMI1", "BMI2", "LZCNT", "POPCNT", "ADX"} -> {"BITMANIP"}
    [] group \in {"AVX10_1", "AVX10_2"} -> {"AVX10"}
    [] group \in AmxFlags -> {"AMX"}
    [] group = "AVX_VNNI" -> {"AVX"}
    [] OTHER -> {group} \cap {"MMX", "3DNOW", "SSE", "SSE2", "SSE3", "AVX",
                              "AVX2", "F16C", "FMA3", "XOP", "FMA4", "GFNI"}

\* Of the families of its groups the last of these.
FamilyOrder ==
  <<"MMX", "3DNOW", "SSE", "SSE2", "SSE3", "SSE4", "AVX", "AVX2", "F16C",
    "FMA3", "XOP", "FMA4", "AES", "PCLMUL", "SHA", "GFNI", "BITMANIP",
    "AVX10", "AMX">>

LastFamily(families) ==
  {f \in families : \E i \in DOMAIN FamilyOrder :
     f = FamilyOrder[i]
     /\ \A j \in (i + 1)..Len(FamilyOrder) : FamilyOrder[j] \notin families}

\* cdisasm_x86_instruction_family: at most one.
FamilyOf(cpu, form) ==
  LET groups == Groups(cpu, form)
  IN IF "VMX" \in groups THEN {"INTEL_VMX"}
     ELSE IF "SVM" \in groups THEN {"AMD_SVM"}
     ELSE IF groups \cap {"TDX", "VIA_PADLOCK"} # {} THEN groups
     ELSE IF "APX_F" \in groups THEN {"APX_EVEX"}
     ELSE IF "AVX512F" \in groups THEN {"AVX512_EVEX"}
     ELSE IF "X87" \in groups THEN {"X87"}
     ELSE LastFamily(UNION {DirectFamily(g) : g \in groups})

Family == [cpu \in Processors |-> [form \in Forms |-> FamilyOf(cpu, form)]]

-----------------------------------------------------------------------------
(* The calls.                                                              *)

\* The context that a failed call leaves.
Cleared ==
  [cpu |-> "NONE", mode |-> 0, flags |-> {}, mask |-> {}, value |-> {}]

Flagged == [cpu \in Processors |-> [mode \in CpuModes |-> FlagMask(cpu, mode)]]
Available == [cpu \in Processors |-> [mode \in CpuModes |-> FamilyMask(cpu, mode)]]
Decodable ==
  [cpu \in Processors |->
     [mode \in CpuModes |-> {form \in Forms : Decodes(cpu, mode, form)}]]

\* Mutant: only what is selected can be selected again.
NewContext_DefaultMask(cpu, mode) ==
  IF mode \in CpuModes /\ Runs(cpu, mode)
  THEN [cpu |-> cpu, mode |-> mode, flags |-> Flagged[cpu][mode],
        mask |-> Available[cpu][mode] \ OptIn, value |-> Available[cpu][mode] \ OptIn]
  ELSE Cleared

\* cdisasm_x86_cpu_decode_context
NewContext(cpu, mode) ==
  IF mode \in CpuModes /\ Runs(cpu, mode)
  THEN [cpu |-> cpu, mode |-> mode, flags |-> Flagged[cpu][mode],
        mask |-> Available[cpu][mode], value |-> Available[cpu][mode] \ OptIn]
  ELSE Cleared

\* What cdisasm_x86_decode accepts of a processor, mode and flags.
Admitted(cpu, mode, flags) ==
  {form \in Decodable[cpu][mode] : Admits(flags, cpu, form)}

\* cdisasm_x86_decode_with_context: a cleared context names no processor, and
\* the decoder refuses it as an argument.
Accepted(c) ==
  IF c = Cleared THEN {}
  ELSE {form \in Admitted(c.cpu, c.mode, c.flags) :
          Family[c.cpu][form] \subseteq c.value}

\* By how much a caller has changed a context.
Difference(s, t) == (s \ t) \cup (t \ s)
Edits(c) ==
  Cardinality(Difference(c.flags, Flagged[c.cpu][c.mode]))
    + Cardinality(Difference(c.value, c.mask \ OptIn))

ContextInit == context = Cleared /\ returned = "none"

\* A caller creates one context.
Create(r) ==
  /\ returned = "none"
  /\ context' = NewContext(r.cpu, r.mode)
  /\ returned' = IF context' = Cleared THEN "INVALID_ARGUMENT" ELSE "OK"

\* A caller edits a context that was created, no further than MaxEdits.
Edit(edited) ==
  /\ returned # "none" /\ context # Cleared
  /\ Edits(edited) <= MaxEdits
  /\ context' = edited

\* The flags are a public field.
SetFlag(flag) ==
  /\ flag \notin context.flags
  /\ Edit([context EXCEPT !.flags = @ \cup {flag}])
  /\ UNCHANGED returned

ClearFlag(flag) ==
  /\ flag \in context.flags
  /\ Edit([context EXCEPT !.flags = @ \ {flag}])
  /\ UNCHANGED returned

\* Mutant: a family that is not available is added.
AddFamily_Unchecked(family) ==
  Edit([context EXCEPT !.value = @ \cup {family}]) /\ returned' = "done"

\* cdisasm_x86_decode_context_add_family
AddFamily(family) ==
  IF family \in context.mask
  THEN Edit([context EXCEPT !.value = @ \cup {family}]) /\ returned' = "done"
  ELSE returned # "none" /\ returned' = "refused" /\ UNCHANGED context

\* cdisasm_x86_decode_context_remove_family
RemoveFamily(family) ==
  IF family \in context.mask
  THEN Edit([context EXCEPT !.value = @ \ {family}]) /\ returned' = "done"
  ELSE returned # "none" /\ returned' = "refused" /\ UNCHANGED context

ContextNext ==
  \/ \E r \in Requests : Create(r)
  \/ \E flag \in EditedFlags : SetFlag(flag) \/ ClearFlag(flag)
  \/ \E family \in EditedFamilies : AddFamily(family) \/ RemoveFamily(family)

ContextSpec == ContextInit /\ [][ContextNext]_contextVars

-----------------------------------------------------------------------------

ContextTypeOK ==
  /\ context = Cleared
     \/ /\ context.cpu \in Processors /\ Runs(context.cpu, context.mode)
        /\ context.flags \subseteq Flags
        /\ context.mask \subseteq Families /\ context.value \subseteq context.mask
  /\ returned \in {"none", "OK", "INVALID_ARGUMENT", "done", "refused"}

\* A 64-bit context with the flags its processor has refuses of what the
\* processor decodes only the families that are available and not selected:
\* the flags and the families of a processor, two tables beside the decoder's
\* own, cover all it decodes.  Not so SEAMCALL, which every processor decodes
\* and few have the family of.
RefusalIsDeselection ==
  context.mode = 64 /\ Flagged[context.cpu][64] \subseteq context.flags =>
    \A form \in Decodable[context.cpu][64] \ ({"SEAMCALL"} \cup Accepted(context)) :
      \E family \in Family[context.cpu][form] :
        family \in context.mask \ context.value

\* The older flags are umbrellas of those added after them: while an umbrella
\* is set, clearing what it covers refuses nothing.
UmbrellasKeep ==
  [][\A flag \in context.flags \ context'.flags :
       Umbrella(flag) \in context'.flags =>
         Accepted(context) \subseteq Accepted(context')]_contextVars

\* The generic processor of the mode, as it is created, accepts what any other
\* accepts while no opt-in family is selected.  In 16-bit mode it does not: it
\* reads PAUSE and LZCNT where older processors read NOP and BSR, and their
\* families are not available there.
GenericKeeps ==
  context.mode \in {32, 64} /\ context.value \cap OptIn = {} =>
    Accepted(context) \subseteq Accepted(NewContext("X86", context.mode))

\* What these two say of contexts that nobody edited, and so of the tables
\* alone: a processor's flags and families cover what it decodes in 64-bit
\* mode, and the generic processor accepts what any other has unless opt-in.
TablesCover ==
  \A cpu \in Upto64, form \in Forms \ {"SEAMCALL"} :
    form \in Decodable[cpu][64] =>
      Admits(Flagged[cpu][64], cpu, form) /\ Family[cpu][form] \subseteq Available[cpu][64]

GenericCovers ==
  \A cpu \in Processors, mode \in {32, 64}, form \in Forms :
    form \in Decodable[cpu][mode] /\ Family[cpu][form] \subseteq Available[cpu][mode] \ OptIn =>
      form \in Accepted(NewContext("X86", mode))

\* What cdisasm_x86_decode accepts of a processor its context can be made to
\* accept: family_mask holds all special families available for the processor
\* and the mode.
AvailableInEveryMode ==
  context # Cleared =>
    \A form \in Admitted(context.cpu, context.mode, context.flags) :
      Family[context.cpu][form] \subseteq context.mask

=============================================================================
