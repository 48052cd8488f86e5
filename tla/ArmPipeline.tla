----------------------------- MODULE ArmPipeline ----------------------------
(***************************************************************************)
(* The ARM decode call and the contexts that carry its policy              *)
(* (cdisasm_arm_decode, cdisasm_arm_cpu_decode_context and the family      *)
(* calls in src/src/arm/cdisasm_arm.c; the generated decoder in            *)
(* src/src/arm/arm_generated_decoder.c).                                   *)
(*                                                                         *)
(* The processor filters what the decoders answer: an instruction it has   *)
(* no capability for is refused.  CPU_ANY has every capability, and two    *)
(* decoders of its own: the generated tree, asked when the others do not   *)
(* know a word, and in A64 one asked before all others.                    *)
(*                                                                         *)
(* A session is one caller: it makes a context, changes its options and    *)
(* families, and decodes a word whose bytes arrive one at a time.          *)
(***************************************************************************)
EXTENDS ArmTransport, Sequences, FiniteSets

CONSTANTS
  CoreA64,   \* cdisasm_arm_decode_core: its answers to the A64 words
  Leaf,      \* the leaf of the generated tree for a word that has one
  Cpus,      \* the processors the session picks from
  Selectable \* the families the session adds and removes

Modes == {"A32", "T32", "A64"}
A64Words == DOMAIN CoreA64

ASSUME CoreAssumption ==
  \A w \in A64Words :
    /\ w \in Halfwords \X Halfwords
    /\ \/ CoreA64[w] \in {Unsupported, Invalid}
       \/ CoreA64[w] = Ok(CoreA64[w].name, CoreA64[w].needs)

-----------------------------------------------------------------------------
(* The processors.                                                         *)

V7       == {"V4", "V5", "V6", "V7"}
Standard == V7 \cup {"V8", "NEON", "VFP", "MP"}
Apple11  == Standard \cup {"APPLE_MUL53", "LSE", "LOR", "FP16", "CRC32", "RAS"}
Apple12  == Apple11 \cup {"RCPC", "PAUTH"}

\* The rows of the table for some of the named processors.
Profile ==
  [ARM7TDMI       |-> [modes |-> {"A32", "T32"}, capabilities |-> {"V4"}],
   CORTEX_A7      |-> [modes |-> {"A32", "T32"}, capabilities |-> V7 \cup {"MP"}],
   CORTEX_A9_NEON |-> [modes |-> {"A32", "T32"}, capabilities |-> V7 \cup {"NEON", "VFP", "MP"}],
   CORTEX_A34     |-> [modes |-> {"A64"}, capabilities |-> Standard \cup {"CRC32"}],
   CORTEX_A53     |-> [modes |-> Modes, capabilities |-> Standard \cup {"CRC32"}],
   APPLE_A7       |-> [modes |-> Modes, capabilities |-> Standard \cup {"APPLE_A7_SYSREG"}],
   APPLE_A11      |-> [modes |-> {"A64"}, capabilities |-> Apple11],
   APPLE_A12      |-> [modes |-> {"A64"}, capabilities |-> Apple12],
   APPLE_A18      |-> [modes |-> {"A64"},
                       capabilities |-> Apple12 \cup {"SME", "SME2", "BF16", "TRF"}],
   A64FX          |-> [modes |-> {"A64"}, capabilities |-> Standard \cup {"SVE", "CRC32", "RAS"}]]

Supports(cpu, mode) == cpu = "ANY" \/ (cpu \in DOMAIN Profile /\ mode \in Profile[cpu].modes)

\* CPU_ANY has all the capabilities there are.
Has(cpu, c) == cpu = "ANY" \/ c \in Profile[cpu].capabilities

\* capabilities_satisfy_requirements: the alternatives are clauses too.
Satisfies(cpu, needs) == \A clause \in needs : \E c \in clause : Has(cpu, c)

-----------------------------------------------------------------------------
(* The generated decoder.                                                  *)

NoLeaf == [form |-> 0, name |-> "NONE", features |-> {}, opaque |-> FALSE]

LeafOf(w) == IF w \in DOMAIN Leaf THEN Leaf[w] ELSE NoLeaf

\* arm_pstate_msr_decode_word: the field an MSR (immediate) names.
PstateField(w) ==
  LET at  == <<w[1] % 8, (w[2] \div 32) % 8>>   \* op1 and op2
      crm == (w[2] \div 256) % 16
  IN CASE at = <<0, 3>> -> "UAO"
       [] at = <<0, 4>> -> "PAN"
       [] at = <<0, 5>> -> "SPSEL"
       [] at = <<1, 0>> /\ crm \in 0..1 -> "ALLINT"
       [] at = <<1, 0>> /\ crm \in 2..3 -> "PM"
       [] at = <<3, 1>> -> "SSBS"
       [] at = <<3, 2>> -> "DIT"
       [] at = <<3, 3>> /\ crm \in 2..7 -> "SVCR"
       [] at = <<3, 4>> -> "TCO"
       [] at = <<3, 6>> -> "DAIFSET"
       [] at = <<3, 7>> -> "DAIFCLR"
       [] OTHER -> "NONE"

\* arm_gen_pstate_msr_admit
PstateAdmitted(cpu, field) ==
  \/ field \in {"SPSEL", "DAIFSET", "DAIFCLR"}
  \/ field = "PAN"  /\ Has(cpu, "PAN")
  \/ field = "SVCR" /\ Has(cpu, "SME")
  \/ field = "TCO"  /\ Has(cpu, "MTE")
  \/ field \in {"UAO", "ALLINT", "PM", "SSBS", "DIT"} /\ cpu = "ANY"

\* The register pairs of SYSP, MSRR and MRRS start at an even register.
EncodingValid(leaf, w) ==
  LET rt == w[2] % 32 IN
  /\ leaf.form = 4506 /\ rt # 31 => rt % 2 = 0
  /\ leaf.form \in {4507, 4508} => rt % 2 = 0

\* A word is admitted if the processor has what its leaf asks for.
Admitted(cpu, w) ==
  LET leaf == LeafOf(w) IN
  /\ leaf # NoLeaf
  /\ Satisfies(cpu, leaf.features)
  /\ EncodingValid(leaf, w)
  /\ leaf.form = 4498 => PstateAdmitted(cpu, PstateField(w))

\* cdisasm_arm_decode_generated: a leaf whose operands it cannot give is
\* recognized and refused.
Generated(cpu, w) ==
  CASE ~Admitted(cpu, w) -> Invalid
    [] Admitted(cpu, w) /\ LeafOf(w).opaque -> Unsupported
    [] Admitted(cpu, w) /\ ~LeafOf(w).opaque -> Ok(LeafOf(w).name, {})

\* Mutant: the MSR encodings are taken as well.
Priority_TakesMsr(w) ==
  IF /\ w[1] \in {\hd500 + (32 * b) + r : b \in 0..1, r \in 0..7}
     /\ w[2] \div 4096 = 2
  THEN Ok("HINTE", {}) ELSE Unsupported

\* cdisasm_arm_decode_generated_priority: HINTE, the MSR encodings apart.
Priority(w) ==
  IF /\ w[1] \in {\hd500 + (32 * b) + r : b \in 0..1, r \in 0..7}
     /\ w[2] \div 4096 = 2
     /\ ~((w[1] \div 32) % 2 = 0 /\ w[1] % 8 = 3 /\ w[2] % 32 = 31)
  THEN Ok("HINTE", {}) ELSE Unsupported

-----------------------------------------------------------------------------
(* Decoding a word.                                                        *)

\* The words the model answers for.
Modelled(mode, w) ==
  CASE mode = "A32" -> w \in SharedWords
    [] mode = "T32" -> w \in {InT32(v) : v \in SharedWords}
    [] mode = "A64" -> w \in A64Words

\* The decoders that know the operands.
Structured(mode, w) ==
  CASE mode = "A32" -> A32(w)
    [] mode = "T32" -> T32(w)
    [] mode = "A64" -> CoreA64[w]

\* The two instruction sets have the same leaf for a word they share.
TreeWord(mode, w) == IF mode = "T32" THEN Canonical(w) ELSE w

\* What the decoders make of a word, and what the processor leaves of that.
Answer(cpu, mode, w) ==
  LET first == IF cpu = "ANY" /\ mode = "A64" THEN Priority(w) ELSE Unsupported
      known == Otherwise(first, Structured(mode, w))
      asked == cpu = "ANY" \/ mode = "A64"
      found == IF known = Unsupported /\ asked THEN Generated(cpu, TreeWord(mode, w)) ELSE known
  IN  IF found.status = "OK" /\ ~Satisfies(cpu, found.needs) THEN Invalid ELSE found

HinteForm == 6570   \* CDISASM_ARM_FORM_HINTE

\* Mutant: the form is checked, the reserved operands are not.
FormValid_CatalogOnly(cpu, w, form) ==
  IF form = HinteForm THEN cpu = "ANY" /\ Priority(w).status = "OK"
  ELSE Admitted(cpu, w) /\ LeafOf(w).form = form

\* cdisasm_arm_validate_form, in A64: HINTE is the form outside the tree.
FormValid(cpu, w, form) ==
  IF form = HinteForm THEN cpu = "ANY" /\ Priority(w).status = "OK"
  ELSE /\ CoreA64[w] # Invalid
       /\ CoreA64[w].status = "OK" => Satisfies(cpu, CoreA64[w].needs)
       /\ Admitted(cpu, w)
       /\ LeafOf(w).form = form

-----------------------------------------------------------------------------
(* The call.                                                               *)

Options == {"BIG_ENDIAN", "IN_IT_BLOCK", "UNKNOWN"}   \* UNKNOWN: any other bit

Refusal(status) == [status |-> status, name |-> "NONE"]

Layouts == {"LITTLE", "BIG"}

\* The byte order the options announce.
OrderOf(options) == IF "BIG_ENDIAN" \in options THEN "BIG" ELSE "LITTLE"

\* read_u16: the halfword at byte i.
Halfword(code, i, order) ==
  IF order = "BIG" THEN (256 * code[i]) + code[i + 1] ELSE code[i] + (256 * code[i + 1])

\* Mutant: the size is taken before the byte order is.
Size_AlwaysLittle(mode, code, order) ==
  IF mode # "T32" THEN 4
  ELSE IF Len(code) < 2 THEN 2
  ELSE IF Halfword(code, 1, "LITTLE") >= \he800 THEN 4 ELSE 2

\* The bytes the call waits for: T32 looks at the first halfword.
Size(mode, code, order) ==
  IF mode # "T32" THEN 4
  ELSE IF Len(code) < 2 THEN 2
  ELSE IF Halfword(code, 1, order) >= \he800 THEN 4 ELSE 2

\* Bits 31:16 come second in the little-endian word of A32 and A64 only.
Word(mode, code, order) ==
  IF mode = "T32" \/ order = "BIG"
  THEN <<Halfword(code, 1, order), Halfword(code, 3, order)>>
  ELSE <<Halfword(code, 3, order), Halfword(code, 1, order)>>

\* cdisasm_arm_decode.  OPEN is a word the model has no answer for.
Decode(cpu, mode, options, code) ==
  LET order == OrderOf(options)
      w     == Word(mode, code, order)
  IN IF \/ ~Supports(cpu, mode)
        \/ "UNKNOWN" \in options
        \/ "IN_IT_BLOCK" \in options /\ mode # "T32"
     THEN Refusal("INVALID_ARGUMENT")
     ELSE IF code = <<>> THEN Refusal("END_OF_INPUT")
     ELSE IF Len(code) < Size(mode, code, order) THEN Refusal("TRUNCATED")
     ELSE IF Size(mode, code, order) = 2 \/ ~Modelled(mode, w) THEN Refusal("OPEN")
     ELSE [status |-> Answer(cpu, mode, w).status, name |-> Answer(cpu, mode, w).name]

-----------------------------------------------------------------------------
(* The contexts.                                                           *)

AppleFamilies == {"APPLE_MUL53", "APPLE_AMX", "APPLE_SYS", "APPLE_A7_SYSREG"}

\* The modes the table lists a family for.
FamiliesOf(mode) ==
  {"V8", "NEON", "VFP", "CRC32", "AES", "PMULL", "SHA", "DOTPROD", "PAN", "APPLE_MUL53",
   "APPLE_A7_SYSREG"}
  \cup
  IF mode = "A64"
  THEN {"FP16", "SVE", "SVE2", "SVE2P1", "SVE2P2", "SVE2P3", "SME", "SME2", "SME2P1", "SME2P2",
        "SME2P3", "LSE", "LSE2", "LSE128", "RCPC", "RCPC3", "BTI", "PAUTH", "PAUTH_LR", "MTE",
        "MOPS", "LS64", "CSSC", "BF16", "FP8", "F64MM", "APPLE_AMX", "APPLE_SYS", "CPA", "SM3",
        "SM4", "FCMA", "FHM", "RAS", "TRF", "CLRBHB", "GCS", "FAMINMAX", "FPRCVT", "JSCVT",
        "CHK", "DGH", "SPE"}
  ELSE {"V4", "V5", "V6", "V7", "MP", "AA32I8MM"}

\* arm_family_capability_present: one family for all the hashes.
Hashes == {"SHA1", "SHA256", "SHA3", "SHA512"}

FamilyPresent(cpu, f) ==
  IF f = "SHA" THEN \E c \in Hashes : Has(cpu, c) ELSE Has(cpu, f)

\* Mutant: the mode is not looked at.
FamilyMask_AnyMode(cpu, mode) == {f \in FamiliesOf("A64") : FamilyPresent(cpu, f)}

\* cdisasm_arm_cpu_family_mask
FamilyMask(cpu, mode) == {f \in FamiliesOf(mode) : FamilyPresent(cpu, f)}

NoContext == [cpu |-> "NONE", mode |-> "NONE", options |-> {}, mask |-> {}, value |-> {}]

\* cdisasm_arm_cpu_decode_flag_mask: every option there is for the mode.
OptionMask(mode) == {"BIG_ENDIAN"} \cup (IF mode = "T32" THEN {"IN_IT_BLOCK"} ELSE {})

\* Mutant: every default family is selected, the processor's or not.
Created_AllDefaults(cpu, mode) ==
  IF ~Supports(cpu, mode) THEN NoContext
  ELSE [cpu     |-> cpu,
        mode    |-> mode,
        options |-> OptionMask(mode),
        mask    |-> FamilyMask(cpu, mode),
        value   |-> FamiliesOf(mode) \ AppleFamilies]

\* cdisasm_arm_cpu_decode_context
Created(cpu, mode) ==
  IF ~Supports(cpu, mode) THEN NoContext
  ELSE [cpu     |-> cpu,
        mode    |-> mode,
        options |-> OptionMask(mode),
        mask    |-> FamilyMask(cpu, mode),
        value   |-> FamilyMask(cpu, mode) \ AppleFamilies]

-----------------------------------------------------------------------------
(* A session.                                                              *)

VARIABLES
  context,  \* the caller's context
  word,     \* the word it decodes: an A64 word, or the A32 form of a shared one
  layout,   \* the byte order of its input, LITTLE or BIG
  received  \* the bytes of the word it has

sessionVars == <<context, word, layout, received>>

WordsOf(mode) == IF mode = "A64" THEN A64Words ELSE SharedWords

\* The instruction as its mode stores it.
Bytes(mode, w, order) ==
  LET v == IF mode = "T32" THEN InT32(w) ELSE w
      High(h) == h \div 256
      Low(h)  == h % 256
  IN CASE order = "BIG" -> <<High(v[1]), Low(v[1]), High(v[2]), Low(v[2])>>
       [] order = "LITTLE" /\ mode = "T32" -> <<Low(v[1]), High(v[1]), Low(v[2]), High(v[2])>>
       [] order = "LITTLE" /\ mode # "T32" -> <<Low(v[2]), High(v[2]), Low(v[1]), High(v[1])>>

Code(order) == SubSeq(Bytes(context.mode, word, order), 1, received)

\* cdisasm_arm_decode_with_context
Record == Decode(context.cpu, context.mode, context.options, Code(layout))

Init ==
  /\ context = NoContext
  /\ word \in A64Words
  /\ layout = "LITTLE"
  /\ received = 0

\* A session starts with a context, and the word it will decode.
NewContext(cpu, mode) ==
  /\ context = NoContext
  /\ received = 0
  /\ context' = Created(cpu, mode)
  /\ word' \in WordsOf(mode)
  /\ layout' \in Layouts
  /\ received' = 0

Receive ==
  /\ received < 4
  /\ received' = received + 1
  /\ UNCHANGED <<context, word, layout>>

\* cdisasm_arm_decode_context_add_family, and _remove_family
AddFamily(f) ==
  /\ f \in context.mask
  /\ context' = [context EXCEPT !.value = @ \cup {f}]
  /\ UNCHANGED <<word, layout, received>>

RemoveFamily(f) ==
  /\ f \in context.mask
  /\ context' = [context EXCEPT !.value = @ \ {f}]
  /\ UNCHANGED <<word, layout, received>>

\* The options are a field the caller writes.
SetOption(o) ==
  /\ context' = [context EXCEPT !.options = @ \cup {o}]
  /\ UNCHANGED <<word, layout, received>>

ClearOption(o) ==
  /\ context' = [context EXCEPT !.options = @ \ {o}]
  /\ UNCHANGED <<word, layout, received>>

Next ==
  \/ \E cpu \in Cpus, mode \in Modes : NewContext(cpu, mode)
  \/ Receive
  \/ \E f \in Selectable : AddFamily(f) \/ RemoveFamily(f)
  \/ \E o \in Options : SetOption(o) \/ ClearOption(o)

Spec == Init /\ [][Next]_sessionVars

-----------------------------------------------------------------------------
(* What the pipeline promises.                                             *)

Contexts ==
  [cpu     : {"NONE", "ANY"} \cup DOMAIN Profile,
   mode    : {"NONE"} \cup Modes,
   options : SUBSET Options,
   mask    : SUBSET UNION {FamiliesOf(mode) : mode \in Modes},
   value   : SUBSET UNION {FamiliesOf(mode) : mode \in Modes}]

\* A context is of a processor that has its mode and selects among the families
\* of both; its word is one of that mode.
TypeOK ==
  /\ context \in Contexts
  /\ context.value \subseteq context.mask
  /\ IF context.cpu = "NONE" THEN context.mode = "NONE"
     ELSE /\ context.mode \in Modes
          /\ Supports(context.cpu, context.mode)
          /\ word \in WordsOf(context.mode)
  /\ layout \in Layouts
  /\ received \in 0..4

\* A processor with both instruction sets gives a shared word the same answer
\* in both, with one exception: a word the vector decoder knows and refuses is
\* INVALID in A32, and T32 may still take it for the coprocessor's.
StatesAgree ==
  context.mode \in {"A32", "T32"} =>
    LET a == Answer(context.cpu, "A32", word)
        t == Answer(context.cpu, "T32", InT32(word))
    IN  a # t => /\ Vector[word] = Invalid
                 /\ a = Invalid
                 /\ t.name \in {"CDP", "CDP2", "LDC", "STC", "MCR", "MRC", "MCRR", "MRRC"}

\* c has every capability of the processor d.
AtLeast(c, d) ==
  c = "ANY" \/ (d # "ANY" /\ Profile[d].capabilities \subseteq Profile[c].capabilities)

\* What a processor accepts, every processor with at least its capabilities
\* accepts under the same name; CPU_ANY does, though it asks more decoders.
UpgradeKeeps ==
  Record.status = "OK" =>
    \A c \in Cpus :
      Supports(c, context.mode) /\ AtLeast(c, context.cpu)
        => Decode(c, context.mode, context.options, Code(layout)) = Record

\* The order of the bytes and the option that announces it make up for each
\* other, at every length of the input.
ByteOrdersAgree ==
  LET other == IF layout = "LITTLE" THEN "BIG" ELSE "LITTLE"
      flip  == IF "BIG_ENDIAN" \in context.options THEN context.options \ {"BIG_ENDIAN"}
               ELSE context.options \cup {"BIG_ENDIAN"}
  IN  Decode(context.cpu, context.mode, flip, Code(other)) = Record

\* A form validated for a processor is one its decode call does not call
\* invalid: both ask the decoders that know the reserved operands first.
FormsAreDecoded ==
  context.mode = "A64" =>
    \A form \in {LeafOf(word).form, HinteForm} :
      FormValid(context.cpu, word, form)
        => Answer(context.cpu, "A64", word).status # "INVALID_INSTRUCTION"

FamilyOf(capability) == IF capability \in Hashes THEN "SHA" ELSE capability

\* The table reserves these families to A64; A32 and T32 have the instructions.
OnlyInA64 == {"FP16", "BF16", "FCMA", "FHM", "JSCVT"}

\* What A64 decoders ask for and the table has no family for.  MODERN_BF16,
\* MODERN_F64MM and MODERN_FP8 are the second identities arm_modern_decoder.c
\* gives to three features that have a family; F16MM is LUT there as well, and
\* LSFE is SME_TMOP.
NoFamily ==
  {"LOR", "LSUI", "WFXT", "SB", "XS", "RPRFM", "RDM", "I8MM", "FRINTTS", "LSFE", "THE", "MTE2",
   "MODERN_BF16", "MODERN_F64MM", "MODERN_FP8", "F16F32DOT", "F16MM", "F32MM", "F8F16MM",
   "F8F32MM", "FP8DOT2", "FP8DOT4", "FP8FMA", "SSVE_FP8DOT2", "SSVE_FP8DOT4", "SSVE_FP8FMA",
   "SME_B16B16", "SME_F16F16", "SME_F64F64", "SME_F8F16", "SME_F8F32", "SME_I16I64", "SME_LUTV2",
   "SVE_AES", "SVE_AES2", "SVE_B16B16", "SVE_B16MM", "SVE_BFSCALE", "SVE_BITPERM",
   "SVE_F16F32MM", "SVE_PMULL128", "SVE_SM4"}

Unlisted(mode) == IF mode = "A64" THEN NoFamily ELSE OnlyInA64

Listed(mode, c) == FamilyOf(c) \in FamiliesOf(mode) \/ c \in Unlisted(mode)

\* The decoders ask for nothing else, for the hashes one by one.
ASSUME NeedsAssumption ==
  /\ \A w \in A64Words : \A c \in UNION CoreA64[w].needs : c # "SHA" /\ Listed("A64", c)
  /\ \A w \in SharedWords : \A c \in UNION Vector[w].needs :
       c # "SHA" /\ Listed("A32", c) /\ Listed("T32", c)

\* The mask of a context is "the capability projection for the selected CPU"
\* (cdisasm_arm.h:636-638), as far as the table goes: of every clause an
\* accepted instruction needed, the processor has a capability, and a context
\* shows its family unless it is one of those without a family in the mode.
FamiliesCover ==
  Record.status = "OK" =>
    LET w == Word(context.mode, Code(layout), OrderOf(context.options))
    IN  \A clause \in Answer(context.cpu, context.mode, w).needs :
          \E c \in clause :
            /\ Has(context.cpu, c)
            /\ FamilyOf(c) \in context.mask \/ c \in Unlisted(context.mode)

\* "Input is little-endian by default": a context as it was created decodes as
\* the call without options does.  The new context sets BIG_ENDIAN.
LittleEndianByDefault ==
  context # NoContext /\ context = Created(context.cpu, context.mode) =>
    Record = Decode(context.cpu, context.mode, {}, Code(layout))

=============================================================================
