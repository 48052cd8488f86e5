# A verification of cdisasm

TLA+ specifications of the parts of cdisasm 12.14.0 that keep state or walk
input step by step, TLC configurations that check them on small instances, and
proofs, checked by TLAPS, that hold for every value of the constants. Paths are
relative to the repository.

Contents: [the system](#1-the-system), [the modules](#2-the-modules),
[the runs](#3-the-runs), [fairness](#4-fairness), [the proofs](#5-the-proofs),
[findings](#6-findings), [how faithful the models are](#7-how-faithful-the-models-are),
[what is not modelled](#8-what-is-not-modelled), [the plan](#9-the-plan),
[how to run it](#10-how-to-run-it).

## 1. The system

cdisasm is a library that decodes one instruction per call. It has no threads,
no allocation and no global state: a call reads its arguments and writes what
the caller owns. What makes it hard is elsewhere.

| Component | State | Operations | Talks to |
| --- | --- | --- | --- |
| Generic dispatcher (`src/cdisasm.c`) | none | `cdisasm_decode`, `cdisasm_decode_checked`, `cdisasm_cpu_decode_flag_mask` | one of the three backends, by the group of the CPU id |
| Feature-bit helpers (`include/cdisasm/cdisasm_common.h`) | the caller's flag words | set, test, clear, reset | everything that takes flags |
| **MIPS decode contexts** (`src/mips/cdisasm_mips.c`, `cdisasm_mips_v3.c`) | a caller-owned context: CPU, mode, revision, encoding, `family_mask`, `family_value`, `flags` | create, `add_family`, `remove_family`, decode with the context, in three versions of the interface | the argument checks of the MIPS decoder, which V3 calls as a probe before every operation |
| **MIPS decode pipeline** (same files, `mips_decoder.c` and others) | the instruction record | argument checks, family decoders asked in a fixed order, replay of the result | contexts, family decoders, effects |
| **MIPS family decoders** (`src/mips/mips_*_decoder.c`) | none | guards, ownership, mask-and-value tables | the pipeline |
| MIPS effects (`src/mips/mips_effects.c`) | a bounded list in the record | append a register effect | the pipeline |
| **x86 instruction cursor** (`src/x86/x86_decoder.c`, `x86_opcode_tables.h`) | position in the buffer, effective prefixes, offsets of the encoding | FWAIT look-ahead, prefixes, opcode, ModRM, SIB, displacement, immediates | the x86 pipeline |
| x86 instruction semantics (`x86_decoder.c`) | the instruction record | operands, access, classification | the cursor |
| **x86 decode pipeline** (`src/x86/cdisasm_x86.c`, `x86_generated_decoder.c`, the APX part of `x86_decoder.c`) | the instruction record | hand-written decoder, generated fallback, retry of a refusal, admission by the flags | cursor, generated tables |
| **x86 decode contexts and flags** (`src/x86/cdisasm_x86.c`, the capability tables of `x86_decoder.c`) | a caller-owned context: CPU, mode, `flags`, `family_mask`, `family_value` | create, add and remove families, decode with the context; the caller sets and clears flags | the x86 pipeline, whose answer it filters by family |
| **ARM decode pipeline** (`src/arm/cdisasm_arm.c`, `arm_t32_decoder.c`, `arm_generated_decoder.c`, the chain of `arm_decoder.c`) | the instruction record; a caller-owned context: CPU, mode, options, `family_mask`, `family_value` | flag checks, hand-written and generated decoders, T32 lengths, the filter on capabilities, form validation, contexts | the ARM tables |
| ARM instruction semantics (`src/arm/arm_*decoder.c`) | none | bit-field tables | the ARM pipeline |
| **ARM CPU detection** (`src/cdisasm_cpu.c`, `cdisasm_cpu_identify.c`) | locals of one call; the kernel's files change under it | scan of `/sys/devices/system/cpu`, scan of `/proc/cpuinfo`, line parser, number parser | the operating system |
| x86 CPU detection, Apple CPU detection (same files) | none | classify CPUID leaves; two `sysctl` reads | the operating system |
| Formatters (`*_format.c`) | the caller's text buffer | print an instruction | the instruction record |
| Generated tables (`src/*/generated/`) | none | data | the pipelines |

The behaviours that are hard to get right and hard to test, and where they are:

- **Long sequences of accepted calls.** A MIPS context is changed one family at
  a time. Each add pulls parents in, each removal takes children out, and the
  rules for what may stand together are written three times: where a family is
  added, where one is removed, and where a decode checks the result
  (`cdisasm_mips.c:397-461`, `:744-800`). The layers must agree after every
  sequence.
- **Fixpoint loops.** `family_dependencies` and `remove_family` run until a
  pass changes nothing. They must end, and end at the right set.
- **A short buffer.** The x86 decoder cannot tell a short buffer from a bad
  instruction unless it looks at its bytes in the right order: the same bytes
  must give TRUNCATED until the instruction is complete, and then the same
  answer for ever. The limit of fifteen bytes interferes with both.
- **Two decoders for one encoding.** Some x86 encodings are known to a
  hand-written and to a generated decoder, with their own prefix parser, their
  own length computation and their own refusals; a third rule decides which
  refusal of the one is tried again with the other.
- **One word, many families.** Up to thirteen MIPS decoders are asked about a
  word, in a fixed order, and several list the same encodings. Which one answers
  depends on the families enabled, on the processor and on a private policy
  word; a refusal is looked into by a second decode with other families, and a
  record is authenticated by a third.
- **Two instruction sets for one word.** A32 and T32 share the coprocessor and
  vector words and the decoders for them, but ask those in different orders; the
  generic processor asks one decoder before and one behind those of the named
  processors; and a form is validated by a second copy of the chain.
- **Two scans that must agree.** The FWAIT look-ahead and the prefix parser walk
  the same prefixes with two loops.
- **Three tables for one processor.** What an x86 processor decodes is decided by
  its capabilities; what its context offers, by flags and families computed from
  tables beside them. Newer flags refine older ones that must go on to work.
- **A machine that changes under a scan.** CPUs go offline and come back
  between any two file accesses of the CPU detection, and any access may fail.
- **Lines that arrive in pieces.** `/proc/cpuinfo` has lines longer than the
  buffer, whose later pieces must not be read as lines, records without
  separators, and records with their fields in either order.

What makes each component correct:

- MIPS contexts: a selection never contradicts itself; what a context accepts
  its decoder accepts; a removal is never refused; adding selects the least and
  removing keeps the greatest selection that stands.
- x86 cursor: a final answer is final; an instruction is recognised in the call
  that has its last byte; a full buffer is not asked for more; the effective
  prefixes are what the bytes say; the recorded fields tile the instruction; the
  two scans meet.
- x86 pipeline: where both decoders have an encoding they agree on it; what is
  accepted, refused or unsupported stays so when more bytes arrive, and what is
  accepted stays so when the caller selects more; the two builds accept and
  reject the same encodings.
- MIPS pipeline: families that can be enabled together do not fight over a
  word; enabling one leaves the meaning of other words alone; a decoded record
  can be decoded again from what it says of itself; a named processor has what
  its tables say; the status of a refusal tells the reason.
- ARM pipeline: a shared word is one instruction in both instruction sets; a
  processor with more capabilities loses nothing; the byte order only orders
  bytes; a form that validates can be decoded; a context shows the families of
  what it decodes.
- x86 contexts: a context refuses only what its owner has deselected; an older
  flag still covers what was split off it; the generic processor accepts what
  any other does.
- ARM detection: a named profile is the profile of every CPU that was there;
  caution does not cost an answer on a machine at rest; the call returns; the
  parser says what the file says; the number parser does not wrap.

## 2. The modules

```
MipsFamilies <- MipsPolicy <- MipsContext <- MCMipsContext
                           <- MipsPipeline <- MCMipsPipeline, MipsPipelineProofs
MipsFamilies <- FamilySelection            (abstract; MipsContext implements it)
MipsContext  <- MipsContextProofs <- MipsContextSoundness

ArmProfiles <- ArmCpuinfo <- ArmCpuinfoFile, ArmDetection
ArmDetection, ArmCpuinfoFile, ArmHexNumber  <- MCArmDetection, ArmDetectionProofs
ArmTransport <- ArmPipeline <- MCArmPipeline, ArmPipelineProofs

X86Opcodes <- X86Cursor <- MCX86Cursor, X86CursorProofs <- X86CursorFinality
X86Opcodes, X86Descriptors <- X86Generated <- X86Handwritten <- X86Pipeline
X86Profiles <- X86Contexts <- MCX86Contexts
X86Pipeline, X86Contexts   <- X86Decode <- MCX86Pipeline (also over MCX86Contexts), X86DecodeProofs
```

### MIPS decode contexts

`MipsFamilies` holds the tables as sets: the 40 families and their parents
(`mips_families`), the features that contradict each other
(`conflicting_features`), what the 36 processors, the 15 revisions, the 7
encodings and the build offer, and the default selection. Flag words are sets
of families; the FPR32 option is a bit beside them.

`MipsPolicy` is the argument checking of `cdisasm_mips_decode` and `prepare_v2`
up to the point where the first code byte would be read. A request is accepted
when decoding zero bytes answers `END_OF_INPUT`; that is the probe V3 itself
uses (`context_to_v2`).

`MipsContext` is a context and its caller. `policy`, `mask`, `value` and `fpr32`
are the fields of the context, `call` is the call in progress with its local
family set, `ret` the last return value. `CreateContext`, `SetFPR32`, `Decode`,
`BeginAdd`, `BeginRemove` are the calls; `GrowAdd` and `PruneRemove` are one
step of the loops in `family_dependencies` and `remove_family`; `FinishAdd` and
`FinishRemove` are the check and the store at their end. The code's passes visit
families in the order of their ids; the model takes them in any order, so that
its result does not depend on how the table is sorted. A context belongs to one
caller and the code is not reentrant on it, so the calls on it follow one
another, but the caller owns the `flags` word and may set FPR32 between any two
of them.

`FamilySelection` is what the interface promises, without a loop: `Select`
chooses the least supported superset, `Deselect` the greatest standing subset.
`MipsContext` implements it under `ImplementsFamilySelection`.

### MIPS decode pipeline

`MipsPipeline` is `cdisasm_mips_decode` with everything it calls to find out who
decodes a word, for twelve words that two or more families list. A word is a
name; `Inventory` and the other tables have the rows that match it. A view of a
request is mode, revision, `on` (the effective flags) and `policy` (the private
word 7 of the flags). Each decoder is an operator with the early returns of the
code in their order, and answers with a status and a form number.

`VendorClaims`, `ProcessorClaims` and `CommonClaims` are the three parts of
`cdisasm_mips_decode_core`: the vendors whose answer is final, the two
processors that keep what they own, and the common decoders, whose refusal is
probed against the inventory once more. `Recognized` is the second decode of
`cdisasm_mips_decode`, `Admitted` the checks on the families the answer needs,
`Needs` the reconstruction of those families from the form number.

The library keeps nothing between two calls. The state is the caller's: a
processor, mode, revision and register layout, one word, the families enabled so
far and the last answer. `Select` enables one more family with its prerequisites
and decodes again, so that the properties compare the answers under one
selection and the next.

### ARM decode pipeline

`ArmTransport` is the part of the instruction space A32 and T32 share: the
words of the coprocessors and of the vector unit. T32 carries them with another
first byte or unchanged, `Canonical` translates back as
`cdisasm_arm_decode_t32_core` does, `A32` and `T32` are the orders in which the
two ask their decoders. The coprocessor decoder is modelled bit by bit; the
vector decoder, three thousand lines of operand extraction, is the constant
`Vector`: its answer to each word of the instance.

`ArmPipeline` is `cdisasm_arm_decode` around them: the argument checks, the
length and the byte order, on CPU_ANY the HINTE decoder in front (`Priority`)
and the generated tree behind, on named processors the tree in A64 only, and
last the filter that makes an instruction INVALID for which the processor has
no capability. `FormValid` is `cdisasm_arm_validate_form` in A64, `Created`,
`AddFamily` and `RemoveFamily` are the context calls. Like the vector decoder,
the A64 decoder (`CoreA64`) and the leaf of a word (`Leaf`) are constants. What
an answer needs of the processor is a set of clauses, of each of which one
capability suffices: the feature bitmap of `cdisasm_arm_requirements` gives
clauses of one (`AllOf`), its alternatives those of two. `Has` asks the
processor, CPU_ANY having everything; `FamiliesOf` is the whole table of
families.

The state is a caller's session: a context, a word, the byte order its input is
stored in and how many of its bytes have arrived. The families of a context
never reach the decoder; only the options do. Words outside the instance and 16
bit instructions are answered OPEN, which no property takes for an answer of the
library.

### ARM CPU detection

`ArmProfiles` is the MIDR catalog. `ArmCpuinfo` is the parser of `/proc/cpuinfo`
as operators on its state; a line is its kind, whether its text is well formed,
its number and whether it is too long for the buffer. `ArmCpuinfoFile` feeds it
a file line by line and states, without a parser, what the file means.

`ArmDetection` is one call of `cdisasm_current_cpu`. Each file access is a step:
`ReadEntry` (readdir), `ReadOnline` (the `online` file), `OpenMidrFails`,
`ReadMidr`, `ReadMidrFails`, `EndOfDirectory`, then `NextCpu`, `ReadLine` and
the rest for `/proc/cpuinfo`. `Hotplug` takes a CPU offline or brings one back
between any two of them. `steady` and `calm` are history variables: the CPUs
that were online all the time, and whether nothing changed or failed.

`ArmHexNumber` is the number parser, one digit per step, for any word size.
`MCArmDetection` runs the call, the parser and the number parser side by side: a
behaviour has one of them as its `subject`.

### x86 instruction cursor

`X86Opcodes` gives the shape of each opcode of the primary map: whether it takes
a ModRM byte, what the byte makes of it, how many bytes of displacement and
which immediates follow, what is refused.

`X86Cursor` is `decode_core` called again and again by a program that gets its
bytes one at a time (`Call`). `codeSize` is the number of bytes it has,
`position` the cursor, `prefix` the prefix fields of the decoder state,
`encoding` the offsets and sizes of `cdisasm_x86_encoding`, `pc` the function
the call is in: `ScanForWait` and `ScanForAlias` are `has_wait_x87_alias`,
`PrefixLimit` to `Opcode` are `parse_prefixes` and the opcode byte, `Modrm`,
`Sib` and `Displacement` are `decode_modrm` with the tests the handlers run
before and after it, `Immediate` is `read_immediate_value` and `Finish` the tail
of `decode_core`. Each `...Missing` action is `decoder_require` failing.

The stream is not chosen in advance. A byte that steers the decoder is chosen
when it is first looked at and kept on `tape`, so that every later call sees the
same bytes. The bytes of displacements and immediates steer nothing and are left
out. `settled` is a history variable: the first answer that was not TRUNCATED
and the buffer size it was given for.

### x86 decode pipeline

`X86Descriptors` is eight buckets of the generated table, as records: the byte
pattern behind the opcode, the predicates on the fields of the encoding, what
follows the ModRM byte, and the decode bit that selects the row. The rows are
XED's, and the map gives the lines of `cdisasm_x86_isa_decode.inc` that hold
the copy of each bucket.

`X86Generated` is the generated decoder: `Opening` parses the prefixes, `Vector`
the VEX, XOP and EVEX prefixes, `AfterModrm` the address, `Chosen` walks the
rows of a bucket and `Admission` looks at the selected and the available bits.
It is written once for every space and map; only the rows are a selection.

`X86Handwritten` is the hand-written decoder on the encodings both have: the
APX forms of POP2 and PUSH2, IMUL, SETcc and CMOVcc, group 3, the direct stores
and the user-MSR instructions, the FP16 complex multiplications, the gathers and
UD0.

`X86Pipeline` is `cdisasm_x86_decode` around them. `Decode` asks the
hand-written decoder, tries the generated one where the first does not support
the encoding or where `Retried` says so, and then looks at the caller's bits.
The code keeps nothing between two calls; the state is the caller's. `Receive`
gets it one more byte, `Select` selects one more decode bit, and both ask again.
What is checked is therefore about sequences of calls on one stream, which is
how the library is used and what its tests, one call each, do not reach.

### x86 decode contexts

`X86Profiles` has the capabilities of the 53 processors (`Caps`, `Extras`) as
the code builds them, one generation over another, and what is derived from
them: `FlagMask` is `cdisasm_x86_cpu_decode_flag_mask`, `FamilyMask` the
families shown by those flags (`FlagFamilies`) and by the exact bits of the
generated table (`ExactFamilies`), cut to the modes of the family descriptors
(`FamilyModes`). Capabilities that decide nothing here are left out.

`X86Contexts` has 68 instructions, one or more for every kind the flags tell
apart. `Decodes` is what the hand-written decoder asks of the processor, `Groups`
the groups it records. `Required` is `x86_instruction_decode_flags`, which
chooses one flag for the groups in a fixed order; `Admits` is
`x86_decode_flags_admit` with its umbrellas; `FamilyOf` is
`cdisasm_x86_instruction_family`. `Accepted` puts them together as
`cdisasm_x86_decode_with_context` does.

The state is one context and what the last call returned. `Create` makes it,
`AddFamily` and `RemoveFamily` are the library's, `SetFlag` and `ClearFlag` the
caller's, who owns the public field. `X86Decode` puts this beside the pipeline:
a behaviour has one `subject`, a caller of the decoder or the owner of a
context.

## 3. The runs

| Run | Instance | Distinct states | Shows |
| --- | --- | --- | --- |
| `mips_contexts` | ten processors and CPU_ANY at five revisions, V1 and V3, in the encodings each of them has | 92,416 | every order of adds, removals and FPR32 changes |
| `context_compact_any` | CPU_ANY, MIPS16 | violated | finding 1 |
| `context_partial_build` | a build without LOONGSON2E | violated | finding 2 |
| `mips_pipeline` | twelve words, CPU_ANY at every revision and fourteen named processors, every selection of up to four of 23 families | 104,772 | the family decoders together |
| `arm_detection` | 3 CPUs, 3 cores, 3 layouts of `/proc/cpuinfo`; every file of up to 6 of 10 different lines; every text up to 5,000 in a word of ten bits | 642,282 | detection under hotplug and failures; the parser says what the file says; the overflow check |
| `arm_pipeline` | CPU_ANY and ten named processors, 60 shared words in A32 and T32, 33 A64 words, 0 to 4 bytes in both orders, every set of options | 186,000 | the two instruction sets, the order of the decoders, contexts |
| `arm_fresh_context` | the same | violated | finding 5 |
| `x86_cursor` | limit 15, three modes; up to two of nine prefixes or three of three in front, with and without FWAIT; 46 opcodes, 14 ModRM bytes; 7 to 14 segment prefixes | 1,327,785 | prefixes, the look-ahead, the shapes of the primary map, alone and across the limit |
| `x86_rexw` | limit 15, 64-bit mode | violated | finding 3 |
| `x86_pipeline` | about a thousand streams of the shared encodings, alone and behind prefixes; every byte, every decode bit; both builds; contexts of all 53 processors in every mode | 95,517 | the two decoders together; what contexts accept |
| `x86_stack_pair` | the same | violated | finding 4 |
| `x86_family_modes` | contexts of all 53 processors in every mode | violated | finding 6 |

**Properties of the contexts.** `SelectionSound`: no sequence of accepted calls
leaves a family without its parents, two generations, two processors, two VU
units or an orphaned umbrella. `ContextDecodes`: a context the calls have built
is one its decoder accepts. `AcceptedStaysAccepted`: the same across one call,
FPR32 included. `RemovalSucceeds`: the check after the removal loop never fires.
`EveryCallReturns`: both loops end. `ImplementsFamilySelection`: refinement.

**Bounds of the contexts.** The tables are the real ones and complete; what is
bounded is the set of processors, revisions and families one run combines. The
ten processors are one of each shape: no vendor space, each of the vendor
spaces, R6, both Loongson generations, with every family each of them has.
CPU_ANY is asked for twelve families that pull in or exclude each other; those
left out (DSP and its revisions, the later MXU generations, the other vendor
processors) are chains of parents or rival processors like those in it, and most
of them occur with the named processors. nanoMIPS and the two VU encodings are
there because their families come from tables of their own. Sequences of calls
are not bounded: the state space is finite.

**Properties of the MIPS pipeline.** As for x86, exceptions the code makes are
written into the property.

- `OneFamilyDecodes`: of the decoders of a processor, the Ingenic ones and the
  inventory at most one decodes a word under any selection the library admits,
  and at most one inventory row is enabled; so their order does not matter.
  `conflicting_features` is what makes it so. Exception: LOONGASX and MDMX can
  be enabled together and share COPY and INSERT.
- `EnablingKeeps`: enabling a family a processor has changes what an accepted
  word means only to a form that needs an added family. Exceptions: R5900 hands
  the COP2 memory words to VU0, which may be off; DSPR3 hands the Release 6 LSA
  to MSA; MSA takes the two words it shares with ASX.
- `Replays`: the generic processor, asked with the families a record needs and
  nothing else, decodes the word to the same record. Formatters and effect
  queries rely on it (`cdisasm_mips.c:950-962`). Exceptions: SAAD, which needs
  CNMIPSP but not its parent CNMIPS, and the LSA of MSA at Release 6.
- `NamedAsGeneric`: a named processor decodes a word as the generic one does
  with the same families, and every word of families it has. Exceptions are its
  own encoding space: the MOVN of an R5900, the COP2 memory words of an Octeon,
  MSA on a 3A4000 without LOONGSIMD.
- `RefusalTellsWhy`: `cdisasm_mips.h:618-619` calls an encoding the processor
  lacks INVALID and one the caller has disabled UNSUPPORTED; so a word that
  enabling a family makes decodable was not invalid before. Exceptions: Loongson
  2 words the base set of revision III refuses first, and the MSA words of a
  3A4000 with a Loongson family and without MSA.

**Bounds of the MIPS pipeline.** The twelve words are a sample of the
shared encodings, at least one for each pair of rivals that was found by decoding
random words under every family. Four families are what
two rivals with their prerequisites need (LOONGSON and FPU with ASX and MSA); with
five, 172,116 states, the properties hold too. CPU_ANY has every revision, with
paired registers where the decoders ask for them; the named processors are one
of every encoding space. The build is the full one.

**Properties of the ARM pipeline.**

- `StatesAgree`: a processor with both instruction sets gives a shared word the
  same status and name in both. Exception: a word the vector decoder recognizes
  and refuses is INVALID in A32, while T32 goes on to the coprocessor decoder,
  which may take it as a CDP, LDC, STC, MCR, MRC, MCRR or MRRC.
- `UpgradeKeeps`: what a processor accepts, each one with at least its
  capabilities accepts under the same name, CPU_ANY with its two additional
  decoders included.
- `FormsAreDecoded`: a form that validates for a processor belongs to a word that
  the decode call accepts or calls unsupported, never invalid.
- `ByteOrdersAgree`: bytes stored in the other order and announced as such decode
  alike at every length, the lengths at which T32 does not know its size
  included.
- `FamiliesCover`: the mask of a context is "the capability projection" of its
  processor (`cdisasm_arm.h:636-638`) as far as the table of families goes. Of
  each clause an accepted instruction needed the processor has a capability, and
  its family is in the mask unless it is an exception. There are two kinds. In
  A32 and T32, `OnlyInA64`: FP16, BF16, FCMA, FHM and JSCVT, which the table
  reserves to A64; a T32 context of CPU_ANY decodes VCMLA and shows no FCMA. In
  A64, `NoFamily`: the 42 features the decoders ask for and
  `arm_family_descriptors` has no row for (LOR, WFXT, SB, XS, RPRFM, I8MM, RDM,
  FRINTTS, LSFE, THE, SVE_AES, SVE_BITPERM and others, most of them defined in
  `arm_modern_decoder.c:5-79`), among them the second identities of BF16, F64MM
  and FP8. Of these the named processors have LOR alone; CPU_ANY has all. The
  compiled `cdisasm_arm_decode_core` was asked for its requirements to A64 and
  shared words, enumerated, and names nothing outside the two sets and the table.

**Bounds of the ARM pipeline.** The 60 shared words are chosen so that every
first byte, every branch of the coprocessor decoder and every status of the
vector decoder occurs, and every capability its answers name. The 33 A64 words
are HINTE words and their neighbours, hints, the MSR (immediate) fields, the
register pairs of SYSP and MSRR, words whose leaf has no operands, words that
need a feature without a family (WFET, SB, DSB nXS, RPRFM, USDOT, SQRDMLAH,
FRINT32Z, STLLRB), one that needs SVE or SME, and BF16 under both its
identities (BFCVTN, BFDOT). The ten
processors are one of each shape of the profile table: A32 and T32 alone, all
three modes, A64 alone, with and without the capabilities in question. The
selection of families takes no part in decoding, so two families suffice. What
holds for the constants of the instance alone is proved for all (section 5).

**Properties of the detection.** `NamedIsShared`: a named answer is the profile
of every CPU that was online throughout. `CalmIsAnswered`: where nothing changes
or fails and all online CPUs share a named profile, that profile is returned;
without it a detection that always answers UNKNOWN would be correct.
`QueryReturns`: the call returns (`CallReturns` where it is the subject).
`AnswersWhatFileSays`: the parser names a profile exactly if
every record of the file names one core of that profile. `ReadsExactly`: the
number is exact or refused.

**Bounds of the detection.** Three CPUs are what a profile that is found, agreed
on and contradicted needs; two named cores and an unknown one are all the
catalog can tell apart, and of the machines that differ only in which CPU has
which core one is kept, since the CPUs are visited in any order; the three layouts are a blank line after each CPU, none
with a long last line, and a line that matters but is too long. A long line has
a kind by its first piece and another that its second piece would have as a
line of its own (`rest`): the code must not look at the second, and the mutant
`ReadLine_ReadsRest`, which does, breaks `CalmIsAnswered`. Further pieces add
nothing to that. Six lines hold
two records and a separator, or one record with a repeated field. Ten bits hold
two and a half digits, so that the limit is not at a digit's boundary; the real
32 bits are proved.

**Properties of the cursor.** `Final`: any answer but TRUNCATED is the answer for
every longer buffer. The exception is written into it: a lone FWAIT is answered
at once and taken back when an x87 instruction with a waiting form follows; the
code does this on purpose. `Prompt`: an instruction is answered in the call that
has its last byte. `NoMoreThanLimit`: a caller with as many bytes as the limit
is not asked for more. Again the exception is explicit: `decode_x87` looks for
the ModRM byte in the buffer before the limit is tested, so an x87 escape in
byte fifteen of a fifteen-byte buffer is TRUNCATED, and INVALID once a sixteenth
byte is there. `WaitMeetsItsInstruction`: a WAIT is fused only with an
instruction that has a waiting form, and the internal error of `decode_x87` is
never reported. `PrefixesRead`: the effective prefixes are what the bytes say,
in any order and number. `Partition`: the recorded fields follow one another
without gap or overlap and end where the instruction ends. `CallsReturn`.

**Bounds of the cursor.** The limit is a constant and has its real value here;
segment prefixes bring a stream near it. `Sent` is two more than the limit, so that every answer is
asked for again with bytes to spare. The nine prefixes are one or two of every class. The
46 opcodes are at least one of every form of the map and each one that a handler
singles out; the 14 ModRM bytes have every kind of address and the register
numbers the handlers tell apart. The model is a transcription for all 256
opcodes, and section 7 says how that was confirmed.

**Properties of the pipeline.** Each carries the exceptions the code makes, so
that they are on record.

- `VerdictsFinal`: what has been said of an encoding stays said when more bytes
  arrive. An accepted instruction is accepted with the same length, whatever is
  selected later; a refused one stays refused; one that is not supported does
  not become something else without a new selection. The exceptions: UD0 behind
  REX2 has a short row and a long one, so that selecting the second changes the
  length, and behind eleven prefixes the next byte takes the acceptance back,
  since the long row would pass the limit; stack pairs (finding 4), CCMP and
  CTEST are refused until the byte after the opcode is there; the forms `Retried`
  names until the sixth byte is; an opcode without a row is unsupported, and with
  U=0 in front of a register invalid.
- `DecodersAgree`: what the hand-written decoder accepts and the generated table
  contains, the generated decoder accepts with the same length, so that
  `cdisasm_x86_attach_generated_identity` finds its row. Exceptions: POP2 naming
  RSP, which only the generated rows refuse, and the immediate of IMUL 69 under
  W=1 and a 66 prefix: four bytes for the hand-written decoder and two for the
  generated one, so the identity is missing from the record.
- `BuildsAgree`: what the full build accepts, the build without the extra
  opcodes calls unsupported, never invalid or truncated.
- `Prompt`: with fifteen bytes nothing more is asked for, but for a user-MSR
  opcode in byte fifteen, whose ModRM byte is looked for before the limit is.

**Properties of the x86 contexts.**

- `RefusalIsDeselection`: in 64-bit mode a context with the flags of its
  processor refuses, of what the processor decodes, only instructions whose
  family is available and not selected. It compares the capabilities with the
  flags, the exact bits and the descriptors, for every processor. Exception:
  SEAMCALL (finding 6).
- `UmbrellasKeep`: `cdisasm_x86.h:345-347` promises that the older flags remain
  umbrellas of those appended; so while one is set, clearing a flag it covers
  refuses nothing.
- `GenericKeeps`: while no opt-in family is selected, what any context accepts a
  new one of CPU_X86 in that mode accepts. Exception: 16-bit mode, where the
  generic processor reads PAUSE and LZCNT and has no family for them.

**Bounds of the x86 contexts.** All 53 processors in each of their modes, and
requests that fail. A context is edited in two places at a time, of eight flags
(four umbrellas with a flag each covers) and seven families (of every mode,
opt-in and not): an edit and its counterpart are what the properties relate.
Umbrella and covered flag are compared for all flags by the proof of
`UmbrellasCover`, for any number of edits.

**Bounds of the pipeline.** A stream is one encoding with each field the
decoders look at in a few values, its ModRM bytes being a register, a memory
operand, the stack pointer and a SIB, alone and behind four prefix sequences;
ten segment prefixes bring it to the limit. The mode is 64 bit, where all of the
encodings exist, and the processor CPU_X86, which has every bit.

`CHECK_DEADLOCK FALSE` is set where the modelled activity ends: the detection is
one call, a file has an end, the streams are bounded. The contexts never stop and
are checked for deadlock.

## 4. Fairness

- `MipsContext`: `WF_vars(LoopStep)`. The loops are plain C inside one call;
  nothing interrupts them for ever. That the caller calls again is not assumed.
- `ArmDetection`: `WF_vars(CallStep)`. The host runs the process; hotplug and
  failures are outside it, so that they may happen at every step or never. The
  call must return even if CPUs come and go without end: each step consumes a
  directory entry, a CPU or a line.
- `X86Cursor`: `WF_vars(Step)`. A call is a function that runs to its end. That
  the caller gets another byte (`Call`) is not assumed.
- `MipsPipeline`, `X86Pipeline`, `X86Contexts` and `ArmPipeline` have none: a call
  is one step, and nothing is promised about what its caller does next.

## 5. The proofs

All proofs are checked by TLAPS down to the last leaf. The assumptions are the
named ones of the modules: constants range over the tables (`ContextAssumption`,
`BuildAssumption`), cores are pairs of numbers and a layout begins with its
processor line (`DetectionAssumption`, `LayoutAssumption`, `NeonAssumption`), the
lines of a file are records of the parser's kinds (`TextAssumption`), a
word has at least one digit (`WordAssumption`), the shared words are words both
instruction sets have and the decoders answer with a status, a name and
clauses (`VectorAssumption`, `CoreAssumption`), whose capabilities are listed in
the table of families or named as unlisted, `NoFamily` in A64 and `OnlyInA64` in
the other modes (`NeedsAssumption`; TLC evaluates it of the answers in
`MCArmPipeline`, which include both kinds), the limit is positive and the
stream consists of bytes (`CursorAssumption`), requests name processors and edits
flags and families of the tables (`RequestsAssumption`).

| Theorem | States | For every |
| --- | --- | --- |
| `MipsContextProofs!TypeCorrect` | `TypeOK` | processors, revisions, encodings, requests, build |
| `MipsContextProofs!ContextsImplementSelection` | `ImplementsFamilySelection` | the same |
| `MipsContextSoundness!SelectionsAreSound` | `SelectionSound` | the same, in a `WholeLoongsonBuild` |
| `MipsContextSoundness!ContextsDecode` | `ContextDecodes` | the same, with `NoGenericCompact` too |
| `MipsContextSoundness!RemovalsSucceed` | `RemovalSucceeds` | the same, without assumption |
| `MipsContextSoundness!CallsKeepAcceptance` | `AcceptedStaysAccepted` | the same, with `NoGenericCompact` |
| `MipsPipelineProofs!OrderDoesNotMatter` | `OneFamilyDecodes` | callers, selectable families, number selected |
| `MipsPipelineProofs!NamedLikeGeneric` | `NamedAsGeneric` | the same |
| `MipsPipelineProofs!RecordsReplay` | `Replays` | the same |
| `ArmDetectionProofs!DetectionTypes` | `TypeOK` | number of CPUs, cores, layouts |
| `ArmDetectionProofs!NamedAnswersAreShared` | `NamedIsShared` | the same |
| `ArmDetectionProofs!CalmMachinesAnswered` | `CalmIsAnswered` | the same |
| `ArmDetectionProofs!ParserSaysWhatFileSays` | `AnswersWhatFileSays` | lines, length of the file |
| `ArmDetectionProofs!NumbersAreExact` | `ReadsExactly` | word size, length of text |
| `ArmPipelineProofs!SessionsTyped` | `TypeOK` | words, decoder answers, leaves, processors |
| `ArmPipelineProofs!BothStatesAgree` | `StatesAgree` | the same |
| `ArmPipelineProofs!UpgradesKeep` | `UpgradeKeeps` | the same, with `PriorityApart` |
| `ArmPipelineProofs!ValidFormsDecoded` | `FormsAreDecoded` | the same |
| `ArmPipelineProofs!FamiliesCovered` | `FamiliesCover` | the same |
| `ArmPipelineProofs!OrdersAgree` | `ByteOrdersAgree` | the same |
| `X86CursorProofs!CursorTypes` | `TypeOK` | limit, stream, modes |
| `X86CursorProofs!LimitHolds` | `NoMoreThanLimit` | the same |
| `X86CursorProofs!WaitsMeet` | `WaitMeetsItsInstruction` | the same |
| `X86CursorFinality!AnswersAreFinal` | `Final` | the same |
| `X86CursorFinality!AnswersArePrompt` | `Prompt` | the same |
| `X86CursorFinality!PrefixesAreRead` | `PrefixesRead` | the same |
| `X86CursorFinality!FieldsPartition` | `Partition` | the same |
| `X86DecodeProofs!SubjectsTyped` | `BothTypeOK` | streams, selections, limit, both builds; requests and edits |
| `X86DecodeProofs!AsksInTime` | `Prompt` | streams, selections, limit, both builds |
| `X86DecodeProofs!SmallBuildSaysSo` | `BuildsAgree` | the same |
| `X86DecodeProofs!DecodersMeet` | `DecodersAgree` | the same, where the bits of APX can be selected |
| `X86DecodeProofs!ContextsOwned` | the invariant `Owned` | requests, edited flags and families, number of edits |
| `X86DecodeProofs!UmbrellasCover` | `UmbrellasKeep` | the same |
| `X86DecodeProofs!RefusedIsDeselected` | `RefusalIsDeselection` | the same, under the closed hypothesis `TablesCover` |
| `X86DecodeProofs!GenericAccepts` | `GenericKeeps` | the same, under the closed hypothesis `GenericCovers` |

**Contexts.** The type invariant is inductive. Refinement is not a consequence
of it: that a finished loop has found the least or greatest set is a fact about
the loop. `IInv` adds what the loops keep: during an add, the local set lies in
every closed superset of the requested family; during a removal, every standing
selection without the family lies in the local set; and the selection between
calls is supported. A step of the loop keeps both (a family the loop drops is in
no standing selection), and where nothing is left to add or drop the local set
stands itself. That
every table the availability is computed from contains the parents of its
members, for every build, is shown first (`EncodingFamiliesClosed`).

`MipsContextSoundness` proves what the calls promise about decoding. A
selection without contradictions stays without them: creation computes one
(`CreatedConsistent`, a case for each group of processors), an add checks for
them, and a removal keeps a part of what was selected, which is consistent as a
part of a consistent set unless it orphans LOONGSON (`PartConsistent`), which
the loop prevents. To show that the decoders accept such a selection, the
invariant also says that the policy of a context is one its creation has
checked (`PolicyInv`) and that the mask is the table of that policy; then the
tables `prepare_v2` refuses vendor families from are compared with those the
mask was taken from (`CompactOffersNoVendor`, `LayoutHarmless`). Two of the
theorems have assumptions on the instance, `WholeLoongsonBuild` (LOONGSON is
built with its generations) and `NoGenericCompact` (no context pairs CPU_ANY
with MIPS16 or microMIPS). The runs `context_partial_build` and
`context_compact_any` refute the promises where an assumption is dropped, so
the findings 1 and 2 are all that stands between the code and these promises.

**Detection.** `NamedIsShared` needs the history of the scan: while the directory
is read, every steady CPU is still to come, or has been read and found to have
`selected` as its profile, or has left `incomplete` set; while `/proc/cpuinfo`
is read, every steady CPU is still to come, is the one being read, or has its
record in the parser. The latter relates the parser's fields to the CPU whose
lines are being fed, and is carried from line to line by lemmas on `Feed`.

`CalmIsAnswered` is the other direction, and its invariant `CalmInv` says for
each profile `q` what a call finds on a machine that is at rest and all of whose
online CPUs have `q` (`Quiet`): the scan has merged nothing but `q`, has merged
it unless it has passed no online CPU, and has left nothing out if there are
MIDR files (`QuietScan`);
the parser has found nothing but `q`, and where a record is open its fields are
those lines of `HasRead` that the CPU at hand has shown (`QuietParse`). That each
line is accepted needs three facts: the widths of the catalog's cores
(`NamedCoreFits`), that a CPU's lines hold implementer and part once and before
any blank line (`Describes`), and that a whole record of a `q` core finishes
(`WholeFinishes`). The invariant was checked by TLC on the machine of
`arm_detection` before it was proved.

**File parser.** `AnswersWhatFileSays` cuts the whole file into sections; the
parser sees one line at a time. The proof spells a section by its first and
last line (`Section`, `Record`) and keeps track of the one at the end of the
file that further lines may join (`OpenAt`). Invariant `FileInv`: a parser that
has refused nothing has kept of the open section which fields it holds and
their values (`Fields`), and of the records before it the profile all of them
name (`Before`); of a parser that has refused, the file has, for each profile, a
record that does not name it (`Unnamed`), and more lines cannot mend that. What
a line does to the sections is proved without the parser (`OpenMoves`,
`ClosedSections`, `ClosedRecords`): a processor or blank line closes the open
section and leaves all others alone, any other line joins it. What it does to
the parser then has four cases, one lemma each: the record is finished
(`CutFollows`) or fails to (`Closing`, `CutKeeps`), a field is taken in
(`JoinFollows`) or spoils its record (`SpoiltRecord`, `SpoiltProcessor`).

**Number parser.** Invariant: what has been read is what the text stands for.
The one arithmetic fact is `OverflowCheck`: the comparison against
`(MaxWord - d) / 16` is the test whether `16 * n + d` exceeds the word.

**ARM pipeline.** The six properties are about the answers to one word, so
their proofs are lemmas on the operators, lifted to sessions by `TypeOK`, which
is inductive. `ChainsAgree` compares the two orders case by case: the
translation to T32 is undone exactly (`TranslatedBack`), a word whose first byte
changes is none of the coprocessor's (`NotCoprocessor`), and where the vector
decoder accepts, either T32 has probed it or the coprocessor decoder leaves the
word alone, which is the last part of `VectorAssumption`. `UpgradesKeep` holds
under `PriorityApart`: the HINTE decoder takes no word the A64 decoder accepts
or the tree has a leaf for. The mutant that takes the MSR encodings breaks this
hypothesis and, in the run, the property. `OppositeReads` shows that the
halfwords read from a stream stored one way are those read from the stream
stored the other way with the opposite option, at each length.
`FamiliesCovered` needs to know that an edit leaves the mask as it was created
(`MaskInv`), and `NeedsAreListed`: whatever branch of the chain accepts a word,
the processor has a capability of each clause it asks for, and that capability
is in the table for the mode or among the exceptions. What is proved beyond the
table lookup is that no branch (HINTE, the tree, the T32 probes, the coprocessor)
and no edit brings in another case.

**Cursor.** `CursorTypes` is where the bounds of the buffer are proved: the
position never passes the buffer or the limit, because each read is behind a
`Require` of as many bytes (`RequireBounds`). `LimitHolds` follows from the
order of the two tests in `decoder_require`: a TRUNCATED answer implies that the
bytes asked for were within the limit. `WaitsMeet` needs an invariant that
spans the two scans, `WaitInvariant`: once `prefix.wait` is set there is a place
`k` such that the bytes 2 to `k` of the tape are prefixes, the byte behind them
is an x87 opcode and the one behind that a ModRM byte that makes it a waiting
form, all in the buffer and inside the limit (`Promise`), and the second scan
has not gone past `k` (`Kept`). Since no x87 opcode is a prefix and no prefix is
REX2, the scan can stop nowhere else.

**Answers of the cursor.** `Final` and `Prompt` relate answers of different
calls, so their invariant has to say what a call answers. `X86CursorFinality`
writes it down as constant functions of a stream `F`, the mode and the number
`n` of bytes: `FromImmediates`, `FromDisplacement`, `FromSib`, `FromModrm` and
`FromOpcode` are the status and length that follow from each place of the
decoder, and `Means` joins them to the prefixes. Four parts:

1. Facts about these functions: an answer that is not TRUNCATED for `n` bytes is
   the answer for `n + 1` (`ImmediatesStable` to `MeansStable`, the lone FWAIT
   apart), and one that is TRUNCATED for fewer bytes than the instruction has
   (`ImmediatesEnough` to `MeansEnough`). The exceptions the properties name are
   where these lemmas need them.
2. `CursorFollows`: on every stream that agrees with the tape, what the call
   under way has still to answer is what its function says from its place on.
   The tape records only bytes that were looked at, and a step may add one; then
   fewer streams agree, and what holds of all of them keeps holding
   (`StillAgrees`). One lemma per action.
3. `CursorRemembers`: what has been settled is what the function says for the
   number of bytes it was settled at, and for every number since.
4. The theorems: `Final` from 1 and 3, `Prompt` from 3 and `MeansEnough`.

`PrefixesAreRead` adds `CursorTells`, that the prefixes collected so far are what
the bytes read so far say; that two such readings are equal is `SaysUnique`.
`FieldsPartition` adds `CursorChains`: an offset is 0 or the end of the field
before it, and the position is the end of the last. `FieldsMeet` turns the
chain into eight boundaries between which the fields lie.

The first attempt at these proofs failed, for a good reason: `ModrmStable` is false
for a byte 8F whose next byte selects XOP, if that byte is the sixteenth. The
code reads it through `read_u8`, which refuses it at the limit
(`x86_decoder.c:1105`); the model looked at it without that test and answered
INVALID with fifteen bytes and went on with sixteen. `Peeked` now has
the test, and the run the ModRM byte that shows it.

**x86 contexts.** `Owned` says that a context is the cleared one or has the mask
its processor was created with and a selection within it; the edits keep it
because they change the flags and the selection only. `UmbrellasCover` then is
about one step that clears a flag: what was admitted by the flag is admitted by
its umbrella (`AdmittedUnderUmbrella`), since an umbrella is its own umbrella
(`UmbrellaOfUmbrella`), and the families are the same. `Owned` is needed because
a cleared context accepts nothing by another rule than the others.

`RefusalIsDeselection` and `GenericKeeps` are about contexts that were edited any
number of times, and about tables. The proofs take the two apart: of a context
nobody edited the two properties say something of the tables alone,
`TablesCover` and `GenericCovers`, closed statements over every processor and
instruction that TLC evaluates (`TablesAssumption` in `MCX86Contexts`) and the
theorems have as hypotheses; that no edit leads away from them is proved, from
`Masked` (the mask is the processor's, whatever is edited), `Owned` and the fact
that more flags admit no less (`AdmitsMore`). So what the two theorems add to
the run is invariance under edits, not the tables, which are evaluated whole.

**x86 pipeline.** The invariant is `Answered`: the last answer is what the
decoder says of the first bytes of the stream to the bits selected. What the
properties say of answers is then a matter of the decoders, proved for all
sequences of bytes.

- `BothTypeOK` and `Prompt`: what each reader of a field finds lies in the buffer
  and inside the limit, and to a buffer as long as the limit none of them answers
  TRUNCATED (`PrefixesCounted`, `ModrmFound`, `OpcodeLocated`, `FinishTests`,
  `HandIsSound`, `GeneratedSound`).
- `BuildsAgree`: the hand-written decoder of the build without the extra opcodes
  answers what the other does, or UNSUPPORTED (`HandSmaller`), and so does the
  retry around it (`DecodeSmaller`).
- `DecodersAgree`: where the hand-written decoder accepts an encoding of the shared
  EVEX map, the generated one reads the same payload from the same bytes
  (`EvexGenerated`), all rows of the opcode's bucket that can match give the
  same length, and one of them does match (`Pop2Native`, `ImulNative`,
  `ZeroNative`). `BestRow`, the row with the greatest score, exists because the
  scores are bounded: the library's theorem on well-founded relations gives the
  greatest of a set of numbers without an induction (`GreatestOf`). The
  hypothesis, that some caller may select the bits of APX, is what CPU_X86 has.

The model changed where it could not be reasoned about: overlapping CASE
guards, of which TLC takes the first and the logic any, became IF; the rows of
the zero-operand bucket are an explicit function. And where it was wrong:
`VerdictsFinal` claimed more than the code does. The exceptions it names now were found
while trying to prove it and confirmed with the compiled library.

**MIPS pipeline.** `OneFamilyDecodes` is about the families in force for a request
that the decoder accepts. `ViewConsistent` shows what `conflicting_features`, the
tables of the revisions and the policy of the processor leave of them; `Needed`
says for each of the ten decoders what must be in force for it to decode a word,
one lemma per decoder; and `NeededOnce` that no two of them have it. R5900 is
the one decoder that answers while its family is not in force (`MOVN`, on the
R5900 itself), which is why `Consistent` says what that processor has besides.

`NamedAsGeneric` compares two decodes of a word. Their views differ in the policy
word alone, and in the register layout of the R5900 (`GenericRequest`). Where the
processor has no policy of its own, or has its family selected, no decoder sees the
difference (`AlikeCore`). Where it has not, it is bare: `NetLogicBare`,
`AllegrexBare`, `R5900Bare` and `MsaKept` show that then only refusals and the
processor's own space differ (`CoresCompared`). What the two cores agree on can
still be told apart by the check of the needed families: `CoreForms` says which
decoder a form comes from and with what enabled, hence `CoreNeeds`, that the
request has what the form needs but in that same space.

`Replays` compares a decode with a second one, by the generic processor with
nothing in force but what the form needs (`Replayed`). Whichever decoder gave the
answer (`CoreSource`), it gives it again, one lemma per decoder: those asked before
it are not asked at all, as their families are not in force, or have nothing to
say of the word; of the inventory the same row is the first enabled, since every
row enabled in the replay was enabled before (`InventoryAgain`). `CoreReplays`
joins them. That the request is accepted is the other half: what a form needs
is one of 24 sets (`NeedSets`), each closed and without contradiction, the register
layout included (`NeedSetsClosed`, `NeedSetsSound`), and was in force, hence offered to
the generic processor too, but for the two spaces a processor has unasked
(`Requestable`, `NeedsOffered`).

**Model-checked only.** Liveness (`EveryCallReturns`, `QueryReturns`,
`CallsReturn`) is out of the prover's reach. `VerdictsFinal` of the x86 pipeline
and, of the MIPS pipeline, `EnablingKeeps` and `RefusalTellsWhy`
compare whole decodes of different requests; they are checked by TLC on the
instances above, and proofs are planned.

## 6. Findings

1. **A context accepts a family its decoder refuses** (`context_compact_any`,
   `src/mips/cdisasm_mips.c:419`). `add_family` checks a family against the
   family mask and the conflicts, not against the encoding; `prepare_v2`
   (`:763-769`) refuses vendor families in the compact encodings. On CPU_ANY,
   64 bit, revision III, MIPS16, adding LOONGSON2E succeeds; from then on every
   decode answers INVALID_ARGUMENT, and V3 refuses even the removal that would
   repair it.
2. **A partial build breaks a processor** (`context_partial_build`,
   `cdisasm_mips.c:300`). Without `USE_MIPS_LOONGSON2E` the default selection of
   CPU_LOONGSON2E keeps the LOONGSON umbrella without a generation, which
   `conflicting_features` rejects: every instruction of that processor answers
   INVALID_ARGUMENT, base integer instructions included.
3. **PUSH with REX.W behind 66** (`x86_rexw`, `src/x86/x86_decoder.c:13567`).
   The immediate of opcode 68 is sized by the 66 prefix alone, while the file
   itself says at 3410, in the handler of XBEGIN but as the general rule, that
   "an effective REX.W takes precedence over an earlier 66 prefix": `66 48 68` is decoded with a two-byte immediate.
4. **A stack pair is refused until it is complete** (`x86_stack_pair`,
   `x86_decoder.c:9120`). `decode_apx_evex` hands POP2P on only when the ModRM
   byte is in the buffer; without it the encoding meets the checks of ordinary
   POP: `62 f4 fc 18 8f` is INVALID and, with one byte more, an instruction.

5. **A new ARM context is big-endian** (`arm_fresh_context`,
   `src/arm/cdisasm_arm.c:425`). `cdisasm_arm_cpu_decode_context` stores the mask
   of all options the mode accepts as the options of the context, so that
   BIG_ENDIAN is set, and IN_IT_BLOCK in T32; `cdisasm_arm.h:697-698` says that
   input "is little-endian by default". The same bytes decode differently
   through a new context and through a call without flags.

6. **Families that no context can enable** (`x86_family_modes`,
   `src/x86/cdisasm_x86.c:688`). The mask of a context is cut to the modes of the
   family descriptors, which are narrower than what the decoder decodes. On the
   AMD K6-2 in 16-bit mode `cdisasm_x86_decode` gives FEMMS for `0f 0e` with the
   flags of the context, and `cdisasm_x86_decode_with_context` refuses it whatever
   families are added; likewise SSE in 16-bit mode, EVEX vectors below 64-bit
   mode, and SEAMCALL in 64-bit mode, which every processor decodes and three
   have the family of. `cdisasm_x86.h:370` calls the mask "All special families
   available for this CPU and mode."

Two exceptions of `MipsPipeline` are defects rather than design. They were
confirmed with the compiled library.

- A record that cannot be used: SAAD (`0x73840019`) decodes on a default
  OCTEONP, and LSA (`0x00080805`) as the MSA form on CPU_ANY at Release 6 with
  the default selection; the families reconstructed for both are not the ones they
  were decoded with, so that `cdisasm_mips_instruction_validate` answers 0, the
  family mask is empty and the formatter prints nothing. `README.md:774-779`
  says that a record reports the options that replay it and that only forged
  records are refused.
- A status that misleads: on a 3A4000 with LOONGSIMD enabled and MSA disabled,
  the MSA words of the primary opcode 30 are INVALID instead of UNSUPPORTED. The
  second decode enables MDMX too, whose inventory rows come first and need a
  family the processor lacks; the comment at `mips_extra_decoder.c:119-123` says
  that the private eligibility "preserves disabled-family status".

The exceptions of `FamiliesCover` led to two more, which no run checks; they were
confirmed with the compiled library too.

- Two identities of one ARM feature: the profiles and the tree mean BF16 by 34, as
  `arm_decoder.h:82` says, while `ARM_MODERN_FEATURE_BF16`
  (`arm_modern_decoder.c:34`) is 41. BFDOT (`0f40f000`) and its neighbours are
  INVALID on every named processor, the Apple A18 included, which has BF16, shows
  the family and decodes BFCVTN (`0ea16800`). The opposite slip:
  `ARM_MODERN_FEATURE_CMH` (`:18-19`) is 10, the generated ordinal without the
  offset of 36, which is the bit of LSE, so that STCPH (`d503269f`) decodes on an
  Apple A11.
- Forms of decoded instructions that do not validate: the decoder of ADD
  `04000000` asks for SVE or SME (`cdisasm_arm.c:147`), its leaf lists both and
  `arm_gen_leaf_requirements_admit` demands both (`arm_generated_decoder.c:189`).
  On the Apple A18 and the A64FX, which have one of them, the word decodes with
  form 2221 and `cdisasm_arm_validate_form` of the two is INVALID_INSTRUCTION.

Two further observations, made with the compiled library, are in the code the
model transcribes and are kept as they are: the retry accepts the reserved-mask
form `62 f4 6c 19 44 c0` of CMOVcc, against the comment at
`cdisasm_x86.c:1656-1659`; and the FP16 memory forms with U=0 are accepted bare
but INVALID behind a segment override, since `x86_should_retry_generated_after_invalid`
looks for the lead at the first byte only (`cdisasm_x86.c:43`, `:50`).

## 7. How faithful the models are

Five models were compared with the compiled library, and the constants of a
sixth were read off it.

- `MipsPolicy`: for each of the 36 processors, 2 modes, 15 revisions and 7
  encodings, 7,560 in all, the available and default families and the status of
  an empty decode agree with the C code.
- `MipsPipeline`: all 172,116 states of its run with five families, and 249,924
  of one with all 36 processors, paired registers everywhere and four families:
  status, form and register layout agree with `cdisasm_mips_decode`.
- `X86Opcodes` and `X86Cursor`: for all 256 opcodes, 20 ModRM bytes, 2 SIB
  bytes, 12 leading sequences, 3 modes and buffers of 1 to 11 bytes, 327,908
  calls, status, length and every field of the encoding agree with
  `cdisasm_x86_decode_core`; calls that the model hands on are not compared.
- `X86Pipeline`: on 3,000 random calls over its encodings, with every prefix
  sequence, cut and selection, status and length agree with
  `cdisasm_x86_decode` in the build with the extra opcodes and in the one
  without.

- `X86Profiles` and `X86Contexts`: for the 68 instructions and all 136 pairs of
  processor and mode, 9,248 rows, decoding, required flag, family and acceptance
  with the processor's own flags, the default families and all of them agree
  with the C code; so do the answers under each single flag and under none, for
  each row that decodes.
- `ArmPipeline`: the answers of the vector and A64 decoders, what they require,
  and the leaves of the tree in `MCArmPipeline` are those of the compiled
  library.

Each property has a mutant in its module, a definition changed as a plausible
bug would change it (named `Definition_WhatIsWrong`, with a comment that says
so), under which TLC finds the property violated.

Abstractions: flag words are sets; a line of `/proc/cpuinfo` is a record of what
the parser distinguishes; file contents are what the kernel's state implies; the
values of displacements and immediates and the operands of instructions are left
out; so is all wording.

## 8. What is not modelled

- *MIPS contexts*: NULL arguments; callers who edit the context's words other
  than FPR32; the unverified Allegrex policy of V3; everything behind the
  empty-input check.
- *ARM detection*: the lexical part of the parser (keys, blanks); the
  paths; x86 and Apple detection, which are straight-line classifications of
  register values.
- *MIPS pipeline*: words that only one family lists; builds without some of the
  families, whose decoders are stubs; the compact encodings and the VU pair,
  which other functions decode; operands and effects; defaults (a caller without
  an explicit selection); truncated buffers.
- *x86 pipeline*: the hand-written decoder outside the encodings it shares with
  the table; the rows of other buckets (the walk over them is the same); 16 and
  32 bit mode; named processors; the operands and groups of the record.
- *ARM pipeline*: 16 bit T32 and the words that A32 and T32 do not share; the
  decoders behind the constants, which extract operands; leaves of the tree that
  depend on the capabilities of the processor; form validation outside A64 and
  alias selection; the build without the extra opcodes.
- *x86 contexts*: NULL arguments and invalid flag words; edits of the flags from 64
  on, of which a processor's own are kept; instructions that only the generated
  decoder has, or that are refused for one of those flags; the build without the
  extra opcodes, whose contexts have no optional families.
- *x86 cursor*: the 0F, VEX, XOP, EVEX and REX2 maps (the model hands them on);
  processors with fewer capabilities than CPU_X86; the build without the extra
  opcodes; operands and classification.
- *Not at all, so far*: effects, formatters, dispatcher. Instruction semantics and
  generated tables are data without control and will stay out.

`PROJECT.json` lists each component with its status and, under `hazards`, each
hazard at its line with the properties about it.

## 9. The plan

Written, in this order: the MIPS contexts (the only long-lived state of the
library) with their abstract specification; the ARM detection (the only code
that runs against a changing environment); the x86 cursor (the code every x86
byte goes through), the x86 pipeline (where two decoders must agree), the MIPS
pipeline (where a dozen decoders share the encoding space), the ARM pipeline
(where two instruction sets share words and decoders), the x86 contexts (where
the tables of a processor must agree). To come:

1. `X86TwoByteCursor`: the 0F, VEX, EVEX and REX2 maps in place of the
   `HANDED_ON` answers, with `Final`, `Prompt` and `Partition`.
2. `X86Contexts` with the flags from 64 on and with the instructions of the
   generated decoder.
3. `MipsCompact`: the pair decode of the VU (`cdisasm_mips.c:971-1013`) and the
   compact encodings, with the replay of their records; `MipsEffects`, the
   bounded list.
4. `FormatBuffer`: required length, truncation and terminator of the formatters;
   the dispatcher; CPUID and Apple classification as operators.
5. Theorems: `EnablingKeeps` of the MIPS pipeline; `VerdictsFinal` of the x86
   pipeline.

## 10. How to run it

```sh
tlc -workers 2 -config x86_cursor.cfg MCX86Cursor.tla    # one run; PROJECT.json names the module of each
tlapm X86CursorProofs.tla                                # one module of proofs
```

The longest runs are `x86_cursor`, `arm_detection`, `mips_pipeline` and
`x86_pipeline`, one to three minutes on two workers;
the proofs take about twelve minutes in all.
