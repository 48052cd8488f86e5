---------------------------- MODULE MipsPipeline ----------------------------
(***************************************************************************)
(* The order in which the MIPS decoder asks its families about one word    *)
(* (cdisasm_mips_decode and cdisasm_mips_decode_core in src/src/mips).     *)
(*                                                                         *)
(* A dozen decoders are asked, one after the other, and several of them    *)
(* list the same encodings with another meaning.  Modelled are twelve      *)
(* words that at least two of them list, with every decoder that is asked  *)
(* about them.  What a decoder makes of a word is its form number; the     *)
(* operands are left out, they never change who answers.                   *)
(*                                                                         *)
(* One caller decodes one word again and again while it enables families.  *)
(***************************************************************************)
EXTENDS MipsPolicy, SequencesExt

CONSTANTS
  Callers,       \* the processors, modes, revisions and register layouts
  Selectable,    \* the families the caller enables
  MaxSelected    \* bound on the families enabled at once

\* The decoders of a family left out of the build are stubs, and not here.
ASSUME FullBuild == BuildFamilies = Families /\ ExtraOpcodes

ASSUME CallersAssumption ==
  /\ Callers \subseteq [cpu : AllCpus, mode : Modes, rev : Revisions,
                        fpr32 : BOOLEAN]
  /\ Selectable \subseteq Families
  /\ MaxSelected \in Nat

-----------------------------------------------------------------------------
(* Answers.  A view is what the decoders see of a request: mode, revision, *)
(* on (word 0 of the effective flags) and policy (the private word 7).     *)

Unsupported == [status |-> "UNSUPPORTED_INSTRUCTION", form |-> 0, fpr32 |-> FALSE]
Invalid     == [Unsupported EXCEPT !.status = "INVALID_INSTRUCTION"]
Ok(f)       == [Unsupported EXCEPT !.status = "OK", !.form = f]

\* A mask-and-value table, as the words it matches and their forms.
Listed(table, w, otherwise) ==
  IF w \in DOMAIN table THEN Ok(table[w]) ELSE otherwise

\* The two early returns nearly every family decoder starts with.
Guarded(unsupported, invalid, answer) ==
  IF unsupported THEN Unsupported ELSE IF invalid THEN Invalid ELSE answer

\* The first of a list of decoders that has an answer.
FirstAnswer(answers) ==
  LET k == SelectInSeq(answers, LAMBDA a : a # Unsupported)
  IN  IF k = 0 THEN Unsupported ELSE answers[k]

Asked(v) == v.on \cup v.policy

\* MMIxx: function xx of the primary opcode 28 (SPECIAL2); OP62, COP2, ASX:
\* the opcodes 62, 18 and 59; LSA, MOVN: functions 5 and 11 of SPECIAL; SQ:
\* function 24 of opcode 31; QUAD, COPY, INSERT: words of opcode 30.
Mmi   == {"MMI17", "MMI25", "MMI53"}
Quads == {"QUAD", "COPY", "INSERT"}
Words == Mmi \cup Quads \cup {"OP62", "LSA", "MOVN", "SQ", "COP2", "ASX"}

Legacy     == {"I", "II", "III", "IV", "V"}
Wide2To5   == {"64R2", "64R3", "64R5"}
Release2Up == Wide2To5 \cup {"32R2", "32R3", "32R5"} \cup R6

-----------------------------------------------------------------------------
(* Decoders of a processor's own encoding space.                           *)

Xlp(w, v) ==
  Guarded(v.rev # "64R2" \/ (v.mode = 64 /\ "XLP" \notin v.on), v.mode # 64,
          Listed([MMI17 |-> 65022, MMI25 |-> 65028], w, Unsupported))

Xlr(w, v) ==
  Guarded(v.rev # "64R1" \/ (v.mode = 64 /\ "XLR" \notin v.on), v.mode # 64,
          Listed([MMI17 |-> 65002, MMI25 |-> 65008], w, Unsupported))

\* XLR and XLP own the same two of the words.
NetLogicOwned == {"MMI17", "MMI25"}

MxuServes(v) == v.mode = 32 /\ v.rev \in {"32R1", "32R2", "32R3", "32R5"}

MxuGeneration(families) ==
  IF "MXU3" \in families THEN 3 ELSE IF "MXU2" \in families THEN 2 ELSE 0

MxuVectorOwns(w, families) ==
  CASE MxuGeneration(families) = 2 -> w \in {"COP2", "MMI25", "MMI53"}
    [] MxuGeneration(families) = 3 -> w \in {"COP2"} \cup Mmi
    [] OTHER                       -> FALSE

MxuVector(w, v) ==
  LET reserved == IF MxuVectorOwns(w, Asked(v)) THEN Invalid ELSE Unsupported
  IN  IF ~MxuServes(v) \/ MxuGeneration(v.on) = 0 THEN Unsupported
      ELSE IF MxuGeneration(v.on) = 2
      THEN Listed([COP2 |-> 56020, MMI25 |-> 56202, MMI53 |-> 56332], w, reserved)
      ELSE Listed([COP2 |-> 57147, MMI53 |-> 57289, MMI17 |-> 57395,
                   MMI25 |-> 57434], w, reserved)

\* COPY and INSERT are words of MSA too, and ASX yields them to an active MSA.
LoongasxOwns(w, v) ==
  \/ w = "ASX"
  \/ w \in {"COPY", "INSERT"} /\ "LOONGASX" \in Asked(v) /\ "MSA" \notin v.on

Loongasx(w, v) ==
  Guarded(\/ ~LoongasxOwns(w, v)
          \/ ~({"LOONGASX", "LOONGSON", "FPU"} \subseteq v.on)
          \/ v.mode # 64
          \/ v.rev # "64R2",
          "FPR32" \in v.on,
          Listed([INSERT |-> 60003, COPY |-> 60004, ASX |-> 60005], w, Unsupported))

Loongsimd(w, v) ==
  Guarded(\/ w # "COP2"
          \/ ~({"LOONGSIMD", "LOONGSON", "FPU"} \subseteq v.on)
          \/ v.mode # 64
          \/ v.rev \notin Wide2To5,
          "FPR32" \in v.on, Ok(59022))

VuMacro(w, v) ==
  Guarded(~({"R5900", "R5900_VU0"} \subseteq v.on), v.mode # 64 \/ v.rev # "III",
          Listed([OP62 |-> 62013, COP2 |-> 62020], w, Unsupported))

AllegrexForms == [MOVN |-> 41011, SQ |-> 41299, OP62 |-> 40036]

Allegrex(w, v) ==
  Guarded("ALLEGREX" \notin v.on \/ v.mode # 32, FALSE,
          Listed(AllegrexForms, w, Unsupported))

\* Mutant: the coprocessor opcode 62 is gone too.
AllegrexAllowed_NotOp62(w) == w \notin {"COP2", "OP62"}

\* Opcodes an Allegrex does not have: of the words, the COP2 word.
AllegrexAllowed(w) == w # "COP2"

AllegrexOwned == {"OP62", "SQ"}

R5900Forms ==
  [MMI25 |-> 45081, MMI17 |-> 45088, SQ |-> 45110,
   QUAD |-> 45109, COPY |-> 45109, INSERT |-> 45109]

\* MOVN is of the base set, which does not ask whether R5900 is enabled.
R5900(w, v) ==
  IF v.mode # 64 \/ v.rev # "III" THEN Invalid
  ELSE IF w = "MOVN" THEN Ok(49980)
  ELSE Guarded("R5900" \notin v.on, w = "MMI53",
               Listed(R5900Forms, w, Unsupported))

R5900Owned == Mmi \cup Quads \cup {"SQ", "MOVN"}

Mxu(w, v) ==
  Guarded(~MxuServes(v) \/ "MXU" \notin v.on, FALSE,
          Listed([MMI25 |-> 50053, MMI53 |-> 50065, MMI17 |-> 50087], w,
                 Unsupported))

-----------------------------------------------------------------------------
(* The inventory: one table of several families, every row 64-bit.         *)

Row(f, needs, revs) == [form |-> f, needs |-> needs, revs |-> revs]

MdmxRevs       == {"64R1"} \cup Wide2To5
Loongson2Revs  == {"III", "IV", "V"} \cup MdmxRevs

Inventory ==
  [OP62   |-> << Row(20048, {"CNMIPS"}, Wide2To5),
                 Row(20469, {"LOONGSON_EXT", "LOONGSON"}, Wide2To5) >>,
   MMI25  |-> << Row(20065, {"CNMIPSP"}, Wide2To5) >>,
   MMI17  |-> << Row(20070, {"CNMIPS"}, Wide2To5),
                 Row(20264, {"LOONGSON2F", "LOONGSON"}, Loongson2Revs),
                 Row(20488, {"LOONGSON_EXT", "LOONGSON"}, Wide2To5) >>,
   MMI53  |-> << Row(20428, {"LOONGSON_CAM", "LOONGSON"}, Wide2To5) >>,
   COPY   |-> << Row(20159, {"MDMX", "FPU"}, MdmxRevs) >>,
   INSERT |-> << Row(20159, {"MDMX", "FPU"}, MdmxRevs) >>,
   QUAD   |-> << Row(20160, {"MDMX", "FPU"}, MdmxRevs) >>,
   COP2   |-> << Row(20178, {"LOONGSON2F", "LOONGSON", "FPU"}, Loongson2Revs) >>,
   SQ     |-> << Row(20259, {"LOONGSON2E", "LOONGSON"}, Loongson2Revs) >>,
   MOVN   |-> << Row(20424, {"LOONGSON2E", "LOONGSON"}, Loongson2Revs),
                 Row(20426, {"LOONGSON2F", "LOONGSON"}, Loongson2Revs),
                 Row(20485, {"LOONGSON_EXT", "LOONGSON"}, Wide2To5) >>,
   LSA    |-> << >>,
   ASX    |-> << >>]

RowEnabled(row, v) == v.mode = 64 /\ v.rev \in row.revs /\ row.needs \subseteq v.on

\* Rows on 64-bit floating-point registers, which paired registers lack.
NeedsWideFprs(row) == "MDMX" \in row.needs \/ row.form = 20178

InventoryAnswer(w, v) ==
  LET Narrowed(row) == "FPR32" \in v.on /\ NeedsWideFprs(row)
      k == SelectInSeq(Inventory[w],
                       LAMBDA row : RowEnabled(row, v) /\ ~Narrowed(row))
  IN  IF k # 0 THEN Ok(Inventory[w][k].form)
      ELSE IF \E row \in Range(Inventory[w]) : RowEnabled(row, v) THEN Invalid
      ELSE Unsupported

\* What makes the core ask the inventory before the common decoders.
InventoryFirst == {"LOONGSON", "CNMIPS", "CNMIPSP", "SMARTMIPS"}

-----------------------------------------------------------------------------
(* The common decoders: the base set, Release 6, the MSA and DSP modules.  *)

MsaForms == [COPY |-> 16692, QUAD |-> 16778, INSERT |-> 16861, LSA |-> 16876]

\* The 3A4000 has MSA at Release 2; its eligibility outlives its selection.
MsaRevision(v) ==
  \/ v.rev \in {"32R5", "64R5"} \cup R6
  \/ /\ v.rev = "64R2"
     /\ "LOONGSIMD" \in v.on \/ {"MSA", "LOONGSIMD"} \subseteq v.policy

Msa(w, v) ==
  IF ~MsaRevision(v) \/ "FPR32" \in v.on THEN Invalid
  ELSE Guarded(~({"MSA", "FPU"} \subseteq v.on),
               w \in {"COPY", "INSERT"} /\ v.mode # 64, Ok(MsaForms[w]))

Adduh(v) ==
  Guarded(\/ v.rev \notin Release2Up
          \/ v.rev \in R6 /\ "DSPR3" \notin v.on
          \/ ~({"DSP", "DSPR2"} \subseteq v.on), FALSE, Ok(16393))

Modules(w, v) ==
  IF w \in DOMAIN MsaForms THEN Msa(w, v)
  ELSE IF w = "SQ" THEN Adduh(v) ELSE Unsupported

Release6(w, v) ==
  Guarded(v.rev \notin R6, FALSE,
          Listed([ASX |-> 600, OP62 |-> 268, LSA |-> 332], w, Unsupported))

Extra(w, v) ==
  FirstAnswer(<< IF v.rev \in R6 /\ "DSPR3" \in v.on THEN Modules(w, v)
                                                     ELSE Unsupported,
                 Release6(w, v), Modules(w, v) >>)

Main(w, v) ==
  CASE w \in Mmi   -> Guarded(v.rev \notin Legacy \cup R6, TRUE, Invalid)
    [] w = "SQ"    -> Guarded(v.rev \in Release2Up, TRUE, Invalid)
    [] w = "MOVN"  -> Guarded(FALSE, v.rev \in {"I", "II", "III"} \cup R6, Ok(101))
    [] w = "OP62"  -> IF v.rev \in {"I"} \cup R6 THEN Invalid
                      ELSE Guarded("COP2" \notin v.on, FALSE, Ok(405))
    [] w = "ASX"   -> Guarded(v.rev \notin {"I", "II"} \/ "COP3" \notin v.on, FALSE,
                              Ok(407))
    [] OTHER       -> Unsupported

-----------------------------------------------------------------------------
(* cdisasm_mips_decode_core.                                               *)

\* A decoder that is asked answers if it has an answer, or owns the word.
Claim(asked, owned, answer) ==
  [made |-> asked /\ (owned \/ answer # Unsupported), answer |-> answer]

\* The first six answer for good; the rest are common ground.
VendorClaims(w, v) ==
  << Claim("XLP" \in Asked(v) /\ w \in NetLogicOwned, TRUE, Xlp(w, v)),
     Claim("XLR" \in Asked(v) /\ w \in NetLogicOwned, TRUE, Xlr(w, v)),
     Claim({"MXU2", "MXU3"} \cap Asked(v) # {}, MxuVectorOwns(w, Asked(v)),
           MxuVector(w, v)),
     Claim("LOONGASX" \in Asked(v), LoongasxOwns(w, v), Loongasx(w, v)),
     Claim("LOONGSIMD" \in v.on, w = "COP2", Loongsimd(w, v)),
     Claim("R5900" \in Asked(v) /\ w \in {"COP2", "OP62"}, TRUE, VuMacro(w, v)) >>

\* Two processors keep what they own from every decoder below them.
ProcessorClaims(w, v) ==
  << Claim("ALLEGREX" \in Asked(v), w \in AllegrexOwned, Allegrex(w, v)),
     Claim("R5900" \in Asked(v), w \in R5900Owned, R5900(w, v)) >>

CommonClaims(w, v) ==
  << Claim(TRUE, FALSE, Mxu(w, v)),
     Claim(v.on \cap InventoryFirst # {}, FALSE, InventoryAnswer(w, v)),
     Claim(v.rev \in R6, FALSE, Extra(w, v)),
     Claim(TRUE, FALSE, Main(w, v)),
     Claim(TRUE, TRUE, Extra(w, v)) >>

\* A refusal below the vendors is tried again with the inventory, except that
\* a processor's own silence about what it owns is final.
Probed(given, silenced, w, v) ==
  IF given.status # "OK" /\ ~silenced /\ InventoryAnswer(w, v).status = "OK"
  THEN InventoryAnswer(w, v)
  ELSE given

\* The first claim made, of a list in which one is made.
Winner(claims) == claims[SelectInSeq(claims, LAMBDA claim : claim.made)]

\* Below the vendors; the last of the common decoders always answers.
ProcessorAnswer(own, w, v) ==
  IF \E k \in DOMAIN own : own[k].made
  THEN Probed(Winner(own).answer, Winner(own).answer = Unsupported, w, v)
  ELSE Probed(Winner(CommonClaims(w, v)).answer, FALSE, w, v)

VendorAnswer(vendors, w, v) ==
  IF \E k \in DOMAIN vendors : vendors[k].made THEN Winner(vendors).answer
  ELSE ProcessorAnswer(ProcessorClaims(w, v), w, v)

CoreAnswer(w, v) ==
  IF "ALLEGREX" \in Asked(v) /\ ~AllegrexAllowed(w) THEN Invalid
  ELSE VendorAnswer(VendorClaims(w, v), w, v)

PairedRevisions == {"I", "II", "32R1"}

WithLayout(given, v) ==
  [given EXCEPT !.fpr32 = /\ given.status = "OK"
                          /\ v.rev \in PairedRevisions \/ "FPR32" \in v.on]

Core(w, v) == WithLayout(CoreAnswer(w, v), v)

-----------------------------------------------------------------------------
(* cdisasm_mips_decode.                                                    *)

\* apply_cpu_policy, and what a request leaves behind when it is withdrawn.
Policy(c, requested) ==
  (requested \cap {"MXU2", "MXU3", "MXU3_1", "LOONGASX", "XLR", "XLP"}) \cup
  IF c = "ANY" THEN {}
  ELSE (CpuFamilies(c) \cap {"ALLEGREX", "R5900", "XLR", "XLP"}) \cup
       IF {"MSA", "LOONGSIMD"} \subseteq CpuFamilies(c)
       THEN {"MSA", "LOONGSIMD"} ELSE {}

View(k, requested) ==
  LET effective == EffectiveFamilies(k.cpu, k.mode, k.rev, "STANDARD", requested, TRUE)
  IN  [mode   |-> k.mode,
       rev    |-> k.rev,
       on     |-> effective \cup FprBit(k.fpr32) \cup PolicyBits(k.cpu, effective),
       policy |-> Policy(k.cpu, requested)]

RowsOfInventory == UNION {Range(Inventory[w]) : w \in Words}

\* Mutant: the module alone, as at Release 5.
MsaNeeds_ModuleAlone(r) == {"MSA", "FPU"}

\* At Release 2 only the 3A4000 has the module.
MsaNeeds(r) ==
  {"MSA", "FPU"} \cup IF r = "64R2" THEN {"LOONGSON", "LOONGSIMD"} ELSE {}

\* What the forms outside the inventory need, by their numbers.
NumberedNeeds(f, r) ==
  LET If(member, families) == IF member THEN families ELSE {}
  IN  UNION {
        If(f \in Range(MsaForms), MsaNeeds(r)),
        If(f = 16393, {"DSP", "DSPR2"} \cup If(r \in R6, {"DSPR3"})),
        If(f \in 40000..44999, {"ALLEGREX"}),
        If(f \in 45000..49999, {"R5900"}),
        If(f \in 50000..54999, {"MXU"}),
        If(f \in 56000..56999, {"MXU2"}),
        If(f \in 57000..58999, {"MXU3"}),
        If(f \in 59000..59079, {"LOONGSIMD", "LOONGSON", "FPU"}),
        If(f \in 60000..61999, {"LOONGASX", "LOONGSON", "FPU"}),
        If(f \in 62000..64999, {"R5900", "R5900_VU0"}),
        If(f \in 65000..65019, {"XLR"}),
        If(f \in 65020..65099, {"XLP"}),
        If(f = 405, {"COP2"}),
        If(f = 407, {"COP3"}) }

\* instruction_families
Needs(f, r) ==
  IF \E row \in RowsOfInventory : row.form = f
  THEN (CHOOSE row \in RowsOfInventory : row.form = f).needs
  ELSE NumberedNeeds(f, r)

\* The families the second decode leaves as they are.
ProcessorFamilies ==
  {"ALLEGREX", "R5900", "LOONGSON", "LOONGSON2E", "LOONGSON2F", "CNMIPS",
   "CNMIPSP", "MXU", "LOONGSON_EXT", "LOONGSON_EXT2", "LOONGSON_CAM",
   "SMARTMIPS", "MXU2", "MXU3", "MXU3_1", "LOONGSIMD", "LOONGASX", "XLR", "XLP",
   "R5900_VU0", "R5900_VU1"}

\* Mutant: with the processor's own families too.
Recognized_Everything(w, v) ==
  Core(w, [v EXCEPT !.on = Families \cup (@ \cap {"FPR32"})])

\* A word the families in force do not decode is decoded with all the others,
\* to tell what the processor has switched off from what it does not have.
Recognized(w, v) ==
  Core(w, [v EXCEPT !.on = (Families \ ProcessorFamilies)
                           \cup (@ \cap (ProcessorFamilies \cup {"FPR32"}))])

\* Mutant: whatever the opcode.
OcteonKeeps_AnyWord(w, k, requested, v) ==
  "CNMIPS" \in (requested \cup IF k.cpu = "ANY" THEN {} ELSE CpuFamilies(k.cpu)) \ v.on

\* Octeon turns the four COP2 memory opcodes into branches, enabled or not.
OcteonKeeps(w, k, requested, v) ==
  /\ w = "OP62"
  /\ "CNMIPS" \in requested \cup IF k.cpu = "ANY" THEN {} ELSE CpuFamilies(k.cpu)
  /\ "CNMIPS" \notin v.on

\* The checks after the core, on the families the answer needs.
Admitted(given, needs, k, v) ==
  IF ~(needs \subseteq CpuFamilies(k.cpu)) THEN Invalid
  ELSE IF ~(needs \subseteq Asked(v)) THEN Unsupported
  ELSE given

\* What an unsupported word turns out to be.
Refined(other, k) ==
  IF other.status = "OK" /\ ~(Needs(other.form, k.rev) \subseteq CpuFamilies(k.cpu))
  THEN Invalid ELSE Unsupported

Checked(given, w, k, v) ==
  IF given = Unsupported THEN Refined(Recognized(w, v), k)
  ELSE IF given.status = "OK" THEN Admitted(given, Needs(given.form, k.rev), k, v)
  ELSE given

DecodeView(w, k, requested, v) ==
  IF OcteonKeeps(w, k, requested, v) THEN Unsupported ELSE Checked(Core(w, v), w, k, v)

RequestStatus(k, requested) ==
  EmptyInputStatus(k.cpu, k.mode, k.rev, "STANDARD", requested, TRUE, k.fpr32)

\* cdisasm_mips_decode for an explicit request.
Decode(w, k, requested) ==
  IF RequestStatus(k, requested) = "END_OF_INPUT"
  THEN DecodeView(w, k, requested, View(k, requested))
  ELSE [Unsupported EXCEPT !.status = RequestStatus(k, requested)]

-----------------------------------------------------------------------------
(* A caller, its word and the families it enables one after the other.     *)

VARIABLES caller, word, selected, answer

vars == <<caller, word, selected, answer>>

Init ==
  /\ caller \in {k \in Callers : RequestStatus(k, {}) = "END_OF_INPUT"}
  /\ word \in Words
  /\ selected = {}
  /\ answer = Decode(word, caller, {})

\* Ancestors in the family table; no chain is longer than two.
WithPrerequisites(f) == UNION {Required(g) : g \in Required(f)}

\* A request the decoder would refuse as a whole is not made.
Select(f) ==
  LET request == selected \cup WithPrerequisites(f)
  IN  /\ f \notin selected
      /\ Cardinality(request) <= MaxSelected
      /\ RequestStatus(caller, request) = "END_OF_INPUT"
      /\ selected' = request
      /\ answer' = Decode(word, caller, request)
      /\ UNCHANGED <<caller, word>>

Next == \E f \in Selectable : Select(f)

Spec == Init /\ [][Next]_vars

-----------------------------------------------------------------------------
(* Properties.                                                             *)

AtMostOne(w, v) ==
  LET claims == VendorClaims(w, v) \o ProcessorClaims(w, v)
                \o SubSeq(CommonClaims(w, v), 1, 2)
      Decodes(claim) == claim.made /\ claim.answer.status = "OK"
  IN  /\ \A i, j \in DOMAIN claims : Decodes(claims[i]) /\ Decodes(claims[j]) => i = j
      /\ \A row, other \in Range(Inventory[w]) :
           RowEnabled(row, v) /\ RowEnabled(other, v) => row = other

\* Where the families in force collide, the order of the decoders does not
\* matter: of the decoders of a processor, the Ingenic and the inventory, at
\* most one decodes the word, and at most one row of the inventory is enabled.
\* Only ASX and MDMX can be enabled together and share words.
OneFamilyDecodes ==
  LET v == View(caller, selected)
  IN  {"MDMX", "LOONGASX"} \subseteq selected \/ AtMostOne(word, v)

\* The two forms whose needs do not give the request they were decoded with: an
\* Octeon word that needs CNMIPSP without its parent CNMIPS, and the LSA of MSA,
\* which at Release 6 is the base LSA unless DSPR3 is enabled.
ForgetsItsNeeds(a, r) == a.form = 20065 \/ (a.form = 16876 /\ r \in R6)

\* A decoded record can be replayed: the generic processor, asked with nothing
\* but the families the record needs, decodes the word to the same record. The
\* formatters and the effect queries refuse a record otherwise.
Replays ==
  answer.status = "OK" /\ ~ForgetsItsNeeds(answer, caller.rev) =>
    LET generic == [caller EXCEPT !.cpu = "ANY", !.fpr32 = answer.fpr32]
    IN  Decode(word, generic, Needs(answer.form, caller.rev)) = answer

\* What the processor and the revision have of a selection.
Usable == EncodingFamilies(caller.cpu, caller.mode, caller.rev, "STANDARD")

\* Enabling a family the processor has changes what a word means only to a form
\* that needs an added family. Three families take words away or give them to
\* another: R5900 the COP2 memory words, to VU0 which may be off; DSPR3 the
\* LSA, to MSA; MSA the words it shares with ASX.
EnablingKeeps ==
  [][answer.status = "OK" /\ selected' \subseteq Usable =>
       LET added == selected' \ selected
       IN  \/ answer' = answer
           \/ answer'.status = "OK" /\ Needs(answer'.form, caller.rev) \cap added # {}
           \/ word = "OP62" /\ "R5900" \in added /\ answer' = Unsupported
           \/ word = "LSA" /\ "DSPR3" \in added /\ answer'.form = 16876
           \/ /\ "MSA" \in added
              /\ answer.form \in {60003, 60004}
              /\ caller.rev = "64R2"]_vars

\* A word a named processor can be made to decode by enabling a family was not
\* invalid before, as cdisasm_mips.h, 618 has it, but for two: the Loongson 2
\* words the base set of revision III refuses, and the MSA words of a 3A4000
\* with a Loongson family and without MSA, for then the inventory is asked first
\* and in the second decode, with everything enabled, MDMX claims them.
RefusalTellsWhy ==
  [][answer.status = "INVALID_INSTRUCTION" /\ answer'.status = "OK" =>
       \/ caller.cpu = "ANY"
       \/ /\ caller.cpu \in {"LOONGSON2E", "LOONGSON2F"}
          /\ word \in {"MMI17", "MOVN", "SQ"}
       \/ /\ caller.cpu = "LOONGSON3A4000"
          /\ word \in Quads
          /\ "LOONGSON" \in selected]_vars

\* What of a generic answer a processor differs in by its own encoding space:
\* the R5900 has a MOVN and an Octeon no COP2 memory words in any selection, and
\* the 3A4000 has MSA without LOONGSIMD.
OwnSpace(has) ==
  \/ "R5900" \in has /\ answer.form = 49980
  \/ "CNMIPS" \in has /\ word = "OP62" /\ answer = Unsupported
  \/ {"MSA", "LOONGSIMD"} \subseteq has /\ answer.form \in Range(MsaForms)

SameWord(generic, has) ==
  \/ answer = generic
  \/ /\ answer.status # "OK"
     /\ generic.status = "OK" => ~(Needs(generic.form, caller.rev) \subseteq has)
  \/ OwnSpace(has)

\* A named processor decodes a word as the generic one does with the same
\* families, and every word of families it has.
NamedAsGeneric ==
  caller.cpu # "ANY" /\ selected \subseteq Usable =>
    SameWord(Decode(word, [caller EXCEPT !.cpu = "ANY"], selected),
             CpuFamilies(caller.cpu))

=============================================================================
