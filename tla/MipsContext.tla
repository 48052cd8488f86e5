----------------------------- MODULE MipsContext ----------------------------
(***************************************************************************)
(* A caller-owned MIPS decode context and the calls that create it, add    *)
(* and remove families and decode with it, in the three versions of the    *)
(* interface (src/src/mips/cdisasm_mips.c, cdisasm_mips_v3.c).             *)
(*                                                                         *)
(* A call works on local copies and stores into the context only when it   *)
(* succeeds; the two do-while loops it runs are steps of their own.  The   *)
(* code's passes visit the families in the order of their ids, the steps   *)
(* here take them in any order.                                            *)
(***************************************************************************)
EXTENDS MipsPolicy

CONSTANTS
  Requests,   \* the contexts that are created: processor, revision, encoding and
              \* interface version
  Asked(_)    \* the families the caller of a context adds and removes

Apis == {"V1", "V2", "V3"}
RevisionArgs == Revisions \cup {"NONE"}

Policies == [cpu : AllCpus, mode : Modes, rev : Revisions, enc : Encodings,
             api : Apis]

\* The all-zero context a failed initialisation leaves.
NoPolicy == [cpu |-> "NONE", mode |-> 0, rev |-> "NONE", enc |-> "STANDARD",
             api |-> "V1"]

ASSUME ContextAssumption ==
  /\ Requests \subseteq [cpu : AllCpus, rev : RevisionArgs, enc : Encodings, api : Apis]
  /\ \A p \in Policies \cup {NoPolicy} : Asked(p) \subseteq Families

VARIABLES
  policy,   \* cpu_id, mode, revision and encoding, and the interface in use
  mask,     \* family_mask
  value,    \* family_value
  fpr32,    \* the FPR32 bit of flags, which the caller owns
  call,     \* the call in progress and its local family set
  ret       \* what the last call returned

vars == <<policy, mask, value, fpr32, call, ret>>

Idle == [op |-> "idle", family |-> "NONE", selected |-> {}]

TypeOK ==
  /\ policy \in Policies \cup {NoPolicy}
  /\ mask \in SUBSET Families
  /\ value \in SUBSET Families
  /\ fpr32 \in BOOLEAN
  /\ call \in [op : {"idle", "add", "remove"}, family : Families \cup {"NONE"},
               selected : SUBSET Families]
  /\ ret \in {"none", "OK", "done", "refused"} \cup Statuses

-----------------------------------------------------------------------------
(* Decoding with a context.                                                *)

\* cdisasm_mips_decode_with_context and _v2: the context is checked against
\* the tables again, then its selection is decoded with explicitly.
ContextStatus ==
  IF \/ policy = NoPolicy
     \/ mask # EncodingFamilies(policy.cpu, policy.mode, policy.rev, policy.enc)
     \/ ~(value \subseteq mask)
  THEN "INVALID_ARGUMENT"
  ELSE EmptyInputStatus(policy.cpu, policy.mode, policy.rev, policy.enc,
                        value, TRUE, fpr32)

\* Context creation through V2, which context_to_v2 repeats.
Creatable(c, m, r, e) ==
  /\ RevisionAccepted(c, m, r)
  /\ EmptyInputStatus(c, m, r, e, {}, FALSE, FALSE) = "END_OF_INPUT"

\* context_to_v2
V3Accepts ==
  /\ policy # NoPolicy
  /\ Creatable(policy.cpu, policy.mode, policy.rev, policy.enc)
  /\ ContextStatus = "END_OF_INPUT"

\* The status the caller sees for zero bytes, in each interface version.
DecodeStatus ==
  IF policy.api = "V3" /\ ~V3Accepts THEN "INVALID_ARGUMENT" ELSE ContextStatus

Accepted == DecodeStatus = "END_OF_INPUT"

-----------------------------------------------------------------------------
(* The calls.                                                              *)

Init ==
  /\ policy = NoPolicy
  /\ mask = {}
  /\ value = {}
  /\ fpr32 = FALSE
  /\ call = Idle
  /\ ret = "none"

DefaultValue(c, m, r, e) ==
  IF e \in VuWords
  THEN EncodingFamilies(c, m, r, e) \cap {"R5900", "R5900_VU0"}
  ELSE DefaultFamilies(c, EncodingFamilies(c, m, r, e), r)

\* cdisasm_mips_cpu_decode_context, _v2 and _v3; arg may be REVISION_NONE.
CreateContext(c, m, arg, e, a) ==
  LET r == IF arg = "NONE" THEN CpuRevision(c) ELSE arg
  IN
  /\ call = Idle
  /\ a = "V1" => e = "STANDARD"
  /\ IF RevisionAccepted(c, m, r) /\ (a # "V1" => Creatable(c, m, r, e))
     THEN /\ policy' = [cpu |-> c, mode |-> m, rev |-> r, enc |-> e, api |-> a]
          /\ mask' = EncodingFamilies(c, m, r, e)
          /\ value' = DefaultValue(c, m, r, e)
          /\ ret' = "OK"
     ELSE /\ policy' = NoPolicy
          /\ mask' = {}
          /\ value' = {}
          /\ ret' = "INVALID_ARGUMENT"
  /\ fpr32' = FALSE
  /\ UNCHANGED call

\* The caller sets or clears FPR32 in the flags word of its context.
SetFPR32 ==
  /\ call = Idle
  /\ policy # NoPolicy
  /\ fpr32' = ~fpr32
  /\ UNCHANGED <<policy, mask, value, call, ret>>

Decode ==
  /\ call = Idle
  /\ ret' = DecodeStatus
  /\ UNCHANGED <<policy, mask, value, fpr32, call>>

Return(result) ==
  /\ ret' = result
  /\ call' = Idle

Enter(op, f, selected) ==
  /\ call' = [op |-> op, family |-> f, selected |-> selected]
  /\ UNCHANGED ret

BeginAdd(f) ==
  /\ call = Idle
  /\ IF policy.api = "V3" /\ ~V3Accepts
     THEN Return("refused")
     ELSE Enter("add", f, {f})
  /\ UNCHANGED <<policy, mask, value, fpr32>>

\* One step of the loop in family_dependencies.
GrowAdd ==
  /\ call.op = "add"
  /\ \E g \in call.selected :
       /\ ~(Required(g) \subseteq call.selected)
       /\ call' = [call EXCEPT !.selected = @ \cup Required(g)]
  /\ UNCHANGED <<policy, mask, value, fpr32, ret>>

\* Mutant: MSA is added on 64R2 like any other family.
VendorSlice_None(S, r) == {}

\* On 64R2 MSA is the Loongson 3A4000 slice and brings its selectors along.
VendorSlice(S, r) ==
  IF r = "64R2" /\ "MSA" \in S THEN {"FPU", "LOONGSON", "LOONGSIMD"} ELSE {}

\* Mutant: the check forgets the FPR32 bit of the flags word.
FinishAdd_ForgetsFPR32 ==
  /\ call.op = "add"
  /\ Closed(call.selected)
  /\ LET family == call.selected \cup VendorSlice(call.selected, policy.rev)
     IN  IF family \subseteq mask /\ ~Rejected(value \cup family)
         THEN value' = value \cup family /\ Return("done")
         ELSE UNCHANGED value /\ Return("refused")
  /\ UNCHANGED <<policy, mask, fpr32>>

FinishAdd ==
  /\ call.op = "add"
  /\ Closed(call.selected)
  /\ LET family == call.selected \cup VendorSlice(call.selected, policy.rev)
         chosen == value \cup family
     IN  IF family \subseteq mask /\ ~Rejected(chosen \cup FprBit(fpr32))
         THEN value' = chosen /\ Return("done")
         ELSE UNCHANGED value /\ Return("refused")
  /\ UNCHANGED <<policy, mask, fpr32>>

BeginRemove(f) ==
  /\ call = Idle
  /\ IF \/ policy.api = "V3" /\ ~V3Accepts
        \/ f \notin mask
     THEN Return("refused")
     ELSE Enter("remove", f, value \ {f})
  /\ UNCHANGED <<policy, mask, value, fpr32>>

\* Mutant: an orphaned LOONGSON stays.
Droppable_KeepsUmbrella(S, r) ==
  {g \in S : ~(Required(g) \subseteq S)}
  \cup (IF r = "64R2" /\ "LOONGSIMD" \notin S THEN S \cap {"MSA"} ELSE {})

\* Mutant: LOONGSON goes with the last generation, whatever catalog needs it.
Droppable_OnlyGenerations(S, r) ==
  {g \in S : ~(Required(g) \subseteq S)}
  \cup (IF r = "64R2" /\ "LOONGSIMD" \notin S THEN S \cap {"MSA"} ELSE {})
  \cup (IF S \cap Generations = {} THEN S \cap {"LOONGSON"} ELSE {})

\* What the loop of remove_family drops next: a family whose parents are not
\* all selected, MSA without its 64R2 selector, an orphaned LOONGSON.
Droppable(S, r) ==
  {g \in S : ~(Required(g) \subseteq S)}
  \cup (IF r = "64R2" /\ "LOONGSIMD" \notin S THEN S \cap {"MSA"} ELSE {})
  \cup (IF S \cap LoongsonUsers = {} THEN S \cap {"LOONGSON"} ELSE {})

\* Mutant: MSA is toggled where it should be cleared.
PruneRemove_Toggles ==
  /\ call.op = "remove"
  /\ \/ /\ policy.rev = "64R2"
        /\ "LOONGSIMD" \notin call.selected
        /\ call' = [call EXCEPT !.selected =
                      (@ \cup {"MSA"}) \ (@ \cap {"MSA"})]
     \/ \E g \in Droppable(call.selected, policy.rev) :
          call' = [call EXCEPT !.selected = @ \ {g}]
  /\ UNCHANGED <<policy, mask, value, fpr32, ret>>

PruneRemove ==
  /\ call.op = "remove"
  /\ \E g \in Droppable(call.selected, policy.rev) :
       call' = [call EXCEPT !.selected = @ \ {g}]
  /\ UNCHANGED <<policy, mask, value, fpr32, ret>>

FinishRemove ==
  /\ call.op = "remove"
  /\ Droppable(call.selected, policy.rev) = {}
  /\ IF ~Rejected(call.selected \cup FprBit(fpr32))
     THEN value' = call.selected /\ Return("done")
     ELSE UNCHANGED value /\ Return("refused")
  /\ UNCHANGED <<policy, mask, fpr32>>

LoopStep == GrowAdd \/ FinishAdd \/ PruneRemove \/ FinishRemove

Next ==
  \/ \E q \in Requests, m \in Modes : CreateContext(q.cpu, m, q.rev, q.enc, q.api)
  \/ SetFPR32
  \/ Decode
  \/ \E f \in Asked(policy) : BeginAdd(f) \/ BeginRemove(f)
  \/ LoopStep

\* A call that has begun runs to its return: the loops are plain C code.
Spec == Init /\ [][Next]_vars /\ WF_vars(LoopStep)

-----------------------------------------------------------------------------
(* Properties.                                                             *)

\* Whatever was added and removed, in whatever order, a context selects only
\* available families, never a family without its parents, never MSA on 64R2
\* without the 3A4000 slice, never two generations, processors or VU units at
\* once, and never an orphaned LOONGSON (README.md:93-99).
SelectionSound ==
  /\ value \subseteq mask
  /\ Closed(value)
  /\ policy.rev = "64R2" /\ "MSA" \in value => "LOONGSIMD" \in value
  /\ ~ConflictingFeatures(value)

\* The layers agree: what the context calls build, the argument checks of the
\* decoders accept, as long as the caller has not asked for FPR32 itself.  The
\* two sides are separate pieces of code over separate tables.
ContextDecodes ==
  policy # NoPolicy /\ ~fpr32 => Accepted

\* No add or remove call turns a context that decodes, FPR32 included, into
\* one that does not: the check before the store is as strict as the decoder.
AcceptedStaysAccepted ==
  [][call # Idle /\ call' = Idle /\ Accepted => Accepted']_vars

\* A removal that was begun on a context that decodes is never refused: the
\* loop leaves nothing that contradicts itself.
RemovalSucceeds ==
  [][call.op = "remove" /\ call' = Idle /\ Accepted => ret' = "done"]_vars

\* Both loops end.
EveryCallReturns == call # Idle ~> call = Idle

\* Adding selects the least supported superset, removing keeps the greatest
\* standing subset, a refused call and a step inside a loop change nothing
\* the caller can see.
Selection == INSTANCE FamilySelection WITH
  rev <- policy.rev, avail <- mask, sel <- value

ImplementsFamilySelection == Selection!Spec

=============================================================================
