-------------------------- MODULE FamilySelection ---------------------------
(***************************************************************************)
(* What the family-selection interface of a MIPS decode context promises,  *)
(* whatever loop computes it (README.md:93-99 of the repository): a        *)
(* context selects a set of families that contains the parents of its      *)
(* members; selecting a family selects exactly what it needs on top;       *)
(* deselecting one keeps everything that can be kept; a refused call       *)
(* changes nothing.                                                        *)
(***************************************************************************)
EXTENDS MipsFamilies

VARIABLES
  rev,      \* the revision of the context, "NONE" while it is cleared
  avail,    \* the families it can select
  sel,      \* the families it selects
  fpr32     \* the caller's FPR32 option

vars == <<rev, avail, sel, fpr32>>

\* The smallest and largest sets below range over the selections that stand
\* on their own.
Supported(S, r) ==
  /\ Closed(S)
  /\ r = "64R2" /\ "MSA" \in S => {"FPU", "LOONGSON", "LOONGSIMD"} \subseteq S

Standing(S, r) ==
  /\ Supported(S, r)
  /\ "LOONGSON" \in S => S \cap LoongsonUsers # {}

Bit == IF fpr32 THEN {"FPR32"} ELSE {}

Init ==
  /\ rev = "NONE"
  /\ avail = {}
  /\ sel = {}
  /\ fpr32 = FALSE

Create ==
  /\ rev' \in Revisions \cup {"NONE"}
  /\ avail' \subseteq Families
  /\ sel' \subseteq avail'
  /\ Supported(sel', rev')
  /\ fpr32' = FALSE

SetFPR32 ==
  /\ fpr32' \in BOOLEAN
  /\ UNCHANGED <<rev, avail, sel>>

\* The least supported superset of sel and f, if it contradicts nothing.
Select(f) ==
  /\ sel \cup {f} \subseteq sel'
  /\ sel' \subseteq avail
  /\ Supported(sel', rev)
  /\ \A T \in SUBSET (sel' \ (sel \cup {f})) :
       Supported(sel' \ T, rev) => T = {}
  /\ ~Rejected(sel' \cup Bit)
  /\ UNCHANGED <<rev, avail, fpr32>>

\* The greatest selection within sel without f that stands on its own.
Deselect(f) ==
  /\ f \in avail
  /\ sel' \subseteq sel \ {f}
  /\ Standing(sel', rev)
  /\ \A T \in SUBSET ((sel \ {f}) \ sel') :
       Standing(sel' \cup T, rev) => T = {}
  /\ ~Rejected(sel' \cup Bit)
  /\ UNCHANGED <<rev, avail, fpr32>>

Next ==
  \/ Create
  \/ SetFPR32
  \/ \E f \in Families : Select(f) \/ Deselect(f)

Spec == Init /\ [][Next]_vars

=============================================================================
