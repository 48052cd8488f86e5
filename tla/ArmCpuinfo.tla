----------------------------- MODULE ArmCpuinfo -----------------------------
(***************************************************************************)
(* The incremental parser of /proc/cpuinfo                                 *)
(* (cdisasm_internal_arm_cpuinfo_* in src/src/cdisasm_cpu_identify.c) as   *)
(* operators on its state.                                                 *)
(*                                                                         *)
(* A line is its kind (the key that arm_cpuinfo_value matches), whether    *)
(* the text after the key is well formed, the number it holds, and whether *)
(* it is too long for the caller's buffer of 256 bytes.                    *)
(***************************************************************************)
EXTENDS ArmProfiles

Kinds == {"processor", "implementer", "part", "blank", "other"}

LineOK(line) ==
  /\ line.kind \in Kinds
  /\ line.ok \in BOOLEAN
  /\ line.value \in Nat
  /\ line.long \in BOOLEAN

\* cdisasm_internal_arm_cpuinfo_line_is_relevant
Relevant(line) == line.kind \in {"processor", "implementer", "part"}

-----------------------------------------------------------------------------
(* The parser.  have holds the flags have_implementer and have_part.       *)

\* cdisasm_internal_arm_cpuinfo_init
NewParser ==
  [selected |-> Unknown, implementer |-> 0, part |-> 0, have |-> {},
   started |-> FALSE, found |-> FALSE, invalid |-> FALSE]

Parsers ==
  [selected : Profiles \cup {Unknown}, implementer : Nat, part : Nat,
   have : SUBSET {"implementer", "part"}, started : BOOLEAN,
   found : BOOLEAN, invalid : BOOLEAN]

Invalid(s) == [s EXCEPT !.invalid = TRUE]

\* Mutant: the fields of the finished record stay.
FinishRecord_NoReset(s) ==
  LET candidate == Profile(<<s.implementer, s.part>>)
  IN  IF ~s.started THEN s
      ELSE IF \/ s.have # {"implementer", "part"}
              \/ candidate = Unknown
              \/ s.found /\ s.selected # candidate
           THEN Invalid(s)
           ELSE [s EXCEPT !.selected = candidate, !.found = TRUE,
                          !.started = FALSE]

\* Mutant: a later record replaces an earlier one.
FinishRecord_LastWins(s) ==
  LET candidate == Profile(<<s.implementer, s.part>>)
  IN  IF ~s.started THEN s
      ELSE IF s.have # {"implementer", "part"} \/ candidate = Unknown
           THEN Invalid(s)
           ELSE [NewParser EXCEPT !.selected = candidate, !.found = TRUE]

\* arm_cpuinfo_finish_record: closes the record of one processor, which must
\* be whole, named, and of the profile found so far.
FinishRecord(s) ==
  LET candidate == Profile(<<s.implementer, s.part>>)
  IN  IF ~s.started THEN s
      ELSE IF \/ s.have # {"implementer", "part"}
              \/ candidate = Unknown
              \/ s.found /\ s.selected # candidate
           THEN Invalid(s)
           ELSE [NewParser EXCEPT !.selected = candidate, !.found = TRUE]

\* The widths of the fields in MIDR_EL1.
MaxImplementer == \hff
MaxPart == \hfff

Start(s) == [s EXCEPT !.started = TRUE]

FeedProcessor(s, line) ==
  IF ~line.ok THEN Invalid(s)
  ELSE IF FinishRecord(s).invalid THEN FinishRecord(s)
  ELSE Start(FinishRecord(s))

FeedImplementer(s, line) ==
  IF ~line.ok \/ "implementer" \in s.have \/ line.value > MaxImplementer
  THEN Invalid(s)
  ELSE Start([s EXCEPT !.implementer = line.value,
                       !.have = @ \cup {"implementer"}])

FeedPart(s, line) ==
  IF ~line.ok \/ "part" \in s.have \/ line.value > MaxPart
  THEN Invalid(s)
  ELSE Start([s EXCEPT !.part = line.value, !.have = @ \cup {"part"}])

\* cdisasm_internal_arm_cpuinfo_feed; it returns 0 exactly when the result is
\* invalid.
Feed(s, line) ==
  IF s.invalid THEN s
  ELSE CASE line.kind = "blank" -> FinishRecord(s)
         [] line.kind = "processor" -> FeedProcessor(s, line)
         [] line.kind = "implementer" -> FeedImplementer(s, line)
         [] line.kind = "part" -> FeedPart(s, line)
         [] line.kind = "other" -> s

\* cdisasm_internal_arm_cpuinfo_finish
Finish(s) ==
  IF s.invalid \/ FinishRecord(s).invalid \/ ~FinishRecord(s).found
  THEN Unknown
  ELSE FinishRecord(s).selected


=============================================================================
