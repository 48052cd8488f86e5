--------------------------- MODULE MCArmDetection ---------------------------
(***************************************************************************)
(* Constant values for the run of the ARM detection.  A behaviour has one  *)
(* subject: the whole call, the parser of /proc/cpuinfo fed with the lines *)
(* of a file, or its number parser fed with digits.                        *)
(***************************************************************************)
EXTENDS ArmDetection, ArmCpuinfoFile, ArmHexNumber

Slot(k) == [kind |-> k, long |-> FALSE, rest |-> "other"]
LongSlot(k, r) == [kind |-> k, long |-> TRUE, rest |-> r]

\* A64 kernels print a feature line longer than the buffer and a blank line
\* after each CPU; the second form has no blank line and may end the file in
\* the middle of a long line; in the third a line that matters is too long.
\* The second piece of a long line looks like a line that matters.
KernelLayouts ==
  {<<Slot("processor"), LongSlot("other", "implementer"), Slot("implementer"),
     Slot("part"), Slot("blank")>>,
   <<Slot("processor"), Slot("part"), Slot("implementer"), LongSlot("other", "part")>>,
   <<Slot("processor"), LongSlot("implementer", "other"), Slot("part")>>}

\* Two cores of the catalog, and a third it does not name.
SomeCores == {<<Arm, \hd03>>, <<Arm, \hc09>>, <<Arm, \hd0a>>}

Line(k, v) == [kind |-> k, ok |-> TRUE, value |-> v, long |-> FALSE]
Bad(k) == [Line(k, 0) EXCEPT !.ok = FALSE]

\* Two named cores, a core the catalog does not know, an implementer that
\* does not fit its field, and lines that do not parse.
TextLines ==
  {Line("processor", 0), Line("implementer", Arm), Line("implementer", Apple),
   Line("implementer", \h141), Line("part", \hd03), Line("part", \h022),
   Line("blank", 0), Line("other", 0), Bad("processor"), Bad("part")}

\* CPUs are interchangeable, since a directory is read and the CPUs are listed
\* in any order: of the machines with the same cores one is enough.
First == CHOOSE c \in Cpus : TRUE
Last == CHOOSE c \in Cpus : c # First
Rank(c) == IF c = First THEN 0 ELSE IF c = Last THEN 2 ELSE 1
OneOfItsCores ==
  \A c, d \in Cpus : Rank(c) < Rank(d) => core[c][2] <= core[d][2]

VARIABLE subject

parsers == <<fileVars, numberVars>>
all == <<vars, parsers, subject>>

\* Where a parser is the subject the machine does not matter.
SubjectInit ==
  /\ Init /\ OneOfItsCores /\ FileInit /\ NumberInit
  /\ subject \in {"call", "file", "number"}
  /\ subject # "call" =>
       /\ \E k \in Cores : core = [c \in Cpus |-> k] /\ k[2] = \hd03
       /\ Len(layout) = 5
       /\ midrs
       /\ online = Cpus

FairCallStep == subject = "call" /\ CallStep /\ UNCHANGED <<parsers, subject>>

SubjectNext ==
  \/ subject = "call" /\ Next /\ UNCHANGED <<parsers, subject>>
  \/ subject = "file" /\ FileNext /\ UNCHANGED <<vars, numberVars, subject>>
  \/ subject = "number" /\ NumberNext /\ UNCHANGED <<vars, fileVars, subject>>

SubjectSpec ==
  SubjectInit /\ [][SubjectNext]_all /\ WF_all(FairCallStep)

\* Where the call is the subject it returns, however often CPUs come and go:
\* the loops over the directory and over the lines of /proc/cpuinfo end.
QueryReturns == subject = "call" => CallReturns

=============================================================================
