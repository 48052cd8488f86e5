---------------------------- MODULE ArmDetection ----------------------------
(***************************************************************************)
(* cdisasm_current_cpu on ARM Linux (src/src/cdisasm_cpu.c): a scan of the *)
(* CPU directories in sysfs, and a scan of /proc/cpuinfo if sysfs told it  *)
(* nothing.  Each file access is a step, and the kernel takes CPUs offline *)
(* and brings them back in between.                                        *)
(*                                                                         *)
(* The kernel is modelled from how the code uses it: an online file says 0 *)
(* for an offline CPU; a MIDR file, if it can be read, tells the truth; a  *)
(* directory scan returns every CPU directory once, in any order, unless   *)
(* it fails; /proc/cpuinfo lists the CPUs online when their turn comes.    *)
(***************************************************************************)
EXTENDS ArmCpuinfo, Sequences

CONSTANTS
  Cpus,      \* the CPUs that have a directory
  Cores,     \* the cores they may be, pairs of implementer and part
  Layouts    \* the forms a CPU's lines in /proc/cpuinfo may take

\* A line's kind is that of its first piece; rest is what the second piece of a
\* long line would be taken for if it were read as a line.
Slots == [kind : Kinds, long : BOOLEAN, rest : Kinds]

ASSUME DetectionAssumption ==
  /\ Cores \subseteq Nat \X Nat
  /\ "NONE" \notin Cpus

\* Every form begins with the processor line.
ASSUME LayoutAssumption ==
  \A form \in Layouts :
    /\ form \in Seq(Slots) \ {<<>>}
    /\ form[1].kind = "processor"

VARIABLES
  core,       \* the machine: what each CPU is
  layout,     \* the machine: how /proc/cpuinfo describes a CPU
  midrs,      \* the machine: whether it has MIDR files at all
  online,     \* the CPUs that run now
  pc,         \* where the call is
  left,       \* the CPUs the scan has not reached yet
  cpu,        \* the CPU whose files or lines are being read
  pos,        \* how many of its lines in /proc/cpuinfo were read
  selected,   \* the local variables of arm_cpu_from_sysfs
  found,
  incomplete,
  evidence,
  parser,     \* the state of the /proc/cpuinfo parser
  result,     \* what the call returned
  steady,     \* history: the CPUs that were online all the time
  calm        \* history: nothing changed and no access failed

machine == <<core, layout, midrs>>
locals == <<selected, found, incomplete, evidence>>
history == <<steady, calm>>
vars == <<machine, online, pc, left, cpu, pos, locals, parser, result, history>>

Labels == {"opendir", "readdir", "online", "midr", "cpuinfo", "next", "lines",
           "done"}

TypeOK ==
  /\ core \in [Cpus -> Cores]
  /\ layout \in Layouts
  /\ midrs \in BOOLEAN
  /\ online \subseteq Cpus
  /\ pc \in Labels
  /\ left \subseteq Cpus
  /\ cpu \in Cpus \cup {"NONE"}
  /\ pc \in {"online", "midr", "lines"} => cpu \in Cpus
  /\ pos \in Nat
  /\ selected \in Profiles \cup {Unknown}
  /\ found \in BOOLEAN
  /\ incomplete \in BOOLEAN
  /\ evidence \in BOOLEAN
  /\ parser \in Parsers
  /\ result \in Profiles \cup {Unknown, "NONE"}
  /\ found => selected \in Profiles
  /\ result = "NONE" <=> pc # "done"
  /\ steady \subseteq Cpus
  /\ calm \in BOOLEAN

Init ==
  /\ core \in [Cpus -> Cores]
  /\ layout \in Layouts
  /\ midrs \in BOOLEAN
  /\ online \in (SUBSET Cpus) \ {{}}
  /\ pc = "opendir"
  /\ left = Cpus
  /\ cpu = "NONE"
  /\ pos = 0
  /\ selected = Unknown
  /\ found = FALSE
  /\ incomplete = FALSE
  /\ evidence = FALSE
  /\ parser = NewParser
  /\ result = "NONE"
  /\ steady = online
  /\ calm = TRUE

-----------------------------------------------------------------------------
(* The kernel.                                                             *)

TakeOffline(c) ==
  /\ c \in online
  /\ online # {c}
  /\ online' = online \ {c}
  /\ steady' = steady \ {c}

BringOnline(c) ==
  /\ c \notin online
  /\ online' = online \cup {c}
  /\ UNCHANGED steady

Hotplug ==
  /\ pc # "done"
  /\ \E c \in Cpus : TakeOffline(c) \/ BringOnline(c)
  /\ calm' = FALSE
  /\ UNCHANGED <<machine, pc, left, cpu, pos, locals, parser, result>>

-----------------------------------------------------------------------------
(* The call.                                                               *)

\* Leaves the call with an answer; every early return ends here.
Answer(id) ==
  /\ pc' = "done"
  /\ result' = id
  /\ UNCHANGED <<machine, online, left, cpu, pos, parser, steady>>

Goto(label) ==
  /\ pc' = label
  /\ UNCHANGED <<machine, online, result, steady>>

OpenDirectory ==
  /\ pc = "opendir"
  /\ \/ /\ Goto("readdir")
        /\ UNCHANGED calm
     \/ /\ Goto("cpuinfo")
        /\ calm' = (calm /\ ~midrs)
  /\ UNCHANGED <<left, cpu, pos, locals, parser>>

ReadEntry ==
  /\ pc = "readdir"
  /\ \E c \in left :
       /\ cpu' = c
       /\ left' = left \ {c}
  /\ Goto("online")
  /\ UNCHANGED <<pos, locals, parser, calm>>

\* readdir sets errno, or the path does not fit.
ReadEntryFails ==
  /\ pc = "readdir"
  /\ evidence' = TRUE
  /\ calm' = FALSE
  /\ Answer(Unknown)
  /\ UNCHANGED <<selected, found, incomplete>>

\* arm_sysfs_cpu_is_offline: a file that is missing or cannot be read counts
\* as online.
ReadOnline ==
  /\ pc = "online"
  /\ \/ /\ cpu \notin online
        /\ Goto("readdir")
        /\ UNCHANGED calm
     \/ /\ Goto("midr")
        /\ calm' = (calm /\ cpu \in online)
  /\ UNCHANGED <<left, cpu, pos, locals, parser>>

OpenMidrFails ==
  /\ pc = "midr"
  /\ incomplete' = TRUE
  /\ calm' = (calm /\ ~midrs)
  /\ Goto("readdir")
  /\ UNCHANGED <<left, cpu, pos, selected, found, evidence, parser>>

ReadMidrFails ==
  /\ pc = "midr"
  /\ midrs
  /\ evidence' = TRUE
  /\ calm' = FALSE
  /\ Answer(Unknown)
  /\ UNCHANGED <<selected, found, incomplete>>

\* Mutant: a core the catalog does not name is merged like any other.
ReadMidr_MergesUnknown ==
  /\ pc = "midr"
  /\ midrs
  /\ evidence' = TRUE
  /\ LET candidate == Profile(core[cpu])
     IN  IF found /\ selected # candidate
         THEN Answer(Unknown) /\ UNCHANGED <<selected, found>>
         ELSE /\ selected' = candidate
              /\ found' = TRUE
              /\ Goto("readdir")
              /\ UNCHANGED <<left, cpu, pos, parser>>
  /\ UNCHANGED <<incomplete, calm>>

\* merge_arm_profile
ReadMidr ==
  /\ pc = "midr"
  /\ midrs
  /\ evidence' = TRUE
  /\ LET candidate == Profile(core[cpu])
     IN  IF candidate = Unknown \/ (found /\ selected # candidate)
         THEN Answer(Unknown) /\ UNCHANGED <<selected, found>>
         ELSE /\ selected' = candidate
              /\ found' = TRUE
              /\ Goto("readdir")
              /\ UNCHANGED <<left, cpu, pos, parser>>
  /\ UNCHANGED <<incomplete, calm>>

\* Mutant: the answer forgets the CPUs whose MIDR could not be opened.
EndOfDirectory_IgnoresIncomplete ==
  /\ pc = "readdir"
  /\ left = {}
  /\ IF evidence
     THEN Answer(IF found THEN selected ELSE Unknown)
     ELSE Goto("cpuinfo") /\ UNCHANGED <<left, cpu, pos, parser>>
  /\ UNCHANGED <<locals, calm>>

\* The rest of arm_cpu_from_sysfs, and what current_linux_arm_cpu does with
\* its answer.
EndOfDirectory ==
  /\ pc = "readdir"
  /\ left = {}
  /\ IF evidence
     THEN Answer(IF found /\ ~incomplete THEN selected ELSE Unknown)
     ELSE Goto("cpuinfo") /\ UNCHANGED <<left, cpu, pos, parser>>
  /\ UNCHANGED <<locals, calm>>

OpenCpuinfo ==
  /\ pc = "cpuinfo"
  /\ parser' = NewParser
  /\ left' = Cpus
  /\ cpu' = "NONE"
  /\ pos' = 0
  /\ Goto("next")
  /\ UNCHANGED <<locals, calm>>

\* fopen, fgets or fgetc fail.
CpuinfoFails ==
  /\ pc \in {"cpuinfo", "next", "lines"}
  /\ calm' = FALSE
  /\ Answer(Unknown)
  /\ UNCHANGED locals

\* The kernel moves on to the next CPU and describes it if it is online.
NextCpu ==
  /\ pc = "next"
  /\ \E c \in left :
       /\ left' = left \ {c}
       /\ IF c \in online
          THEN cpu' = c /\ pos' = 0 /\ Goto("lines")
          ELSE UNCHANGED <<cpu, pos>> /\ Goto("next")
  /\ UNCHANGED <<locals, parser, calm>>

LineOf(slot, c) ==
  [kind |-> slot.kind, ok |-> TRUE, long |-> slot.long,
   value |-> CASE slot.kind = "implementer" -> core[c][1]
               [] slot.kind = "part" -> core[c][2]
               [] OTHER -> 0]

\* Mutant: the loop that skips a long line waits for a newline that the last
\* line of the file need not have.
ReadLine_WaitsForNewline ==
  /\ pc = "lines"
  /\ pos + 1 \in DOMAIN layout
  /\ LET line == LineOf(layout[pos + 1], cpu)
     IN  IF line.long
         THEN IF Relevant(line) THEN Answer(Unknown)
              ELSE /\ left # {} \/ pos + 1 < Len(layout)
                   /\ pos' = pos + 1
                   /\ Goto("lines")
                   /\ UNCHANGED <<left, cpu, parser>>
         ELSE IF Feed(parser, line).invalid THEN Answer(Unknown)
              ELSE /\ parser' = Feed(parser, line)
                   /\ pos' = pos + 1
                   /\ Goto("lines")
                   /\ UNCHANGED <<left, cpu>>
  /\ UNCHANGED <<locals, calm>>

\* Mutant: the rest of a long line is read as a line.
ReadLine_ReadsRest ==
  /\ pc = "lines"
  /\ pos + 1 \in DOMAIN layout
  /\ LET slot == layout[pos + 1]
         line == LineOf(slot, cpu)
         read == IF line.long THEN LineOf([slot EXCEPT !.kind = slot.rest], cpu) ELSE line
     IN  IF (line.long /\ Relevant(line)) \/ Feed(parser, read).invalid THEN Answer(Unknown)
         ELSE /\ parser' = Feed(parser, read)
              /\ pos' = pos + 1
              /\ Goto("lines")
              /\ UNCHANGED <<left, cpu>>
  /\ UNCHANGED <<locals, calm>>

\* One turn of the loop in arm_cpu_from_proc_cpuinfo.  A line too long for
\* the buffer is judged by its first piece: the call fails if the line
\* matters, else skips it to its newline, or to the end of the file.
ReadLine ==
  /\ pc = "lines"
  /\ pos + 1 \in DOMAIN layout
  /\ LET line == LineOf(layout[pos + 1], cpu)
     IN  IF line.long
         THEN IF Relevant(line) THEN Answer(Unknown)
              ELSE /\ pos' = pos + 1
                   /\ Goto("lines")
                   /\ UNCHANGED <<left, cpu, parser>>
         ELSE IF Feed(parser, line).invalid THEN Answer(Unknown)
              ELSE /\ parser' = Feed(parser, line)
                   /\ pos' = pos + 1
                   /\ Goto("lines")
                   /\ UNCHANGED <<left, cpu>>
  /\ UNCHANGED <<locals, calm>>

EndOfLines ==
  /\ pc = "lines"
  /\ pos + 1 \notin DOMAIN layout
  /\ Goto("next")
  /\ UNCHANGED <<left, cpu, pos, locals, parser, calm>>

EndOfCpuinfo ==
  /\ pc = "next"
  /\ left = {}
  /\ Answer(Finish(parser))
  /\ UNCHANGED <<locals, calm>>

CallStep ==
  \/ OpenDirectory
  \/ ReadEntry
  \/ ReadOnline
  \/ OpenMidrFails
  \/ ReadMidr
  \/ EndOfDirectory
  \/ OpenCpuinfo
  \/ NextCpu
  \/ ReadLine
  \/ EndOfLines
  \/ EndOfCpuinfo

Failure == ReadEntryFails \/ ReadMidrFails \/ CpuinfoFails

Next == Hotplug \/ CallStep \/ Failure

\* The host schedules the call; no failure has to happen.
Spec == Init /\ [][Next]_vars /\ WF_vars(CallStep)

-----------------------------------------------------------------------------
(* Properties.                                                             *)

\* A named answer holds for every CPU that was online during the whole call,
\* whatever went offline, came back, failed or could not be read in between:
\* the "safe named profile" of cdisasm_common.h:182-184.
NamedIsShared ==
  result \in Profiles => \A c \in steady : Profile(core[c]) = result

\* A machine that tells the parser all it needs.
Describes(lines) ==
  \E i, p \in DOMAIN lines :
    /\ lines[i].kind = "implementer"
    /\ lines[p].kind = "part"
    /\ \A n \in DOMAIN lines :
         /\ Relevant(lines[n]) => ~lines[n].long
         /\ lines[n].kind = "processor" => n = 1
         /\ lines[n].kind = "implementer" => n = i
         /\ lines[n].kind = "part" => n = p
         /\ lines[n].kind = "blank" => n > i /\ n > p

\* Caution does not cost an answer: where nothing changes and nothing fails,
\* all CPUs online share one named profile and the machine tells which,
\* that profile is the answer, whichever of the two sources it comes from.
CalmIsAnswered ==
  /\ pc = "done"
  /\ calm
  /\ midrs \/ Describes(layout)
  => \A q \in Profiles :
       (\A c \in online : Profile(core[c]) = q) => result = q

\* The call returns, however often CPUs come and go.
CallReturns == <>(pc = "done")

=============================================================================
