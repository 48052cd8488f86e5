--------------------------- MODULE ArmCpuinfoFile ---------------------------
(***************************************************************************)
(* The /proc/cpuinfo parser fed with the lines of a file one after the     *)
(* other, against what the whole file says.                                *)
(***************************************************************************)
EXTENDS ArmCpuinfo, Sequences

CONSTANTS
  Text,       \* the lines the file may contain
  MaxLines    \* bound on the length of the file, for model checking

ASSUME TextAssumption ==
  /\ \A line \in Text : LineOK(line)
  /\ MaxLines \in Nat

VARIABLES
  fileParser,   \* the parser state
  fed           \* the lines fed so far

fileVars == <<fileParser, fed>>

FileInit ==
  /\ fileParser = NewParser
  /\ fed = <<>>

\* The caller feeds lines as long as feed returns 1.
FileNext ==
  /\ ~fileParser.invalid
  /\ Len(fed) < MaxLines
  /\ \E line \in Text :
       /\ fileParser' = Feed(fileParser, line)
       /\ fed' = Append(fed, line)

FileSpec == FileInit /\ [][FileNext]_fileVars

-----------------------------------------------------------------------------
(* What a file means, said without a parser: a file is cut into sections   *)
(* at its blank lines and in front of its processor lines.                 *)

Cut(i) == fed[i].kind \in {"processor", "blank"}

\* The lines of a section, the processor line that opens it included.
Sections ==
  {p[1]..p[2] : p \in
     {p \in (1..Len(fed)) \X (1..Len(fed)) :
        /\ p[1] <= p[2]
        /\ p[1] = 1 \/ fed[p[1]].kind = "processor" \/ fed[p[1] - 1].kind = "blank"
        /\ fed[p[1]].kind # "blank"
        /\ p[2] = Len(fed) \/ Cut(p[2] + 1)
        /\ \A k \in p[1] + 1..p[2] : ~Cut(k)}}

Records == {r \in Sections : \E k \in r : Relevant(fed[k])}

Holds(r, kind, limit, v) ==
  \E k \in r :
    /\ fed[k].kind = kind /\ fed[k].ok
    /\ fed[k].value = v /\ v <= limit
    /\ \A n \in r \ {k} : fed[n].kind # kind

IsCore(r, i, p) ==
  /\ Holds(r, "implementer", MaxImplementer, i)
  /\ Holds(r, "part", MaxPart, p)
  /\ \A k \in r : fed[k].kind = "processor" => fed[k].ok

Numbers == {line.value : line \in Text}

NamedBy(r, q) ==
  \E i, p \in Numbers : IsCore(r, i, p) /\ Profile(<<i, p>>) = q

\* The parser answers with a profile exactly if the file has a record and
\* every record names one known core of that profile, whatever the order of
\* the lines in a record and whether blank lines separate the records.  This
\* is what cdisasm_common.h:182-184 calls a safe named profile.
AnswersWhatFileSays ==
  \A q \in Profiles :
    Finish(fileParser) = q <=> Records # {} /\ \A r \in Records : NamedBy(r, q)

=============================================================================
