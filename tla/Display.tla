------------------------------ MODULE Display ------------------------------
(***************************************************************************)
(* What main prints of processes: the commands list, name and user have a  *)
(* vector of rows from queryProcesses, show and pid have the details of    *)
(* one PID and go on with its sections (module Inspect), unless a format   *)
(* was asked for.  The rows then go to the printer of the format, which    *)
(* for "tree" is printProcessForest (module Forest).                       *)
(***************************************************************************)
EXTENDS Inspect

CONSTANTS
  Formats,       \* the formats of the instance
  ListedPids,    \* the PIDs a row may have
  Listings       \* the vectors queryProcesses may return

ASSUME DisplayAssumption ==
  /\ Formats \subseteq {"table", "csv", "json", "ndjson", "vertical", "field", "tree"}
  /\ Pids \subseteq ListedPids
  /\ ListedPids \subseteq Nat
  /\ Listings \subseteq Seq([pid : ListedPids, ppid : Nat])
  \* queryProcesses does not return a PID twice (Collect!RowsDistinct)
  /\ \A l \in Listings : \A m, n \in DOMAIN l : l[m].pid = l[n].pid => m = n

VARIABLES
  command,    \* "list" (as are name and user) or "show" (as is pid)
  format,     \* --output, or "field" for --field
  processes,  \* processesToDisplay
  ppc,        \* the printer: "none", then as in Forest; "done" at the end
  agenda,     \* as in Forest
  visited,    \* as in Forest
  printed     \* the lines, records or blocks printed: <<row, depth>>

commandVars == <<command, format>>
printVars == <<processes, ppc, agenda, visited, printed>>
vars == <<procVars, detailsVars, inspectVars, commandVars, printVars>>

Tree == INSTANCE Forest WITH Pids <- ListedPids, pc <- ppc

TypeOK ==
  /\ InspectTypeOK
  /\ command \in {"list", "show"}
  /\ format \in Formats
  /\ processes = << >> \/ processes \in Listings \/ processes[1].pid = ask.pid
  /\ ppc \in {"none", "start", "roots", "rest", "done"}
  /\ agenda \in Seq((DOMAIN processes) \X Nat)
  /\ visited \subseteq ListedPids
  /\ printed \in Seq((DOMAIN processes) \X Nat)

Init ==
  /\ InspectInit
  /\ command \in {"list", "show"}
  /\ format \in Formats
  /\ command = "list" => /\ table = CHOOSE t \in InitialTables : TRUE
                         /\ sockets = CHOOSE s \in SocketsAt : TRUE
                         /\ ask = CHOOSE a \in Asks : TRUE
  /\ command = "show" /\ ~ask.asRow => format = CHOOSE f \in Formats : TRUE
  /\ ppc = "none"
  /\ processes = << >> /\ agenda = << >> /\ visited = {} /\ printed = << >>

\* Bound: the kernel rests behind the last read.
KernelStep ==
  /\ command = "show"
  /\ ipc # "done"
  /\ Kernels
  /\ UNCHANGED <<commandVars, printVars>>

ReportStep ==
  /\ command = "show"
  /\ Report
  /\ UNCHANGED <<commandVars, printVars>>

\* queryProcesses (module Collect) returns, with rows or with an error, on
\* which nothing is printed.
TakeRows ==
  /\ command = "list"
  /\ ppc = "none"
  /\ \/ processes' \in Listings /\ ppc' = "start"
     \/ UNCHANGED processes /\ ppc' = "done"
  /\ UNCHANGED <<procVars, detailsVars, inspectVars, commandVars, agenda, visited, printed>>

\* The details of the one process are a row.
TakeOneRow ==
  /\ command = "show"
  /\ ppc = "none"
  /\ ipc = "done" /\ status = "ok" /\ ask.asRow
  /\ processes' = <<[pid |-> row.pid, ppid |-> row.ppid]>>
  /\ ppc' = "start"
  /\ EndDetails
  /\ UNCHANGED <<procVars, inspectVars, commandVars, agenda, visited, printed>>

\* Every other format has the rows one after the other; of none, there is at
\* most a notice.
PrintLines ==
  /\ ppc = "start"
  /\ format # "tree" \/ processes = << >>
  /\ ppc' = "done"
  /\ printed' = Tree!AtDepth([n \in DOMAIN processes |-> n], 0)
  /\ UNCHANGED <<procVars, detailsVars, inspectVars, commandVars, processes, agenda, visited>>

PrintTree ==
  /\ format = "tree"
  /\ processes # << >>
  /\ Tree!Next
  /\ UNCHANGED <<procVars, detailsVars, inspectVars, commandVars>>

Program == ReportStep \/ TakeRows \/ TakeOneRow \/ PrintLines \/ PrintTree

Next == KernelStep \/ Program

Spec == Init /\ [][Next]_vars
\* The program runs; of the kernel nothing is assumed.
FairSpec == Spec /\ WF_vars(Program)

-----------------------------------------------------------------------------
(* Properties *)

\* Whatever the format, every process of the result is printed once: those on
\* a cycle of parents are not dropped, and none is repeated (main.cpp:935-960,
\* output.cpp:281-291).
PrintedExactlyOnce == Tree!PrintedOnce /\ Tree!NothingDropped

\* In a tree the indentation tells the truth, and what is not indented has no
\* parent in the listing or is caught in a cycle (output.cpp:259-291).
Indentation == format = "tree" => Tree!IndentedBelowParent /\ Tree!DepthZeroJustified

\* The command comes to its end, however the kernel goes on.
Over == \/ ppc = "done"
        \/ ipc = "done" /\ ~(status = "ok" /\ ask.asRow)
DisplayEnds == <>Over
=============================================================================
