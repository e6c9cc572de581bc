------------------------------ MODULE Inspect ------------------------------
(***************************************************************************)
(* The show and pid commands: the details of one PID, and behind them the  *)
(* sections that were asked for, each made by a call of its own which      *)
(* looks for /proc/<pid> again.  Between any two reads the kernel forks,   *)
(* reaps, and opens and closes sockets, so the sections may be of          *)
(* different processes, or of none.                                        *)
(*                                                                         *)
(* What a section says is abstracted to the lives it was read from: the    *)
(* births of the processes that had the PID then.  A section may say that  *)
(* something is not there although nothing could be read: of no life.      *)
(***************************************************************************)
EXTENDS Details, Sequences, SequencesExt

CONSTANTS
  Asks,        \* the command lines: [pid, wants, asRow]
  Inodes,      \* the numbers a socket may have
  SocketsAt,   \* the sockets there may be at the begin
  NewSockets   \* the sockets that may be opened: [table, number]

\* The sections in the order main prints them; --perf asks for two.
Order == <<"children", "descendants", "files", "network", "threads", "env", "maps",
           "limits", "cgroup", "affinity", "cpu", "io">>
Sections == {Order[i] : i \in DOMAIN Order}

(***************************************************************************)
(* A socket: the processes that have it open; the table it is listed in,   *)
(* "unix" for all that are not read, "none" before the inode is given out; *)
(* and another number on its line (the UID, a timeout, a count), 0 if that *)
(* is nobody's inode.                                                      *)
(***************************************************************************)
Tables == <<"tcp", "tcp6", "udp", "udp6">>
Listed == {Tables[i] : i \in DOMAIN Tables}
Socket == [holders : SUBSET Pids, table : Listed \cup {"unix", "none"},
           number : Inodes \cup {0}]

ASSUME InspectAssumption ==
  /\ Asks \subseteq [pid : Pids, wants : SUBSET Sections, asRow : BOOLEAN]
  /\ \A a \in Asks : "cpu" \in a.wants <=> "io" \in a.wants
  /\ Inodes \subseteq Nat \ {0}
  /\ SocketsAt \subseteq [Inodes -> Socket]
  \* nobody has a socket open that there is not yet
  /\ \A s \in SocketsAt : \A i \in Inodes : s[i].table = "none" => s[i].holders = {}
  /\ NewSockets \subseteq [table : Listed \cup {"unix"}, number : Inodes \cup {0}]

VARIABLES
  sockets,   \* kernel: the sockets by inode
  ask,       \* the command
  ipc,       \* the next read, "idle", or "done"
  at,        \* the place in Order of the section it is for, 0 for the details
  from,      \* the life whose fd or task directory, or first sample, was read
  inodes,    \* getNetworkConnections: socketInodes
  lines,     \* ... connections, by the inode of the socket a line is of
  said,      \* the sections printed: [section, what, of]
  status,    \* "none" while running, then the exit status
  kept,      \* history: sockets the PID has had since the section began
  owned      \* history: sockets the PID has had at some time since then

socketVars == <<sockets, kept, owned>>
reportVars == <<ask, ipc, at, from, inodes, lines, said, status>>
inspectVars == <<socketVars, reportVars>>

Section == IF at = 0 THEN "details" ELSE Order[at]

ReportSteps ==
  {"idle", "details", "next", "done", "exists", "opendir", "family", "fdExists", "fd", "links",
   "taskExists", "task", "stats", "file", "first", "second"} \cup Listed

InspectTypeOK ==
  /\ ProcTypeOK
  /\ DetailsTypeOK
  /\ sockets \in [Inodes -> Socket]
  /\ ask \in Asks
  /\ ipc \in ReportSteps
  /\ at \in 0 .. Len(Order)
  /\ from \in Nat
  /\ inodes \subseteq Inodes
  /\ lines \subseteq Inodes
  /\ said \in Seq([section : Sections \cup {"details"}, what : {"value", "error"},
                   of : SUBSET (Nat \ {0})])
  /\ status \in {"none", "ok", "failed"}
  /\ kept \subseteq owned /\ owned \subseteq Inodes

InspectInit ==
  /\ ProcInit
  /\ DetailsInit
  /\ sockets \in SocketsAt
  /\ ask \in Asks
  /\ ipc = "idle"
  /\ at = 0
  /\ from = 0
  /\ inodes = {} /\ lines = {}
  /\ said = << >>
  /\ status = "none"
  /\ kept = {} /\ owned = {}

-----------------------------------------------------------------------------
\* The kernel.

Holding(p) == {i \in Inodes : p \in sockets[i].holders}

\* The histories follow what the PID has open while its sockets are read.
Reading == ipc # "done" /\ Section = "network"
Track ==
  LET now == {i \in Inodes : ask.pid \in sockets'[i].holders} IN
  /\ kept' = kept \cap now
  /\ owned' = IF Reading THEN owned \cup now ELSE owned

Drops(p, i) == [sockets[i] EXCEPT !.holders = @ \ {p}]

\* A child has its parent's sockets.
KernelForks(parent, child, access) ==
  /\ \E s \in SockModes : Fork(parent, child, access, s)
  /\ sockets' = [i \in Inodes |->
                   IF parent \in sockets[i].holders
                   THEN [sockets[i] EXCEPT !.holders = @ \cup {child}] ELSE sockets[i]]
  /\ Track
  /\ UNCHANGED <<detailsVars, reportVars>>

KernelReaps(p) ==
  /\ Exit(p)
  /\ sockets' = [i \in Inodes |-> Drops(p, i)]
  /\ Track
  /\ UNCHANGED <<detailsVars, reportVars>>

\* Bound: sockets rest while no section reads them.  An inode is given out
\* once: the kernel counts to 2^32 before it gives one out again.
KernelOpens(p, i, s) ==
  /\ Reading
  /\ Alive(p)
  /\ sockets[i].table = "none"
  /\ sockets' = [sockets EXCEPT ![i] = [holders |-> {p}, table |-> s.table, number |-> s.number]]
  /\ Track
  /\ UNCHANGED <<procVars, detailsVars, reportVars>>

KernelCloses(p, i) ==
  /\ Reading
  /\ p \in sockets[i].holders
  /\ sockets' = [sockets EXCEPT ![i] = Drops(p, i)]
  /\ Track
  /\ UNCHANGED <<procVars, detailsVars, reportVars>>

Kernels ==
  \/ \E parent, child \in Pids, a \in AccessModes : KernelForks(parent, child, a)
  \/ \E p \in Pids : KernelReaps(p)
  \/ \E p \in Pids, i \in Inodes, s \in NewSockets : KernelOpens(p, i, s)
  \/ \E p \in Pids, i \in Inodes : KernelCloses(p, i)

-----------------------------------------------------------------------------
\* The report.

Openable == Alive(ask.pid) /\ table[ask.pid].access # "none"
Own == Alive(ask.pid) /\ table[ask.pid].access = "full"
Born == table[ask.pid].born

Goto(step) == ipc' = step /\ UNCHANGED <<at, said, status>>

Say(what, of) ==
  /\ said' = Append(said, [section |-> Section, what |-> what, of |-> of \ {0}])
  /\ ipc' = "next"
  /\ UNCHANGED <<at, status>>

Exits(s) == ipc' = "done" /\ status' = s /\ UNCHANGED <<at, said>>

\* main: getProcessDetails comes first, and without it there is no report.
Begin ==
  /\ ipc = "idle"
  /\ Goto("details")
  /\ CallDetails(ask.pid)
  /\ Mark
  /\ UNCHANGED <<table, births, socketVars, ask, from, inodes, lines>>

ReadDetails ==
  /\ DetailsNext
  /\ UNCHANGED <<procVars, inspectVars>>

\* --columns, --field or --output: the row goes where the lists are printed
\* (module Display), and no section is looked at.
TakeDetails ==
  /\ ipc = "details"
  /\ dpc = "done"
  /\ CASE derr # "none" -> Exits("failed") /\ EndDetails
       [] derr = "none" /\ ask.asRow -> Exits("ok") /\ UNCHANGED detailsVars
       [] derr = "none" /\ ~ask.asRow ->
            Say("value", {row.part[x] : x \in Parts}) /\ EndDetails
  /\ UNCHANGED <<procVars, socketVars, ask, from, inodes, lines>>

\* Mutant: the affinity's block has slipped into the cgroups'.
NextSectionNested ==
  LET nested == IF "cgroup" \in ask.wants THEN {} ELSE {"affinity"}
      rest == {i \in DOMAIN Order : i > at /\ Order[i] \in ask.wants \ nested} IN
  /\ ipc = "next"
  /\ IF rest = {} THEN Exits("ok") /\ UNCHANGED <<kept, owned>>
     ELSE /\ at' = CHOOSE i \in rest : \A j \in rest : i <= j
          /\ ipc' = IF Order[at'] \in {"cpu", "io"} THEN "first" ELSE "exists"
          /\ kept' = IF Order[at'] = "network" THEN Holding(ask.pid) ELSE {}
          /\ owned' = kept'
          /\ UNCHANGED <<said, status>>
  /\ from' = 0 /\ inodes' = {} /\ lines' = {}
  /\ UNCHANGED <<procVars, detailsVars, sockets, ask>>

NextSection ==
  LET rest == {i \in DOMAIN Order : i > at /\ Order[i] \in ask.wants} IN
  /\ ipc = "next"
  /\ IF rest = {} THEN Exits("ok") /\ UNCHANGED <<kept, owned>>
     ELSE /\ at' = CHOOSE i \in rest : \A j \in rest : i <= j
          /\ ipc' = IF Order[at'] \in {"cpu", "io"} THEN "first" ELSE "exists"
          /\ kept' = IF Order[at'] = "network" THEN Holding(ask.pid) ELSE {}
          /\ owned' = kept'
          /\ UNCHANGED <<said, status>>
  /\ from' = 0 /\ inodes' = {} /\ lines' = {}
  /\ UNCHANGED <<procVars, detailsVars, sockets, ask>>

Body ==
  CASE Section \in {"children", "descendants"} -> "family"
    [] Section \in {"files", "network"} -> "fdExists"
    [] Section = "threads" -> "taskExists"
    [] OTHER -> "file"

\* What no step of a section but those that say so changes.
Leaves == UNCHANGED <<procVars, detailsVars, socketVars, ask>>

\* Mutant: an error is the end of the report.
CheckPidOrExit ==
  /\ ipc \in {"exists", "opendir"}
  /\ CASE ipc = "exists" /\ Alive(ask.pid) -> Goto("opendir") /\ UNCHANGED from
       [] ipc = "opendir" /\ Openable -> Goto(Body) /\ from' = Born
       [] OTHER -> Exits("failed") /\ UNCHANGED from
  /\ UNCHANGED <<inodes, lines>>
  /\ Leaves

\* Every call looks for /proc/<pid> and opens it.  Who has no process has no
\* children, and the walk passes over every error.
CheckPid ==
  /\ ipc \in {"exists", "opendir"}
  /\ CASE ipc = "exists" /\ Alive(ask.pid) -> Goto("opendir") /\ UNCHANGED from
       [] ipc = "opendir" /\ Openable -> Goto(Body) /\ from' = Born
       [] OTHER ->
            /\ Say(IF Section = "descendants" \/ (Section = "children" /\ ipc = "exists")
                   THEN "value" ELSE "error", {})
            /\ UNCHANGED from
  /\ UNCHANGED <<inodes, lines>>
  /\ Leaves

\* The listings behind them are in modules Collect and Descendants.
ReadFamily ==
  /\ ipc = "family"
  /\ Say("value", {from, Born})
  /\ UNCHANGED <<from, inodes, lines>>
  /\ Leaves

\* environ and maps are the owner's, limits, cgroup and status everybody's.
ReadFile ==
  /\ ipc = "file"
  /\ IF Own \/ (Openable /\ Section \notin {"env", "maps"})
     THEN Say("value", {Born}) ELSE Say("error", {})
  /\ UNCHANGED <<from, inodes, lines>>
  /\ Leaves

\* getProcessThreads: exists(task) throws unless there is simply none, and
\* the directory_iterator behind it throws whatever is wrong.  main does not
\* catch that here, as it does for the files, but at its end.
OpenTask ==
  /\ ipc \in {"taskExists", "task"}
  /\ IF Openable THEN Goto(IF ipc = "task" THEN "stats" ELSE "task") /\ from' = Born
     ELSE /\ IF ipc = "taskExists" /\ ~Alive(ask.pid)
             THEN Say("error", {}) ELSE Exits("failed")
          /\ UNCHANGED from
  /\ UNCHANGED <<inodes, lines>>
  /\ Leaves

\* A thread that is gone keeps its line, without a name.
ReadThreads ==
  /\ ipc = "stats"
  /\ Say("value", {from} \cup IF Openable THEN {Born} ELSE {})
  /\ UNCHANGED <<from, inodes, lines>>
  /\ Leaves

\* getProcessOpenFileDetails: exists(fd) ...
FdExists ==
  /\ ipc = "fdExists"
  /\ IF Openable THEN Goto("fd") ELSE Say("error", {})
  /\ UNCHANGED <<from, inodes, lines>>
  /\ Leaves

\* ... and directory_iterator(fd, ec), whose error nobody looks at: there
\* are no files then.
OpenFd ==
  /\ ipc = "fd"
  /\ IF Own THEN Goto("links") /\ from' = Born ELSE Say("value", {}) /\ UNCHANGED from
  /\ UNCHANGED <<inodes, lines>>
  /\ Leaves

\* The links are read by name.  Of a process that has gone meanwhile there
\* are none, or only names, which may be another one's by now.
ReadLinks ==
  /\ ipc = "links"
  /\ \/ Born = from /\ inodes' = Holding(ask.pid) /\ UNCHANGED from
     \/ Born # from /\ inodes' = {} /\ from' = 0
     \/ Born # from /\ Own /\ inodes' \in SUBSET Holding(ask.pid) /\ from' = Born
  /\ UNCHANGED lines
  /\ IF Section = "files" \/ inodes' = {} THEN Say("value", {from'}) ELSE Goto(Tables[1])
  /\ Leaves

\* Mutant: a line of no inode of interest is not passed over.
MentionedAny(t) == {i \in Inodes : sockets[i].table = t /\ sockets[i].holders # {}}

\* parseNetFile: the lines with a socket's inode, in whatever column behind
\* the fourth the number stands.
Mentioned(t) ==
  {i \in Inodes : /\ sockets[i].table = t
                  /\ sockets[i].holders # {}
                  /\ {i, sockets[i].number} \cap inodes # {}}

ReadTable ==
  \E k \in DOMAIN Tables :
    /\ ipc = Tables[k]
    /\ lines' = lines \cup Mentioned(Tables[k])
    /\ IF k = Len(Tables) THEN Say("value", {from}) ELSE Goto(Tables[k + 1])
    /\ UNCHANGED <<from, inodes>>
    /\ Leaves

\* Mutant: the details that are there already are the first sample.
SampleFromRow ==
  LET life == IF Section = "cpu" \/ Own THEN Born ELSE 0 IN
  /\ ipc \in {"first", "second"}
  /\ CASE ipc = "first" -> Goto("second") /\ from' = CHOOSE x \in said[1].of : TRUE
       [] ~Openable /\ ipc = "second" -> Say("error", {}) /\ UNCHANGED from
       [] Openable /\ ipc = "second" -> Say("value", {from, life}) /\ UNCHANGED from
  /\ UNCHANGED <<inodes, lines>>
  /\ Leaves

\* getProcessCpuUsage and getProcessDiskIoUsage (module Sampling): details on
\* both sides of a sleep.  The bytes of an io file that cannot be read are 0.
Sample ==
  LET life == IF Section = "cpu" \/ Own THEN Born ELSE 0 IN
  /\ ipc \in {"first", "second"}
  /\ CASE ~Openable -> Say("error", {}) /\ UNCHANGED from
       [] Openable /\ ipc = "first" -> Goto("second") /\ from' = life
       [] Openable /\ ipc = "second" -> Say("value", {from, life}) /\ UNCHANGED from
  /\ UNCHANGED <<inodes, lines>>
  /\ Leaves

Report ==
  \/ Begin \/ ReadDetails \/ TakeDetails \/ NextSection \/ CheckPid
  \/ ReadFamily \/ ReadFile \/ OpenTask \/ ReadThreads
  \/ FdExists \/ OpenFd \/ ReadLinks \/ ReadTable \/ Sample

-----------------------------------------------------------------------------
(* Properties *)

\* What is to be read of a process in a section, without an error and of its
\* one life: everything of the caller's processes, of others what is public.
Owed(access) ==
  CASE access = "full" -> Sections \cup {"details"}
    [] access = "public" -> Sections \ {"env", "maps", "files", "network", "io"}
    [] OTHER -> {}

\* The report on a process that lives through it has every section asked for
\* and is of this process only, whatever is forked and reaped around it
\* (main.cpp:679-922).  Of somebody else's process the sections that cannot
\* be read are errors, but for three that say there are no files, no
\* connections and no I/O (details.cpp:367, network.cpp:205, details.cpp:253):
\* that these are not of any life is all that holds of them.
SurvivorToldWhole ==
  ipc = "done" /\ ~ask.asRow /\ ask.pid \in lived /\ Openable =>
    /\ status = "ok"
    /\ {s.section : s \in Range(said)} = ask.wants \cup {"details"}
    /\ \A s \in Range(said) :
         IF s.section \in Owed(table[ask.pid].access) \cup {"details"}
         THEN s.what = "value" /\ s.of = {Born}
         ELSE s.of = {} /\ (s.what = "error" <=> s.section \in {"env", "maps"})

\* A report may go over to a process that was given the PID meanwhile, but it
\* never goes back: no section is of a process that had the PID before the
\* one of a section printed above it (main.cpp:679).
NeverBack ==
  \A j, k \in DOMAIN said : j < k =>
    \A x \in said[j].of, y \in said[k].of : x <= y

\* Every section asked for is answered once, in the order of the flags'
\* sections, be it with an error: one that fails takes no other with it.
\* The exception is the threads': a process that exits, or changes hands,
\* while they are listed ends the report there, with status 1.
AnsweredInOrder ==
  LET places == [k \in DOMAIN said |->
                   IF said[k].section = "details" THEN 0
                   ELSE CHOOSE i \in DOMAIN Order : Order[i] = said[k].section]
      answered == {said[k].section : k \in DOMAIN said} IN
  /\ \A j, k \in DOMAIN places : j < k => places[j] < places[k]
  /\ status = "ok" /\ ~ask.asRow => answered = ask.wants \cup {"details"}
  /\ status = "failed" /\ said # << >> =>
       /\ Section = "threads" /\ ask.pid \notin lived
       /\ \A i \in DOMAIN Order : i < at /\ Order[i] \in ask.wants => Order[i] \in answered

\* The connections printed are the process's own: every socket it has open
\* while the section is made, if a table lists it, is among them, and a line
\* of a socket that it did not have is there only by a number that happens to
\* be the inode of one it had (network.cpp:141-150).
ConnectionsMatchSockets ==
  ipc = "next" /\ Section = "network" =>
    /\ ask.pid \in lived /\ Own => \A i \in kept : sockets[i].table \in Listed => i \in lines
    /\ \A i \in lines : i \in owned \/ sockets[i].number \in owned
=============================================================================
