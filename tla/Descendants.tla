---------------------------- MODULE Descendants ----------------------------
(***************************************************************************)
(* ProcessAnalyzer::getAllDescendantProcesses: a walk over a stack of PIDs *)
(* that calls getChildProcesses for each PID it has not visited.  Every    *)
(* such call lists /proc again and reads the parent PID of one process     *)
(* after the other, so the tree changes under the walk: children are       *)
(* adopted by a subreaper or by init, PIDs are reused at another place of  *)
(* the tree.                                                               *)
(* And getParentProcess, which goes up one step, by two details calls.     *)
(*                                                                         *)
(* Of getProcessDetails only the stat part matters here (ppid is read      *)
(* nowhere else, and no other part can fail the call): a row is read in    *)
(* one step.  Module Details has the call in full.                         *)
(***************************************************************************)
EXTENDS ProcTable, Sequences, SequencesExt

CONSTANT Roots   \* the PIDs a walk may start from

ASSUME DescendantsAssumption == Roots \subseteq Pids

VARIABLES
  wpc,       \* where the call is
  asked,     \* "descendants" or "parent"
  root,      \* the PID asked about
  stack,     \* pidsToExplore
  visited,   \* visitedPids
  current,   \* currentParentPid, or ppid
  unread,    \* listed by getPids, details not yet read
  children,  \* the vector getChildProcesses builds
  out        \* descendants, or the one parent

walkVars == <<wpc, asked, root, stack, visited, current, unread, children, out>>
vars == <<procVars, walkVars>>

Rows == [pid : Pids, born : Nat, ppid : Pids \cup {0}]
RowAt(p) == [pid |-> p, born |-> table[p].born, ppid |-> table[p].ppid]
PidsOf(rows) == [i \in DOMAIN rows |-> rows[i].pid]
Openable(p) == Alive(p) /\ table[p].access # "none"

\* Type invariant of the walk and of the table.
TypeOK ==
  /\ ProcTypeOK
  /\ wpc \in {"idle", "pop", "exists", "open", "list", "read", "row", "parent"}
  /\ asked \in {"descendants", "parent"}
  /\ root \in Roots
  /\ stack \in Seq(Pids)
  /\ visited \subseteq Pids
  /\ current \in Pids
  /\ unread \subseteq Pids
  /\ children \in Seq(Rows)
  /\ out \in Seq(Rows)

Init ==
  /\ ProcInit
  /\ wpc = "idle"
  /\ asked = "descendants"
  /\ root \in Roots
  /\ stack = <<>>
  /\ visited = {}
  /\ current = root
  /\ unread = {}
  /\ children = <<>>
  /\ out = <<>>

Begin(p) ==
  /\ wpc = "idle"
  /\ wpc' = "pop"
  /\ asked' = "descendants"
  /\ root' = p
  /\ stack' = <<p>>
  /\ visited' = {}
  /\ current' = p
  /\ out' = <<>>
  /\ Mark
  /\ UNCHANGED <<table, births, unread, children>>

\* Mutant: no visited check.
PopAlways ==
  /\ wpc = "pop"
  /\ stack # <<>>
  /\ stack' = Front(stack)
  /\ visited' = visited \cup {Last(stack)}
  /\ current' = Last(stack)
  /\ wpc' = "exists"
  /\ UNCHANGED <<procVars, asked, root, unread, children, out>>

\* The last PID is popped, and explored unless it was before.
Pop ==
  /\ wpc = "pop"
  /\ stack # <<>>
  /\ stack' = Front(stack)
  /\ IF Last(stack) \in visited
     THEN UNCHANGED <<wpc, visited, current>>
     ELSE /\ visited' = visited \cup {Last(stack)}
          /\ current' = Last(stack)
          /\ wpc' = "exists"
  /\ UNCHANGED <<procVars, asked, root, unread, children, out>>

\* getChildProcesses, exists(): no process, hence no children.
ParentExists ==
  /\ wpc = "exists"
  /\ wpc' = IF Alive(current) THEN "open" ELSE "pop"
  /\ UNCHANGED <<procVars, asked, root, stack, visited, current, unread, children, out>>

\* getChildProcesses, opening the parent's directory: an error makes the walk
\* skip the PID.
ParentOpen ==
  /\ wpc = "open"
  /\ wpc' = IF Openable(current) THEN "list" ELSE "pop"
  /\ UNCHANGED <<procVars, asked, root, stack, visited, current, unread, children, out>>

\* getPids: readdir gives, in any order, each entry at most once ...
ListEntry(q) ==
  /\ wpc = "list"
  /\ Alive(q)
  /\ q \notin unread
  /\ unread' = unread \cup {q}
  /\ UNCHANGED <<procVars, wpc, asked, root, stack, visited, current, children, out>>

\* ... and no entry that was there all the time is left out.
ListEnd ==
  /\ wpc = "list"
  /\ lived \subseteq unread
  /\ wpc' = "read"
  /\ UNCHANGED <<procVars, asked, root, stack, visited, current, unread, children, out>>

\* Mutant: the parent recorded when the PID was listed is not checked again,
\* every listed process but the root counts as a child.
ReadAnyChild(q) ==
  /\ wpc = "read"
  /\ q \in unread
  /\ unread' = unread \ {q}
  /\ children' = IF q \notin {current, root} /\ Openable(q)
                 THEN Append(children, RowAt(q)) ELSE children
  /\ UNCHANGED <<procVars, wpc, asked, root, stack, visited, current, out>>

\* Mutant: a process whose details fail is tried again.
ReadChildOrRetry(q) ==
  /\ wpc = "read"
  /\ q \in unread
  /\ unread' = IF Openable(q) THEN unread \ {q} ELSE unread
  /\ children' = IF q # current /\ Openable(q) /\ table[q].ppid = current
                 THEN Append(children, RowAt(q)) ELSE children
  /\ UNCHANGED <<procVars, wpc, asked, root, stack, visited, current, out>>

\* getChildProcesses, details of one listed PID: a child when its ppid is the
\* parent's PID now; the parent itself and unreadable processes are skipped.
ReadChild(q) ==
  /\ wpc = "read"
  /\ q \in unread
  /\ unread' = unread \ {q}
  /\ children' = IF q # current /\ Openable(q) /\ table[q].ppid = current
                 THEN Append(children, RowAt(q)) ELSE children
  /\ UNCHANGED <<procVars, wpc, asked, root, stack, visited, current, out>>

\* Mutant: only the last child is put on the stack.
TakeChildrenPushLast ==
  /\ wpc = "read"
  /\ unread = {}
  /\ wpc' = "pop"
  /\ out' = out \o children
  /\ stack' = IF children = <<>> THEN stack ELSE Append(stack, Last(children).pid)
  /\ children' = <<>>
  /\ UNCHANGED <<procVars, asked, root, visited, current, unread>>

\* The children join the descendants, visited or not, and the stack.
TakeChildren ==
  /\ wpc = "read"
  /\ unread = {}
  /\ wpc' = "pop"
  /\ out' = out \o children
  /\ stack' = stack \o PidsOf(children)
  /\ children' = <<>>
  /\ UNCHANGED <<procVars, asked, root, visited, current, unread>>

Return ==
  /\ wpc = "pop"
  /\ stack = <<>>
  /\ wpc' = "idle"
  /\ UNCHANGED <<procVars, asked, root, stack, visited, current, unread, children, out>>

\* getParentProcess.
BeginParent(p) ==
  /\ wpc = "idle"
  /\ wpc' = "row"
  /\ asked' = "parent"
  /\ root' = p
  /\ visited' = {}
  /\ current' = p
  /\ out' = << >>
  /\ Mark
  /\ UNCHANGED <<table, births, stack, unread, children>>

\* The process's details: init's children, and processes of the kernel, are
\* said to have no parent.
ReadPpid ==
  /\ wpc = "row"
  /\ IF Openable(root) /\ table[root].ppid \notin {0, InitPid}
     THEN wpc' = "parent" /\ current' = table[root].ppid
     ELSE wpc' = "idle" /\ UNCHANGED current
  /\ UNCHANGED <<procVars, asked, root, stack, visited, unread, children, out>>

\* The details of whoever has the parent's PID now.
ReadParent ==
  /\ wpc = "parent"
  /\ wpc' = "idle"
  /\ out' = IF Openable(current) THEN <<RowAt(current)>> ELSE << >>
  /\ UNCHANGED <<procVars, asked, root, stack, visited, current, unread, children>>

Walk ==
  \/ Pop
  \/ ParentExists
  \/ ParentOpen
  \/ \E q \in Pids : ListEntry(q)
  \/ ListEnd
  \/ \E q \in Pids : ReadChild(q)
  \/ TakeChildren
  \/ Return
  \/ ReadPpid
  \/ ReadParent

Next ==
  \/ \E p \in Roots : Begin(p) \/ BeginParent(p)
  \/ Walk
  \/ Kernel /\ UNCHANGED walkVars

Spec == Init /\ [][Next]_vars
\* The call's thread runs; nothing is assumed of clients or the kernel.
FairSpec == Spec /\ WF_vars(Walk)

-----------------------------------------------------------------------------
(* Properties *)

Returned == wpc = "idle" /\ asked = "descendants" /\ visited # {}

\* Rows are appended without a check, parents change between two calls of
\* getChildProcesses, and a PID may be on the stack more than once: the
\* visited list must stop the second exploration.  What remains is adoption.
\* A process found below its parent, and adopted since by a subreaper that is
\* explored later, is reported a second time, below that subreaper: never
\* twice below one PID, never again below the root or init, and a process
\* whose parent has not changed is reported once.
RepeatedOnlyByAdoption ==
  LET rows == out \o children
  IN \A i, j \in DOMAIN rows :
       i < j /\ rows[i].pid = rows[j].pid /\ rows[i].born = rows[j].born =>
         /\ rows[i].ppid # rows[j].ppid
         /\ rows[j].ppid \in Subreapers \ {root, InitPid}
         /\ ~(rows[i].pid \in settled /\ rows[i].born = table[rows[i].pid].born)

\* Every row hangs on the root or on a row before it: the result is a tree
\* in the order it was found.
RowsLinked ==
  asked = "descendants" => \A i \in DOMAIN out :
    \/ out[i].ppid = root
    \/ \E j \in 1 .. i - 1 : out[j].pid = out[i].ppid

\* No process twice but by adoption, every row linked, every variable of its
\* type.
WalkInv == TypeOK /\ RepeatedOnlyByAdoption /\ RowsLinked

\* Processes below p: the least set that is closed under "readable child".
Closed(S, p) ==
  \A q \in Pids :
    /\ q # table[q].ppid
    /\ Openable(q)
    /\ table[q].ppid \in S \cup {p}
    => q \in S

Below(p) ==
  IF Openable(p) THEN {q \in Pids : \A S \in SUBSET Pids : Closed(S, p) => q \in S}
  ELSE {}

\* If nothing was forked and nothing exited during the walk, the result is
\* exactly the processes below the root, parent cycles (of a /proc that is a
\* fixture) included.
Quiet == views = {View(table)}

QuietWalkExact ==
  Returned /\ Quiet => ToSet(PidsOf(out)) = Below(root)

\* A process is reported if the whole chain of parents from it up to the root
\* lives throughout the walk, is readable, and is the same chain throughout:
\* nobody on it was adopted meanwhile.  Whatever else changes.  (Nothing is
\* promised of a process adopted during the walk: one whose parent exits
\* before it is read, and that passes to a PID explored already, is missed.)
SettledClosed(S) ==
  \A q \in settled :
    /\ q # table[q].ppid
    /\ Openable(q)
    /\ table[q].ppid \in S \cup {root}
    => q \in S

SettledChainsReported ==
  Returned /\ root \in lived /\ Openable(root) =>
    \A q \in settled :
      (\A S \in SUBSET settled : SettledClosed(S) => q \in S) =>
        \E i \in DOMAIN out : out[i].pid = q /\ out[i].born = table[q].born

\* So is the parent of a process that lives throughout and is not adopted
\* meanwhile; of init's children, and of those of no process, no parent is
\* reported (base.cpp:82-92).
SettledParentReported ==
  LET parent == table[root].ppid IN
  wpc = "idle" /\ asked = "parent" /\ root \in settled /\ Openable(root) =>
    IF parent \notin {0, InitPid} /\ Openable(parent)
    THEN Len(out) = 1 /\ out[1].pid = parent /\ out[1].born = table[parent].born
    ELSE out = << >>

\* Both: who belongs to a surviving process's family, and has all along, is
\* reported.
SettledFamilyReported == SettledChainsReported /\ SettledParentReported

\* A walk ends, on parent cycles and on a table that keeps changing as well.
WalkEnds == wpc # "idle" ~> wpc = "idle"
=============================================================================
