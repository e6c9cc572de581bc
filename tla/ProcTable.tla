----------------------------- MODULE ProcTable -----------------------------
(***************************************************************************)
(* The kernel's process table as /proc shows it.  It is not part of the    *)
(* analyzer: every module that reads /proc interleaves its own steps with  *)
(* the steps of this one.                                                  *)
(*                                                                         *)
(* A PID names different processes over time.  A process is identified by  *)
(* its PID and its birth (what starttime is in /proc/<pid>/stat), so a     *)
(* reused PID shows up as another birth.                                   *)
(***************************************************************************)
EXTENDS Integers

CONSTANTS
  Pids,           \* the PIDs of the instance, numbers above 0
  InitPid,        \* the process that never exits and adopts orphans
  Subreapers,     \* the PIDs whose process may be a subreaper
  MaxBirths,      \* bound: no process is forked once the birth clock is here
  AccessModes,    \* what the caller may read of a forked process
  SockModes,      \* whether a forked process has a socket
  InitialTables   \* the tables a run may start from

(***************************************************************************)
(* "full": a process of the caller; "public": of somebody else, its stat,  *)
(* status and cmdline are readable; "none": its directory exists but       *)
(* cannot be opened (hidepid=1, or a directory without r-x).               *)
(***************************************************************************)
Access == {"full", "public", "none"}
Processes == [born : Nat, ppid : Pids \cup {0}, access : Access, sock : BOOLEAN]
NoProcess == [born |-> 0, ppid |-> 0, access |-> "none", sock |-> FALSE]

ASSUME ProcTableAssumption ==
  /\ Pids \subseteq Nat \ {0}
  /\ InitPid \in Pids
  /\ Subreapers \subseteq Pids
  /\ MaxBirths \in Nat
  /\ AccessModes \subseteq Access
  /\ SockModes \subseteq BOOLEAN
  /\ InitialTables \subseteq [Pids -> Processes]
  \* init is there and nobody's child, and every other parent is there
  /\ \A t \in InitialTables :
       /\ t[InitPid].born # 0
       /\ t[InitPid].ppid \in {0, InitPid}
       /\ \A p \in Pids :
            t[p].born # 0 /\ t[p].ppid # 0 => t[t[p].ppid].born # 0

VARIABLES
  table,    \* [Pids -> Processes]
  births,   \* the birth clock: the birth of the youngest process so far
  lived,    \* PIDs whose process has been alive since the running call began
  settled,  \* those of them that have had one parent since then
  views     \* the sets of processes that were alive together since then

procVars == <<table, births, lived, settled, views>>

ProcTypeOK ==
  /\ table \in [Pids -> Processes]
  /\ births \in Nat
  /\ lived \subseteq Pids
  /\ settled \subseteq Pids
  /\ views \subseteq SUBSET (Pids \X Nat)

Alive(p) == table[p].born # 0
AlivePids == {p \in Pids : Alive(p)}
Present(p) == <<p, table[p].born>>
View(t) == {<<p, t[p].born>> : p \in {q \in Pids : t[q].born # 0}}
Seen == UNION views   \* alive at some time since the call began

ProcInit ==
  /\ table \in InitialTables
  /\ \E youngest \in Pids : births = table[youngest].born
  /\ \A p \in Pids : table[p].born <= births
  /\ lived = {}
  /\ settled = {}
  /\ views = {}

\* A call begins: from here on lived, settled and views record the table's
\* history.
Mark ==
  /\ lived' = AlivePids
  /\ settled' = AlivePids
  /\ views' = {View(table)}

\* fork(2): any free PID may be given out, one used before included.
Fork(parent, child, access, sock) ==
  /\ Alive(parent)
  /\ ~Alive(child)
  /\ births < MaxBirths
  /\ births' = births + 1
  /\ table' = [table EXCEPT ![child] =
                 [born |-> births + 1, ppid |-> parent,
                  access |-> access, sock |-> sock]]
  /\ views' = views \cup {View(table')}
  /\ UNCHANGED <<lived, settled>>

\* q is p's parent, or its parent's parent, and so on: in every set that holds
\* p's parent and the parent of each of its members.
Above(q, p) ==
  \A S \in SUBSET (Pids \cup {0}) :
    table[p].ppid \in S /\ (\A x \in S \ {0} : table[x].ppid \in S) => q \in S

\* Who may adopt p's children: the nearest process above p that is a subreaper
\* (PR_SET_CHILD_SUBREAPER) when p exits, init if there is none.  A process
\* may become one and cease to be one at any time, so any of those above p
\* may be the nearest.  (On a cycle of parents nobody is.)
Adopters(p) ==
  {InitPid} \cup {q \in Subreapers : Alive(q) /\ Above(q, p) /\ ~Above(p, q)}

\* A process exits and is reaped; its children all pass to one adopter.
Exit(p) ==
  /\ Alive(p)
  /\ p # InitPid
  /\ \E adopter \in Adopters(p) :
       table' = [q \in Pids |->
                   IF q = p THEN NoProcess
                   ELSE IF table[q].ppid = p
                        THEN [table[q] EXCEPT !.ppid = adopter]
                        ELSE table[q]]
  /\ lived' = lived \ {p}
  /\ settled' = {q \in settled \ {p} : table[q].ppid # p}
  /\ views' = views \cup {View(table')}
  /\ UNCHANGED births

Kernel ==
  \/ \E parent, child \in Pids, a \in AccessModes, s \in SockModes :
        Fork(parent, child, a, s)
  \/ \E p \in Pids : Exit(p)
=============================================================================
