------------------------------- MODULE Files --------------------------------
(***************************************************************************)
(* The calls of utils/filesystem_operations.cpp as programs make them: one *)
(* program traverses a directory (module Traverse), or several move, copy  *)
(* and make temporaries (module FileOps); and the one of utils/system.cpp  *)
(* that works with a file, executeCommand (module Execute).  They share no *)
(* file, so two of them rest while the third runs.                         *)
(***************************************************************************)
EXTENDS FileOps, Traverse, Execute

vars == <<opsVars, walkVars, executeVars>>

Walking == wpc # "off"
Executing == xpc # "off"
Idle == \A c \in Callers : job[c] = "none"

\* Of no consequence: the file system of the calls that are not made.
Init ==
  /\ OpsInit
  /\ WalkInit
  /\ ExecuteInit
  /\ Walking \/ Executing <=> Idle
  /\ ~(Walking /\ Executing)
  /\ Idle => /\ ~across /\ regular /\ place = "none" /\ parent = "none"
             /\ temps = [n \in Names |-> "free"]
  /\ ~Walking => /\ dir = CHOOSE t \in Trees : TRUE
                 /\ options = CHOOSE o \in Options : TRUE
                 /\ start = CHOOSE s \in Starts : TRUE
  /\ (\A c \in Callers : job[c] = "temporary") =>
       ~across /\ regular /\ place = "none" /\ parent = "none"
  /\ (\A c \in Callers : job[c] # "temporary") => temps = [n \in Names |-> "free"]

\* Bound: other programs rest behind the last call.
Busy == \E c \in Callers : job[c] # "none" /\ step[c] \notin {"done", "dead"}
OthersStep ==
  \/ Busy /\ OthersAct /\ UNCHANGED <<walkVars, executeVars>>
  \/ Busy /\ (\E c \in Callers : Killed(c)) /\ UNCHANGED <<walkVars, executeVars>>
  \/ WalkOthers /\ UNCHANGED <<opsVars, executeVars>>
  \/ (CommandStep \/ ClearsDirectory) /\ UNCHANGED <<opsVars, walkVars>>

OpsStep(c) == (Begin(c) \/ CallStep(c)) /\ UNCHANGED <<walkVars, executeVars>>
TraverseStep == WalkStep /\ UNCHANGED <<opsVars, executeVars>>
RunStep == ExecuteStep /\ UNCHANGED <<opsVars, walkVars>>
\* The command goes on: it starts, its processes write what they have to
\* write as far as there is room for it, and then they end.
CommandGoesOn ==
  /\ Redirect \/ \E p \in Writers : Prints(p) \/ Finishes(p)
  /\ UNCHANGED <<opsVars, walkVars>>

Next == OthersStep \/ (\E c \in Callers : OpsStep(c)) \/ TraverseStep \/ RunStep

Spec == Init /\ [][Next]_vars
\* Every caller runs, and a command that is executed, with what it left behind
\* in the background, goes on as long as it need not wait for room in the
\* pipe; of the others nothing is assumed.
FairSpec ==
  /\ Spec
  /\ \A c \in Callers : WF_vars(OpsStep(c))
  /\ WF_vars(TraverseStep) /\ WF_vars(RunStep) /\ WF_vars(CommandGoesOn)

TypeOK == OpsTypeOK /\ WalkTypeOK /\ ExecuteTypeOK

-----------------------------------------------------------------------------
(* Properties *)

\* A temporary has one owner, and every variable its type.
TemporariesOwned == TypeOK /\ OwnTemporary

\* Every call comes back, or its program is killed: the retries for a name
\* are bounded although other programs may always have been there before, a
\* traversal that follows links ends although the links may form a loop, and
\* a command that writes more than the pipe holds does not wait for a reader
\* that waits for its end: it ends only when it has written everything, or is
\* killed (filesystem_operations.cpp:51-154, 351-372;
\* system.cpp:66-119).
CallsEnd ==
  <>(/\ wpc \in {"off", "done"} /\ xpc \in {"off", "done"}
     /\ \A c \in Callers : job[c] = "none" \/ step[c] \in {"done", "dead"})
=============================================================================
