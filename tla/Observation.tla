---------------------------- MODULE Observation ----------------------------
(***************************************************************************)
(* What a listing call (snapshot, queryProcesses, streamProcesses,         *)
(* streamQueryProcesses, getChildProcesses) promises its caller while      *)
(* processes are forked and reaped around it: not the table at one         *)
(* instant, but a set of processes that                                    *)
(*   - holds only processes alive at some time during the call,            *)
(*   - holds at most one process per PID, and                              *)
(*   - when the call returns a value, holds every process it was asked     *)
(*     for that could be read and lived throughout the call (asked for by  *)
(*     its parent, one that had that parent throughout).                   *)
(***************************************************************************)
EXTENDS ProcTable

CONSTANTS
  Requests,         \* the calls a client may make
  Asked(_, _, _, _) \* Asked(r, p, process, stays): r is to report this process at
                    \* PID p; stays: its parent has not changed since the call began

VARIABLES
  phase,     \* "idle", "busy", "returned", "failed" or "abandoned"
  asked,     \* the request of the running or last call
  observed   \* the <<pid, birth>> reported so far

vars == <<procVars, phase, asked, observed>>

Init ==
  /\ ProcInit
  /\ phase = "idle"
  /\ asked \in Requests
  /\ observed = {}

Begin ==
  /\ phase # "busy"
  /\ phase' = "busy"
  /\ asked' \in Requests
  /\ observed' = {}
  /\ Mark
  /\ UNCHANGED <<table, births>>

Observe ==
  /\ phase = "busy"
  /\ \E s \in Seen :
       /\ \A o \in observed : o[1] # s[1]
       /\ observed' = observed \cup {s}
  /\ UNCHANGED <<procVars, phase, asked>>

Return ==
  /\ phase = "busy"
  /\ phase' = "returned"
  /\ \A p \in lived : Asked(asked, p, table[p], p \in settled) => Present(p) \in observed
  /\ UNCHANGED <<procVars, asked, observed>>

\* An error, or the consumer of a generator drops it and leaves the rest.
Stop ==
  /\ phase = "busy"
  /\ phase' \in {"failed", "abandoned"}
  /\ observed' \subseteq observed
  /\ UNCHANGED <<procVars, asked>>

Next ==
  \/ Begin
  \/ Observe
  \/ Return
  \/ Stop
  \/ Kernel /\ UNCHANGED <<phase, asked, observed>>

Spec == Init /\ [][Next]_vars
=============================================================================
