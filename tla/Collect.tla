------------------------------ MODULE Collect ------------------------------
(***************************************************************************)
(* The calls that list processes: snapshot, queryProcesses,                *)
(* getChildProcesses and the generators streamProcesses and                *)
(* streamQueryProcesses.  Each lists the PIDs below /proc, then reads the  *)
(* details of one PID after the other, while the kernel forks and reaps.   *)
(***************************************************************************)
EXTENDS Details, Sequences, Functions

CONSTANTS
  Requests,   \* the calls a client may make
  Mounts      \* what procPath may lead to

Kinds == {"snapshot", "queryProcesses", "streamProcesses",
          "streamQueryProcesses", "getChildProcesses"}

(***************************************************************************)
(* pid: the parent asked about (getChildProcesses) or ppidFilter (queries, *)
(* 0 for none); net: a networkConnectionFilter is set; sorted: a query asks *)
(* for an order other than the default, by ascending PID.                  *)
(***************************************************************************)
AllRequests == [kind : Kinds, pid : Pids \cup {0}, net : BOOLEAN, sorted : BOOLEAN]

ASSUME CollectAssumption ==
  /\ Requests \subseteq AllRequests
  /\ Requests # {}
  /\ Mounts \subseteq {"mounted", "missing", "denied"}

VARIABLES
  mount,    \* procPath: a directory, nothing, or a directory without r
  cpc,      \* where the call is
  req,      \* its arguments
  pids,     \* the PIDs listed and not yet looked at
  out,      \* the rows reported so far
  result    \* "none" while running, "ok", "abandoned" or an error

collectVars == <<mount, cpc, req, pids, out, result>>
vars == <<procVars, detailsVars, collectVars>>

Streams(r) == r.kind \in {"streamProcesses", "streamQueryProcesses"}
Queries(r) == r.kind \in {"queryProcesses", "streamQueryProcesses"}
\* streamQueryProcesses falls back to queryProcesses when it has to sort.
SortsRows(r) == r.kind = "queryProcesses" \/ (r.kind = "streamQueryProcesses" /\ r.sorted)
Lazy(r) == Streams(r) /\ ~SortsRows(r)

CollectTypeOK ==
  /\ mount \in Mounts
  /\ cpc \in {"idle", "parentExists", "parentOpen", "list", "rows", "net", "done"}
  /\ req \in AllRequests
  /\ pids \in Seq(Pids)
  /\ out \in Seq(Rows)
  /\ result \in {"none", "ok", "abandoned", "fileNotFound", "permissionDenied"}

\* Type invariant of the call, of the details frame and of the table.
TypeOK == ProcTypeOK /\ DetailsTypeOK /\ CollectTypeOK

Init ==
  /\ ProcInit
  /\ DetailsInit
  /\ mount \in Mounts
  /\ cpc = "idle"
  /\ req \in Requests
  /\ pids = <<>>
  /\ out = <<>>
  /\ result = "none"

Arrangements(s) ==
  {[i \in DOMAIN s |-> s[f[i]]] : f \in Bijection(DOMAIN s, DOMAIN s)}

\* Mutant: the result vector outlives the call and is not cleared.
BeginKeepingRows(r) ==
  /\ cpc \in {"idle", "done"}
  /\ cpc' = IF r.kind = "getChildProcesses" THEN "parentExists" ELSE "list"
  /\ req' = r
  /\ pids' = <<>> /\ result' = "none"
  /\ Mark
  /\ UNCHANGED <<table, births, detailsVars, mount, out>>

Begin(r) ==
  /\ cpc \in {"idle", "done"}
  /\ cpc' = IF r.kind = "getChildProcesses" THEN "parentExists" ELSE "list"
  /\ req' = r
  /\ pids' = <<>> /\ out' = <<>> /\ result' = "none"
  /\ Mark
  /\ UNCHANGED <<table, births, detailsVars, mount>>

Finish(e) == cpc' = "done" /\ result' = e

\* getChildProcesses: a parent that does not exist has no children; there is
\* no process 0.
ParentExists ==
  /\ cpc = "parentExists"
  /\ IF mount # "missing" /\ req.pid \in AlivePids
     THEN cpc' = "parentOpen" /\ UNCHANGED result
     ELSE Finish("ok")
  /\ UNCHANGED <<procVars, detailsVars, mount, req, pids, out>>

ParentOpen ==
  /\ cpc = "parentOpen"
  /\ IF Alive(req.pid) /\ table[req.pid].access # "none"
     THEN cpc' = "list" /\ UNCHANGED result
     ELSE Finish("permissionDenied")
  /\ UNCHANGED <<procVars, detailsVars, mount, req, pids, out>>

\* getPids reports an unusable procPath; a generator yields nothing then.
ListFails ==
  /\ cpc = "list"
  /\ mount # "mounted"
  /\ Finish(IF Streams(req) THEN "ok"
            ELSE IF mount = "missing" THEN "fileNotFound"
            ELSE "permissionDenied")
  /\ UNCHANGED <<procVars, detailsVars, mount, req, pids, out>>

\* readdir gives, in any order, each entry at most once ...
ListEntry(p) ==
  /\ cpc = "list"
  /\ mount = "mounted"
  /\ Alive(p)
  /\ p \notin Range(pids)
  /\ pids' = Append(pids, p)
  /\ UNCHANGED <<procVars, detailsVars, mount, cpc, req, out, result>>

\* ... and no entry that was there all the time is left out.  streamPids
\* sorts what it collected.
ListEnd ==
  /\ cpc = "list"
  /\ mount = "mounted"
  /\ lived \subseteq Range(pids)
  /\ cpc' = "rows"
  /\ pids' \in Arrangements(pids)
  /\ IF Lazy(req)
     THEN \A i, j \in DOMAIN pids : i < j => pids'[i] < pids'[j]
     ELSE pids' = pids
  /\ UNCHANGED <<procVars, detailsVars, mount, req, out, result>>

\* Mutant: the loop does not advance past a PID that was listed last.
NextPidStuckOnLast ==
  /\ cpc = "rows"
  /\ dpc = "idle"
  /\ pids # <<>>
  /\ Len(out) < 3
  /\ pids' = IF Len(pids) = 1 THEN pids ELSE Tail(pids)
  /\ CallDetails(Head(pids))
  /\ UNCHANGED <<procVars, mount, cpc, req, out, result>>

\* The next PID; getChildProcesses passes over the parent itself.
NextPid ==
  /\ cpc = "rows"
  /\ dpc = "idle"
  /\ pids # <<>>
  /\ pids' = Tail(pids)
  /\ IF req.kind = "getChildProcesses" /\ Head(pids) = req.pid
     THEN UNCHANGED detailsVars
     ELSE CallDetails(Head(pids))
  /\ UNCHANGED <<procVars, mount, cpc, req, out, result>>

ReadDetails ==
  /\ DetailsNext
  /\ UNCHANGED <<procVars, collectVars>>

\* passesStaticFilters, reduced to ppidFilter; getChildProcesses' own test.
PassesStatic(r) ==
  (Queries(req) \/ req.kind = "getChildProcesses") /\ req.pid # 0
    => r.ppid = req.pid

\* Mutant: an error ends the loop instead of skipping one PID.
TakeRowOrStop ==
  /\ cpc = "rows"
  /\ dpc = "done"
  /\ out' = IF derr = "none" /\ PassesStatic(row) THEN Append(out, row) ELSE out
  /\ pids' = IF derr = "none" THEN pids ELSE <<>>
  /\ EndDetails
  /\ UNCHANGED <<procVars, mount, cpc, req, result>>

\* Mutant: a PID whose details failed is read again.
TakeRowOrRetry ==
  /\ cpc = "rows"
  /\ dpc = "done"
  /\ out' = IF derr = "none" /\ PassesStatic(row) THEN Append(out, row) ELSE out
  /\ pids' = IF derr = "none" THEN pids ELSE Append(pids, row.pid)
  /\ EndDetails
  /\ UNCHANGED <<procVars, mount, cpc, req, result>>

\* Details are in: an error or a filter drops the row, a network filter is
\* looked at next, otherwise the row is reported.
TakeRow ==
  /\ cpc = "rows"
  /\ dpc = "done"
  /\ IF derr = "none" /\ PassesStatic(row) /\ Queries(req) /\ req.net
     THEN cpc' = "net" /\ UNCHANGED <<out, detailsVars>>
     ELSE /\ UNCHANGED cpc
          /\ out' = IF derr = "none" /\ PassesStatic(row)
                    THEN Append(out, row) ELSE out
          /\ EndDetails
  /\ UNCHANGED <<procVars, mount, req, pids, result>>

\* getNetworkConnections opens /proc/<pid>/fd anew and passesNetworkFilter
\* looks for a matching connection; every error drops the row.
ReadConnections ==
  /\ cpc = "net"
  /\ cpc' = "rows"
  /\ out' = IF Readable("fd", row.pid) /\ table[row.pid].sock
            THEN Append(out,
                   [row EXCEPT !.part = [@ EXCEPT !["net"] = table[row.pid].born]])
            ELSE out
  /\ EndDetails
  /\ UNCHANGED <<procVars, mount, req, pids, result>>

SortFields == {"pid", "ppid", "startTime"}
SortKey(r, field) ==
  CASE field = "pid" -> r.pid
    [] field = "ppid" -> r.ppid
    [] field = "startTime" -> r.part["stat"]

\* std::ranges::sort is not stable: equal keys come out in any order.
SortedRows(r, s) ==
  {t \in Arrangements(s) :
     \E field \in SortFields, descending \in BOOLEAN :
       /\ r.sorted <=> ~(field = "pid" /\ ~descending)
       /\ \A i, j \in DOMAIN t :
            i < j => IF descending
                     THEN SortKey(t[i], field) >= SortKey(t[j], field)
                     ELSE SortKey(t[i], field) <= SortKey(t[j], field)}

\* All PIDs are done; the queries sort.
ReturnRows ==
  /\ cpc = "rows"
  /\ dpc = "idle"
  /\ pids = <<>>
  /\ Finish("ok")
  /\ IF SortsRows(req) THEN out' \in SortedRows(req, out) ELSE UNCHANGED out
  /\ UNCHANGED <<procVars, detailsVars, mount, req, pids>>

\* The consumer of a generator drops it at a co_yield: while PIDs are still
\* read, or, if the rows had to be sorted, with only the first of them seen.
Abandon ==
  /\ cpc = "rows"
  /\ dpc = "idle"
  /\ Streams(req)
  /\ out # <<>>
  /\ Finish("abandoned")
  /\ pids' = <<>>
  /\ IF SortsRows(req)
     THEN /\ pids = <<>>
          /\ \E t \in SortedRows(req, out), n \in 1 .. Len(out) : out' = SubSeq(t, 1, n)
     ELSE UNCHANGED out
  /\ UNCHANGED <<procVars, detailsVars, mount, req>>

Analyzer ==
  \/ ParentExists
  \/ ParentOpen
  \/ ListFails
  \/ \E p \in Pids : ListEntry(p)
  \/ ListEnd
  \/ NextPid
  \/ ReadDetails
  \/ TakeRow
  \/ ReadConnections
  \/ ReturnRows

Next ==
  \/ \E r \in Requests : Begin(r)
  \/ Analyzer
  \/ Abandon
  \/ Kernel /\ UNCHANGED <<detailsVars, collectVars>>

Spec == Init /\ [][Next]_vars
\* The analyzer's thread runs; nothing is assumed of clients or the kernel.
FairSpec == Spec /\ WF_vars(Analyzer)

-----------------------------------------------------------------------------
(* Properties *)

\* A call reports at most one row per PID, however often PIDs are reused
\* while it runs (getPids feeds each PID to getProcessDetails once).
RowsDistinct ==
  \A i, j \in DOMAIN out : out[i].pid = out[j].pid => i = j

\* Within a row, what was read later is not older: no part, and not the
\* connections the network filter saw, comes from a process that had the PID
\* before the one whose stat was read (the order of the reads in
\* getProcessDetails, which starts from stat and never returns to it).
RowInOrder(r) ==
  \A i, j \in DOMAIN PartOrder :
    i < j /\ r.part[PartOrder[j]] # 0 =>
      /\ r.part["stat"] > 0
      /\ r.part[PartOrder[i]] <= r.part[PartOrder[j]]

PartsInOrder == \A k \in DOMAIN out : RowInOrder(out[k])

\* A process of the caller that lives throughout the call is read whole: all
\* parts are its own and none was left at its default, whatever else is
\* forked, reaped or reused meanwhile.
SurvivorsReadWhole ==
  result = "ok" =>
    \A k \in DOMAIN out :
      LET r == out[k] IN
      r.pid \in lived /\ table[r.pid].access = "full" =>
        \A part \in OptionalParts : r.part[part] = table[r.pid].born

\* Processes a call is to report: readable, and asked for.  Of the children of
\* a PID, those that stay its children: one that is adopted by it while the
\* call runs may have been read before.  getChildProcesses(0) asks for nothing.
AskedFor(r, p, process, stays) ==
  /\ r.kind = "getChildProcesses" => r.pid # 0
  /\ process.access \in (IF r.net THEN {"full"} ELSE {"full", "public"})
  /\ r.pid # 0 => process.ppid = r.pid /\ stays /\ r.pid # p
  /\ r.net => process.sock

\* No survivor is lost: a call on a mounted /proc that returns a value has a
\* row for every process asked for that lived throughout, whatever became of
\* the processes read before it (one failed read skips one PID).
SurvivorsReported ==
  result = "ok" /\ mount = "mounted" =>
    \A p \in lived : AskedFor(req, p, table[p], p \in settled) =>
      \E k \in DOMAIN out : out[k].pid = p /\ out[k].part["stat"] = table[p].born

\* The processes a call reported.
Observed == {<<r.pid, r.part["stat"]>> : r \in Range(out)}

\* What docs/api-reference.md:27 says of snapshot(): all processes "at a single
\* point in time".  At least, then, all processes of a result were alive
\* together at some time.
SnapshotAtOnePoint ==
  result = "ok" /\ req.kind = "snapshot" => \E v \in views : Observed \subseteq v

\* A call that began returns, even if the table never stops changing.
CallReturns == cpc \notin {"idle", "done"} ~> cpc = "done"

\* A listing call is an observation in the sense of module Observation.
Phase ==
  IF cpc = "idle" THEN "idle"
  ELSE IF cpc # "done" THEN "busy"
  ELSE IF result = "abandoned" THEN "abandoned"
  ELSE IF result = "ok" /\ mount = "mounted" THEN "returned" ELSE "failed"

Abstract == INSTANCE Observation
              WITH phase <- Phase, asked <- req, observed <- Observed,
                   Asked <- AskedFor

ImplementsObservation == Abstract!Spec
=============================================================================
