------------------------------ MODULE Details ------------------------------
(***************************************************************************)
(* ProcessAnalyzer::getProcessDetails: one call is a sequence of           *)
(* independent reads below /proc/<pid>, and the table may change between   *)
(* any two of them.  A row records, for each part of a ProcessInfo, the    *)
(* birth of the process the part was read from; 0 stands for the default   *)
(* value the struct keeps when the part could not be read.                 *)
(***************************************************************************)
EXTENDS ProcTable

VARIABLES
  dpc,    \* the next read of the running call
  row,    \* ProcessInfo info
  derr    \* the error the call returns, "none" for a value

detailsVars == <<dpc, row, derr>>

OptionalParts == {"status", "cmdline", "exe", "cwd", "io"}
DetailsSteps == {"idle", "exists", "opendir", "stat", "done"} \cup OptionalParts
DetailsErrors ==
  {"none", "processNotFound", "permissionDenied", "fileNotFound", "ioError", "errno"}

\* The parts in the order they are read; net is what the caller's network
\* filter saw of the process (module Collect).
PartOrder == <<"stat", "status", "cmdline", "exe", "cwd", "io", "net">>
Parts == {"stat", "net"} \cup OptionalParts

Rows == [pid : Pids \cup {0}, ppid : Pids \cup {0}, part : [Parts -> Nat]]

NewRow(p) == [pid |-> p, ppid |-> 0, part |-> [x \in Parts |-> 0]]
NoRow == NewRow(0)

\* status and cmdline are world-readable; exe, cwd and io need ptrace access.
Readable(part, p) ==
  /\ Alive(p)
  /\ \/ table[p].access = "full"
     \/ table[p].access = "public" /\ part \in {"stat", "status", "cmdline"}

\* Mutant: the call returns early, without the links and the I/O counters.
AfterPartEarlyReturn(part) == IF part = "status" THEN "cmdline" ELSE "done"

AfterPart(part) ==
  CASE part = "status"  -> "cmdline"
    [] part = "cmdline" -> "exe"
    [] part = "exe"     -> "cwd"
    [] part = "cwd"     -> "io"
    [] part = "io"      -> "done"

DetailsTypeOK ==
  /\ dpc \in DetailsSteps
  /\ row \in Rows
  /\ derr \in DetailsErrors

DetailsInit == dpc = "idle" /\ row = NoRow /\ derr = "none"

CallDetails(p) ==
  /\ dpc = "idle"
  /\ dpc' = "exists" /\ row' = NewRow(p) /\ derr' = "none"

\* The caller takes the result: the frame is gone.
EndDetails == dpc' = "idle" /\ row' = NoRow /\ derr' = "none"

FailDetails(e) == dpc' = "done" /\ derr' = e /\ UNCHANGED row

\* checkPidPathExistsAndPermissions: exists(pidPath) ...
CheckExists ==
  /\ dpc = "exists"
  /\ IF Alive(row.pid)
     THEN dpc' = "opendir" /\ UNCHANGED <<row, derr>>
     ELSE FailDetails("processNotFound")

\* ... then directory_iterator(pidPath), whose every failure is reported as
\* PermissionDenied, the process being gone by now among them.
CheckOpen ==
  /\ dpc = "opendir"
  /\ IF Alive(row.pid) /\ table[row.pid].access # "none"
     THEN dpc' = "stat" /\ UNCHANGED <<row, derr>>
     ELSE FailDetails("permissionDenied")

\* readTextFile(stat) and parseStatFile: the only read that must succeed.  A
\* process that is gone is missed by exists() (fileNotFound, or the errno of
\* the system call) or by the open and the read that follow it (ioError).
\* What the kernel writes there can always be parsed.
ReadStat ==
  /\ dpc = "stat"
  /\ IF Readable("stat", row.pid)
     THEN /\ dpc' = "status"
          /\ row' = [pid  |-> row.pid,
                     ppid |-> table[row.pid].ppid,
                     part |-> [NewRow(row.pid).part
                                 EXCEPT !["stat"] = table[row.pid].born]]
          /\ UNCHANGED derr
     ELSE \/ ~Alive(row.pid) /\ FailDetails("fileNotFound")
          \/ \E e \in {"ioError", "errno"} : FailDetails(e)

\* Mutant: stat is read a second time at the end, for fresher CPU times.
ReadOptionalThenStat(part) ==
  /\ dpc = part
  /\ dpc' = AfterPart(part)
  /\ row' = IF Readable(part, row.pid)
            THEN [row EXCEPT !.part =
                    [x \in Parts |->
                       IF x = part \/ (x = "stat" /\ part = "io")
                       THEN table[row.pid].born ELSE @[x]]]
            ELSE row
  /\ UNCHANGED derr

\* status, cmdline, exe, cwd, io: read when possible, default otherwise.
ReadOptional(part) ==
  /\ dpc = part
  /\ dpc' = AfterPart(part)
  /\ row' = IF Readable(part, row.pid)
            THEN [row EXCEPT !.part = [@ EXCEPT ![part] = table[row.pid].born]]
            ELSE row
  /\ UNCHANGED derr

DetailsNext ==
  \/ CheckExists
  \/ CheckOpen
  \/ ReadStat
  \/ \E part \in OptionalParts : ReadOptional(part)
=============================================================================
