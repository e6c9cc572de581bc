----------------------------- MODULE MCCollect -----------------------------
(* A small instance of Collect: three PIDs, init and two others.           *)
EXTENDS Collect

\* At birth 1: init and one or two children, one of them not readable.
Proc(ppid, access, sock) ==
  [born |-> 1, ppid |-> ppid, access |-> access, sock |-> sock]

Tables ==
  { <<Proc(0, "public", FALSE), Proc(1, "full", TRUE), Proc(2, "full", TRUE)>>,
    <<Proc(0, "public", FALSE), Proc(1, "full", TRUE), Proc(2, "none", FALSE)>>,
    <<Proc(0, "public", FALSE), Proc(1, "full", TRUE), NoProcess>> }

Call(kind, pid, net, sorted) == [kind |-> kind, pid |-> pid, net |-> net, sorted |-> sorted]

Calls ==
  { Call("snapshot", 0, FALSE, FALSE),
    Call("streamProcesses", 0, FALSE, FALSE),
    Call("queryProcesses", 0, TRUE, TRUE),
    Call("streamQueryProcesses", 2, FALSE, FALSE),
    Call("streamQueryProcesses", 1, FALSE, TRUE),
    Call("getChildProcesses", 2, FALSE, FALSE),
    Call("getChildProcesses", 0, FALSE, FALSE) }

SnapshotCalls == {Call("snapshot", 0, FALSE, FALSE)}
=============================================================================
