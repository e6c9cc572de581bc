----------------------------- MODULE MCDisplay -----------------------------
(* The process asked for is the caller's or somebody else's, and init is    *)
(* there; one other process may come and go.  Reports with the sections of  *)
(* each kind, and with both sections that read sockets.  All listings of up *)
(* to four processes: in ascending order with every choice of parents, and  *)
(* up to three in every order.                                              *)
EXTENDS Display

Proc(access) == [born |-> 1, ppid |-> 1, access |-> access, sock |-> FALSE]

Tables3 ==
  { <<Proc("public"), Proc("full"), NoProcess>>,
    <<Proc("public"), Proc("public"), NoProcess>> }

Ask(wants, asRow) == [pid |-> 2, wants |-> wants, asRow |-> asRow]

MCAsks ==
  { Ask({}, TRUE),
    Ask({"files", "network"}, FALSE),
    Ask({"children", "descendants", "threads", "env", "affinity", "cpu", "io"}, FALSE),
    Ask({"files", "threads", "maps", "limits", "cgroup"}, FALSE) }

Open(holders, t, n) == [holders |-> holders, table |-> t, number |-> n]
None == [holders |-> {}, table |-> "none", number |-> 0]

MCSockets ==
  { <<Open({2}, "tcp", 0), Open({1}, "udp6", 1), None>>,
    <<Open({1, 2}, "udp", 3), Open({2}, "unix", 0), None>> }

MCNewSockets == {[table |-> "tcp6", number |-> 0], [table |-> "tcp", number |-> 1]}

Ascending(k) ==
  {[i \in 1 .. k |-> [pid |-> i, ppid |-> parent[i]]] : parent \in [1 .. k -> 0 .. k]}

Shuffled(k) ==
  { s \in [1 .. k -> [pid : 1 .. k, ppid : 0 .. k]] :
      \A i, j \in 1 .. k : i # j => s[i].pid # s[j].pid }

AllListings == UNION {Shuffled(k) : k \in 0 .. 3} \cup Ascending(4)
=============================================================================
