----------------------------- MODULE MCSampling -----------------------------
(* Init and two others; every sampling call, and top with and without a     *)
(* filter, ranking more processes than it prints.                           *)
EXTENDS Sampling

Proc(access) == [born |-> 1, ppid |-> 1, access |-> access, sock |-> FALSE]

Tables == {<<Proc("public"), Proc("full"), Proc("none")>>}

Usage(of, pid) == [of |-> of, pid |-> pid, top |-> FALSE, own |-> FALSE, count |-> 0]
Top(of, own, count) == [of |-> of, pid |-> 0, top |-> TRUE, own |-> own, count |-> count]

MCRequests ==
  { Usage("cpu", 0), Usage("cpu", 2), Usage("io", 0), Usage("io", 2),
    Top("cpu", TRUE, 1), Top("io", FALSE, 2), Top("mem", TRUE, 1) }
=============================================================================
