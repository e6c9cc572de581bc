----------------------------- MODULE MCControl -----------------------------
(* Init, two processes of the caller or of somebody else, and the order to *)
(* bind process 2.  Module MCCommands has the orders that are typed.       *)
EXTENDS Control

Proc(access) == [born |-> 1, ppid |-> 1, access |-> access, sock |-> FALSE]

Tables ==
  { <<Proc("public"), Proc("full"), Proc("full")>>,
    <<Proc("public"), Proc("full"), Proc("none")>>,
    <<Proc("public"), Proc("full"), NoProcess>> }

BindTwo == {[op |-> "affinity", pid |-> 2, arg |-> {1}]}
=============================================================================
