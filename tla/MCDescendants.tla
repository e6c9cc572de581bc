--------------------------- MODULE MCDescendants ---------------------------
(* A small instance of Descendants: init and up to three others.           *)
EXTENDS Descendants

Born(birth, ppid, access) ==
  [born |-> birth, ppid |-> ppid, access |-> access, sock |-> FALSE]
Old(ppid) == Born(1, ppid, "full")
New(ppid) == Born(2, ppid, "full")

\* A chain, a bush with a process that cannot be read, and a fixture with the
\* parent cycle 2 -> 3 -> 2, where one process is forked; and a table with a
\* free PID and no young process, where two are forked.
Tables ==
  { <<Old(0), Old(1), Old(2), New(3)>>,
    <<Old(0), Old(1), Born(1, 2, "none"), New(2)>>,
    <<Old(0), Old(3), Old(2), New(3)>>,
    <<Old(0), Old(1), Old(1), NoProcess>> }
=============================================================================
