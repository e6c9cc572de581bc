----------------------------- MODULE MCCommands -----------------------------
(* Every command, and none, with every line of up to three arguments behind *)
(* it: options of each sort, numbers inside and outside of each range, two  *)
(* formats, and a word that is no pattern; and lines that give the PID      *)
(* twice.  The process asked for is the caller's or somebody else's, there  *)
(* or not, and one other may come and go.                                   *)
EXTENDS Commands, TLC

MCNumber == "-5" :> -5 @@ "0" :> 0 @@ "2" :> 2 @@ "70000" :> 70000 @@ "900000" :> 900000
MCNumbers == DOMAIN MCNumber

Arguments ==
  {"--pid", "--name-regex", "--ppid", "--output", "--count", "--mem", "--io",
   "--watch", "--perf", "--network", "-h", "json", "csv", "["} \cup MCNumbers

MCTokens == Commands \cup {"help"} \cup Arguments
MCDashed == MCTokens \ (Commands \cup {"help", "json", "csv", "[", "0", "2", "70000", "900000"})
MCWords ==
  [k \in WordKinds |->
     CASE k = "format" -> {"json", "csv"}
       [] k = "json" -> {"json"}
       [] k = "regex" -> MCTokens \ {"["}
       [] k = "cpus" -> {"0", "2"}
       [] OTHER -> {}]

MCSignalOf == "0" :> 0 @@ "2" :> 2
MCCpusOf == "0" :> {0} @@ "2" :> {2}

Tails == UNION {[1 .. n -> Arguments] : n \in 0 .. 3}

PidTwice ==
  { <<c, p, x, "--pid", q>> : c \in Ops, p, q \in {"0", "2"}, x \in {"2"} }

MCCommandLines ==
  Tails \cup {<<c>> \o tail : c \in Commands \cup {"help"}, tail \in Tails} \cup PidTwice

MCOrders ==
  [op : {"signal"}, pid : {-5, 0, 2, 70000}, arg : {0, 2}]
    \cup [op : {"renice"}, pid : {-5, 0, 2, 70000}, arg : {-5, 0, 2}]
    \cup [op : {"affinity"}, pid : {-5, 0, 2, 70000}, arg : {{0}, {2}}]

Proc(access) == [born |-> 1, ppid |-> 1, access |-> access, sock |-> FALSE]

Tables ==
  { <<Proc("public"), Proc("full"), NoProcess>>,
    <<Proc("public"), Proc("public"), NoProcess>>,
    <<Proc("public"), NoProcess, NoProcess>> }
=============================================================================
