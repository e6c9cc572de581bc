------------------------------ MODULE Commands ------------------------------
(***************************************************************************)
(* An invocation that may change a process: the line is parsed (module     *)
(* CommandLine), and main takes the PID and the argument of signal, renice *)
(* or affinity out of the parsed fields and hands them to the operation    *)
(* (module Control).  The operation never sees what was typed, only what   *)
(* the parser has left of it.                                              *)
(***************************************************************************)
EXTENDS Control, CommandLine

CONSTANTS
  SignalOf,   \* the signal that a word or number of kind "signal" is
  CpusOf      \* the CPUs that a word of kind "cpus" lists

\* What is stored of a token that passes for the command's value.
ValueOf(c, x) ==
  CASE c = "signal" -> SignalOf[x]
    [] c = "renice" -> Number[x]
    [] c = "affinity" -> CpusOf[x]

ASSUME CommandsAssumption ==
  /\ \A x \in Tokens : Passes("signal", x) => SignalOf[x] \in 0 .. MaxSignal
  /\ \A x \in Tokens : Passes("cpus", x) => CpusOf[x] # {} /\ CpusOf[x] \subseteq 0 .. MaxCpu
  /\ \A c \in Ops, p, x \in Tokens :
       Passes("int", p) /\ Passes(Operands(c)[2].kind, x) =>
         [op |-> c, pid |-> Number[p], arg |-> ValueOf(c, x)] \in Orders

vars == <<mutationVars, parserVars>>

TypeOK == ControlTypeOK /\ ParserTypeOK

\* Of no consequence: a table for a line that asks for no change, and an
\* order before there is one.
Init ==
  /\ ParserInit
  /\ ControlInit
  /\ cmd = CHOOSE o \in Orders : TRUE
  /\ (argv = << >> \/ argv[1] \notin Ops) => table = CHOOSE t \in InitialTables : TRUE

Parse == ParserNext /\ UNCHANGED mutationVars

\* Mutant: the PID and the value change places.
MutationSwapped(c, a) ==
  [op |-> c, pid |-> IF c = "renice" THEN ValueOf(c, a["niceValue"]) ELSE Number[a["pid"]],
   arg |-> IF c = "renice" THEN Number[a["pid"]] ELSE ValueOf(c, a[Operands(c)[2].field])]

\* What main passes on of the fields a.
Mutation(c, a) ==
  [op |-> c, pid |-> Number[a["pid"]], arg |-> ValueOf(c, a[Operands(c)[2].field])]

Dispatch ==
  /\ result = "ok"
  /\ command \in Ops
  /\ cpc = "idle"
  /\ Begin(Mutation(command, args))
  /\ UNCHANGED parserVars

Operate == Operation /\ UNCHANGED parserVars

\* Bound: the table rests until there is an order, and behind the answer.
KernelStep ==
  /\ cpc \notin {"idle", "done"}
  /\ Kernels
  /\ UNCHANGED parserVars

Program == Parse \/ Dispatch \/ Operate

Next == Program \/ KernelStep

Spec == Init /\ [][Next]_vars
\* The program runs; of the kernel nothing is assumed.
FairSpec == Spec /\ WF_vars(Program)

-----------------------------------------------------------------------------
(* Properties *)

\* Whatever is changed was typed: the operation works on the PID and the
\* value that stand last on the line for them, read as the grammar reads it,
\* and a line that says nothing of the kind leaves every process alone
\* (args.cpp:265-337, 369-380, main.cpp:37-92).
DoneAsTyped ==
  hits # {} =>
    \E starts \in SUBSET (First .. Len(argv)) :
      /\ IsReading(starts)
      /\ LET typed == Meaning(starts) IN
         /\ cmd.op = Command
         /\ cmd.pid = Number[typed["pid"]]
         /\ cmd.arg = CASE cmd.op = "signal" -> SignalOf[typed["signalNumber"]]
                        [] cmd.op = "renice" -> Number[typed["niceValue"]]
                        [] cmd.op = "affinity" -> CpusOf[typed["affinityCpus"]]

\* An invocation comes to its end, whatever is typed and whatever the kernel
\* does meanwhile.
InvocationEnds ==
  <>(pc = "done" /\ (result = "ok" /\ command \in Ops => cpc = "done"))
=============================================================================
