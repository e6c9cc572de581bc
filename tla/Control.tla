------------------------------ MODULE Control ------------------------------
(***************************************************************************)
(* The commands that change a process: signal, renice and affinity.  The   *)
(* command line accepts a PID and an argument (cli/args.cpp), main calls   *)
(* one operation (analyzer/control.cpp, analyzer/performance.cpp), and the *)
(* operation looks for /proc/<pid>, opens it and makes one system call.    *)
(* Between any two of these the kernel forks and reaps, so the process the *)
(* call hits need not be the one that was looked for.                      *)
(***************************************************************************)
EXTENDS ProcTable, Sequences

CONSTANTS
  Orders,      \* the commands of the instance, invalid ones included
  Cpus,        \* the CPUs of the machine
  MaxSignal,   \* 64, SIGRTMAX
  MaxCpu,      \* 4095, the highest CPU index the command line accepts
  MaskSize,    \* 1024, CPU_SETSIZE
  MaxThreads   \* bound: a process has no more threads than this

Ops == {"signal", "renice", "affinity"}

\* What kill, setpriority and sched_setaffinity may come back with.
Errnos == {"ESRCH", "EPERM", "EACCES", "EINVAL", "ENOMEM"}

ASSUME ControlAssumption ==
  /\ \A c \in Orders : /\ c.op \in Ops
                       /\ c.pid \in Int
                       /\ c.arg \in IF c.op = "affinity" THEN SUBSET Int ELSE Int
  /\ Cpus \subseteq Nat
  /\ MaxSignal \in Nat
  /\ MaxCpu \in Nat
  /\ MaskSize \in Nat
  /\ MaxThreads \in Nat \ {0}

VARIABLES
  threads,   \* each process's threads: [mask, nice]; the first has the PID
  cpc,       \* "idle", "exists", "opendir", "call" or "done"
  cmd,       \* the command
  outcome,   \* what the operation returned
  hits       \* history: the processes the system call reached

controlVars == <<cpc, cmd, outcome, hits>>
mutationVars == <<procVars, threads, controlVars>>

Thread == [mask : SUBSET Cpus, nice : -20 .. 19]
NewThread == [mask |-> Cpus, nice |-> 0]

\* "systemError" stands for the errnos that an operation does not know, of
\* those its call has: sched_setaffinity's ENOMEM.
Results == {"none", "rejected", "ok", "processNotFound", "permissionDenied", "parsingError",
            "systemError"}

ControlTypeOK ==
  /\ ProcTypeOK
  /\ threads \in [Pids -> Seq(Thread)]
  /\ cpc \in {"idle", "exists", "opendir", "call", "done"}
  /\ cmd \in Orders
  /\ outcome \in Results
  /\ hits \subseteq Pids \X Nat

ControlInit ==
  /\ ProcInit
  /\ threads = [p \in Pids |-> IF Alive(p) THEN <<NewThread>> ELSE << >>]
  /\ cpc = "idle"
  /\ cmd \in Orders
  /\ outcome = "none"
  /\ hits = {}

---------------------------------------------------------------------------
\* The kernel.

KernelForks(parent, child, access) ==
  /\ \E s \in SockModes : Fork(parent, child, access, s)
  /\ threads' = [threads EXCEPT ![child] = <<threads[parent][1]>>]
  /\ UNCHANGED controlVars

KernelReaps(p) ==
  /\ Exit(p)
  /\ threads' = [threads EXCEPT ![p] = << >>]
  /\ UNCHANGED controlVars

KernelClones(p) ==
  /\ Alive(p)
  /\ Len(threads[p]) < MaxThreads
  /\ \E i \in DOMAIN threads[p] : threads' = [threads EXCEPT ![p] = Append(@, threads[p][i])]
  /\ UNCHANGED <<procVars, controlVars>>

Kernels ==
  \/ \E parent, child \in Pids, a \in AccessModes : KernelForks(parent, child, a)
  \/ \E p \in Pids : KernelReaps(p) \/ KernelClones(p)

\* kill(2) takes 0 for the caller's group and -1 for every process there is;
\* the other two know no such PIDs.
Targets(pid) == IF pid > 0 THEN {p \in Pids : p = pid /\ Alive(p)}
                ELSE {p \in Pids : /\ Alive(p)
                                   /\ table[p].access = "full"
                                   /\ cmd.op = "signal"}

\* The CPUs a mask comes to on this machine.
Usable(mask) == mask \cap Cpus

\* Why the system call is bound to fail for its target: it is another user's,
\* or no CPU is left ...
Refusal(p) ==
  IF table[p].access # "full" THEN {"EPERM"}
  ELSE IF cmd.op = "affinity" /\ Usable({c \in cmd.arg : c < MaskSize}) = {} THEN {"EINVAL"}
  ELSE {}

\* ... and why it may: the new nice value is lower than the old one and the
\* caller has no privilege, or the kernel no memory for the mask.
Denial(p) ==
  CASE cmd.op = "signal" -> {}
    [] cmd.op = "renice" -> IF cmd.arg < threads[p][1].nice THEN {"EACCES"} ELSE {}
    [] cmd.op = "affinity" -> {"ENOMEM"}

Reasons(p) == IF Refusal(p) # {} THEN Refusal(p) ELSE Denial(p)

\* What it does to the target: all of a process gets the signal, but nice
\* value and mask belong to the one thread that has the PID.
Changed(p) ==
  CASE cmd.op = "signal" -> threads[p]
    [] cmd.op = "renice" -> [threads[p] EXCEPT ![1].nice = cmd.arg]
    [] cmd.op = "affinity" ->
         [threads[p] EXCEPT ![1].mask = Usable({c \in cmd.arg : c < MaskSize})]

---------------------------------------------------------------------------
\* The command.

\* What the command line lets through; any int is a PID.
Accepted(c) ==
  CASE c.op = "signal" -> c.arg \in 0 .. MaxSignal
    [] c.op = "renice" -> c.arg \in -20 .. 19
    [] c.op = "affinity" -> c.arg # {} /\ c.arg \subseteq 0 .. MaxCpu

Begin(c) ==
  /\ cpc \in {"idle", "done"}
  /\ cmd' = c
  /\ hits' = {}
  /\ IF Accepted(c) THEN cpc' = "exists" /\ outcome' = "none"
     ELSE cpc' = "done" /\ outcome' = "rejected"
  /\ Mark
  /\ UNCHANGED <<table, births, threads>>

Ends(r) == cpc' = "done" /\ outcome' = r /\ UNCHANGED cmd

\* Mutant: only positive PIDs are looked for, "the kernel checks the rest".
CheckExistsPositive ==
  /\ cpc = "exists"
  /\ IF cmd.pid < 1
     THEN cpc' = "call" /\ UNCHANGED <<cmd, outcome>>
     ELSE IF cmd.pid \in Pids /\ Alive(cmd.pid)
     THEN cpc' = "opendir" /\ UNCHANGED <<cmd, outcome>>
     ELSE Ends("processNotFound")
  /\ UNCHANGED <<procVars, threads, hits>>

\* checkPidPathExistsAndPermissions: there is no /proc/0 and no /proc/-1 ...
CheckExists ==
  /\ cpc = "exists"
  /\ IF cmd.pid \in Pids /\ Alive(cmd.pid)
     THEN cpc' = "opendir" /\ UNCHANGED <<cmd, outcome>>
     ELSE Ends("processNotFound")
  /\ UNCHANGED <<procVars, threads, hits>>

\* ... and a directory that cannot be opened, or is gone again, is denied.
CheckOpen ==
  /\ cpc = "opendir"
  /\ IF Alive(cmd.pid) /\ table[cmd.pid].access # "none"
     THEN cpc' = "call" /\ UNCHANGED <<cmd, outcome>>
     ELSE Ends("permissionDenied")
  /\ UNCHANGED <<procVars, threads, hits>>

\* Mutant: an invalid argument is taken for a missing permission.
ErrorOfDenied(errno) ==
  IF errno = "ESRCH" THEN "processNotFound" ELSE "permissionDenied"

\* The switch of sendSignal has no EACCES.
ErrorOf(errno) ==
  CASE errno = "ESRCH" -> "processNotFound"
    [] errno = "EPERM" -> "permissionDenied"
    [] errno = "EACCES" /\ cmd.op # "signal" -> "permissionDenied"
    [] errno = "EINVAL" -> "parsingError"
    [] OTHER -> "systemError"

\* Signal 0 is a probe, nothing is sent.
Probe == cmd.op = "signal" /\ cmd.arg = 0

Fails ==
  \E e \in (IF Targets(cmd.pid) = {} THEN {"ESRCH"}
            ELSE UNION {Reasons(p) : p \in Targets(cmd.pid)}) :
    /\ Ends(ErrorOf(e))
    /\ UNCHANGED <<procVars, threads, hits>>

TakesEffect ==
  LET targets == Targets(cmd.pid) IN
  /\ targets # {}
  /\ \A p \in targets : Refusal(p) = {}
  /\ threads' = [p \in Pids |-> IF p \in targets THEN Changed(p) ELSE threads[p]]
  /\ hits' = IF Probe THEN {} ELSE {Present(p) : p \in targets}
  /\ UNCHANGED procVars

\* Mutant: the process is looked for again behind the call.
CallThenCheck ==
  /\ cpc = "call"
  /\ \/ hits = {} /\ Fails
     \/ hits = {} /\ TakesEffect /\ UNCHANGED <<cmd, cpc, outcome>>
     \/ /\ hits # {}
        /\ Ends(IF Alive(cmd.pid) THEN "ok" ELSE "processNotFound")
        /\ UNCHANGED <<procVars, threads, hits>>

\* Mutant: a failing call is tried again.
CallUntilItWorks ==
  /\ cpc = "call"
  /\ \/ Fails /\ outcome' = "processNotFound"
     \/ TakesEffect /\ Ends("ok")

\* kill, setpriority or sched_setaffinity, once.
Call ==
  /\ cpc = "call"
  /\ \/ Fails
     \/ TakesEffect /\ Ends("ok")

Operation == CheckExists \/ CheckOpen \/ Call

ControlNext == Kernels \/ (\E c \in Orders : Begin(c)) \/ Operation

ControlSpec == ControlInit /\ [][ControlNext]_mutationVars

---------------------------------------------------------------------------
\* Whatever number is given for a PID, 0 and -1 among them, at most the one
\* process of that PID is reached (main.cpp:38-53, control.cpp:11-17).
NeverAGroup ==
  \A h, k \in hits : h = k /\ h[1] = cmd.pid /\ cmd.pid > 0

\* "Sent", "Set" is said exactly when something was sent or set: an error
\* leaves every process alone, a success has reached one, and no command
\* reaches two processes that had the PID in turn (main.cpp:43-52, 60-70,
\* 79-91, performance.cpp:84-98).
EffectIffSuccess == hits # {} <=> (outcome = "ok" /\ ~Probe)

\* A process of the caller that was there all the time is reached, unless
\* the kernel refuses this very value or has no memory for it; no other error
\* is made up, whatever happens to other processes in between (helpers.cpp:11-22,
\* performance.cpp:86-97, 111-121, control.cpp:21-30).
OwnProcessReached ==
  cpc = "done" /\ cmd.pid \in lived /\ table[cmd.pid].access = "full" =>
    \/ outcome \in {"ok", "rejected"}
    \/ /\ cmd.op = "renice"
       /\ cmd.arg < threads[cmd.pid][1].nice
       /\ outcome = "permissionDenied"
    \/ /\ cmd.op = "affinity"
       /\ outcome = IF Usable({c \in cmd.arg : c < MaskSize}) = {}
                    THEN "parsingError" ELSE "systemError"

\* Binding a process to CPU cores (docs/api-reference.md:54) binds the
\* process, not one of its threads.
WholeProcessBound ==
  cpc = "done" /\ cmd.op = "affinity" =>
    \A p \in Pids : Present(p) \in hits =>
      \A i \in DOMAIN threads[p] : threads[p][i].mask = Usable(cmd.arg)
=============================================================================
