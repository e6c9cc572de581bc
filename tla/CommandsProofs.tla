--------------------------- MODULE CommandsProofs ---------------------------
(***************************************************************************)
(* Theorems about an invocation that may change a process, for every line, *)
(* every set of tokens with their conversions, every process, every set of *)
(* commands and every kernel.                                              *)
(*                                                                         *)
(* First of the operations alone (module Control): the types, that a       *)
(* command never reaches a group of processes, that success is reported    *)
(* exactly when something was done, and that a process of the caller which *)
(* stays is reached.  Then of the parser alone (module CommandLine): what  *)
(* main can rely on of accepted arguments, and that a line is accepted and *)
(* understood as its grammar reads it.  Then of both together: the         *)
(* composition is one of the parser's behaviours, and one of the           *)
(* operations', because what the parser accepts is within their range; so  *)
(* what holds of each alone holds of an invocation, and what it changes is *)
(* what was typed.                                                         *)
(***************************************************************************)
EXTENDS Commands, ProcTableProofs

(* The operations alone. *)

\* Nothing has been done or said while the command is still on its way.
NothingYet ==
  cpc \in {"idle", "exists", "opendir", "call"} => hits = {} /\ outcome = "none"

\* Only what the command line let through gets as far as /proc, and only a
\* PID that has been in /proc gets as far as the system call.
Vetted ==
  /\ cpc \in {"exists", "opendir", "call"} => Accepted(cmd)
  /\ cpc \in {"opendir", "call"} => cmd.pid \in Pids

\* A process has a thread with its own PID.
HasMainThread == \A p \in Pids : Alive(p) => Len(threads[p]) >= 1

ControlInv ==
  /\ ControlTypeOK
  /\ NothingYet
  /\ Vetted
  /\ LivedAlive
  /\ HasMainThread
  /\ NeverAGroup
  /\ EffectIffSuccess
  /\ OwnProcessReached

-----------------------------------------------------------------------------
(* Lemmas about the operators of the model. *)

\* No process has the PID 0, which to kill(2) is the caller's group.
LEMMA PidsPositive == \A p \in Pids : p > 0
BY ProcTableAssumption

\* A thread that was just created is a thread.
LEMMA NewThreadType == NewThread \in Thread
BY DEF NewThread, Thread

\* The system call reaches the one process that has the PID, or none.
LEMMA TargetsOfPid ==
  ASSUME NEW pid \in Pids
  PROVE  Targets(pid) = {p \in Pids : p = pid /\ Alive(p)}
BY ProcTableAssumption DEF Targets

\* A new nice value or mask leaves the threads of a process threads.
LEMMA ChangedType ==
  ASSUME NEW p \in Pids, ControlTypeOK, Accepted(cmd), Len(threads[p]) >= 1
  PROVE  Changed(p) \in Seq(Thread) /\ Len(Changed(p)) >= 1
<1> DEFINE s == threads[p]
           mask == Usable({c \in cmd.arg : c < MaskSize})
<1>1. s \in Seq(Thread) /\ 1 \in DOMAIN s /\ s[1] \in Thread
  BY DEF ControlTypeOK
<1>2. cmd.op \in Ops
  BY ControlAssumption DEF ControlTypeOK
<1>3. mask \in SUBSET Cpus
  BY DEF Usable
<1> HIDE DEF s, mask
<1>4. [s[1] EXCEPT !.mask = mask] \in Thread
  BY <1>1, <1>3 DEF Thread
<1>5. cmd.op = "renice" => [s[1] EXCEPT !.nice = cmd.arg] \in Thread
  BY <1>1 DEF Thread, Accepted
<1>6. \A th \in Thread : [s EXCEPT ![1] = th] \in Seq(Thread) /\ Len([s EXCEPT ![1] = th]) = Len(s)
  BY <1>1
<1>7. CASE cmd.op = "signal"
  BY <1>1, <1>7 DEF Changed, s
<1>8. CASE cmd.op = "renice"
  <2>1. Changed(p) = [s EXCEPT ![1] = [s[1] EXCEPT !.nice = cmd.arg]]
    BY <1>8 DEF Changed, s
  <2> QED
    BY <1>5, <1>6, <1>8, <2>1 DEF s
<1>9. CASE cmd.op = "affinity"
  <2>1. Changed(p) = [s EXCEPT ![1] = [s[1] EXCEPT !.mask = mask]]
    BY <1>9 DEF Changed, s, mask
  <2> QED
    BY <1>4, <1>6, <2>1 DEF s
<1> QED
  BY <1>2, <1>7, <1>8, <1>9 DEF Ops

\* Every reason the kernel has is one that the operations know.
LEMMA RefusalType ==
  ASSUME NEW p \in Pids
  PROVE  cmd.op \in Ops =>
           Reasons(p) \subseteq {"EPERM", "EACCES", "EINVAL", "ENOMEM"}
BY DEF Reasons, Refusal, Denial, Ops

-----------------------------------------------------------------------------
(* The operations' initial states satisfy their invariant. *)

\* No operation has begun: the operations' invariant holds.
LEMMA InitIInv == ControlInit => ControlInv
<1> SUFFICES ASSUME ControlInit PROVE ControlInv
  OBVIOUS
<1> USE ProcTableAssumption, ControlAssumption
<1>1. ControlTypeOK
  BY InitTable, NewThreadType DEF ControlInit, ControlTypeOK, Results
<1>2. NothingYet /\ Vetted /\ LivedAlive
  BY InitTable DEF ControlInit, NothingYet, Vetted
<1>3. HasMainThread
  BY DEF ControlInit, HasMainThread
<1>4. NeverAGroup /\ EffectIffSuccess /\ OwnProcessReached
  BY DEF ControlInit, NeverAGroup, EffectIffSuccess, OwnProcessReached
<1> QED
  BY <1>1, <1>2, <1>3, <1>4 DEF ControlInv

-----------------------------------------------------------------------------
(* Every step preserves it: the kernel's steps first. *)

\* What a step of the kernel leaves as it is for whoever stays.
Spared ==
  /\ lived' \subseteq lived /\ settled' \subseteq lived'
  /\ \A p \in lived' :
       /\ table'[p].born = table[p].born
       /\ table'[p].access = table[p].access
       /\ threads'[p][1] = threads[p][1]

\* A step that spares the processes that stay, and the command, spares the
\* whole invariant.
LEMMA KernelSteps ==
  ASSUME ControlInv, UNCHANGED controlVars, ControlTypeOK', HasMainThread', Spared
  PROVE  ControlInv'
<1>1. UNCHANGED <<cpc, cmd, outcome, hits>>
  BY DEF controlVars
<1>2. NothingYet' /\ Vetted'
  BY <1>1 DEF ControlInv, NothingYet, Vetted, Accepted
<1>3. LivedAlive'
  BY DEF ControlInv, LivedAlive, Alive, Spared
<1>4. NeverAGroup' /\ EffectIffSuccess'
  BY <1>1 DEF ControlInv, NeverAGroup, EffectIffSuccess, Probe
<1>5. OwnProcessReached'
  BY <1>1 DEF ControlInv, OwnProcessReached, Spared, Usable
<1> QED
  BY <1>2, <1>3, <1>4, <1>5 DEF ControlInv

\* A fork keeps the operations' invariant: its birth is a new one.
LEMMA ForksIInv ==
  ASSUME ControlInv, NEW parent \in Pids, NEW child \in Pids, NEW access \in AccessModes,
         KernelForks(parent, child, access)
  PROVE  ControlInv'
<1> USE DEF KernelForks, ControlInv
<1> DEFINE main == threads[parent][1]
<1>1. ProcTypeOK /\ ProcTypeOK'
  BY KernelType DEF ControlTypeOK, Kernel
<1>2. PICK s \in SockModes : Fork(parent, child, access, s)
  OBVIOUS
<1>3. /\ Alive(parent) /\ ~Alive(child) /\ lived' = lived /\ settled' = settled
      /\ \A p \in Pids \ {child} : table'[p] = table[p]
  BY <1>1, <1>2 DEF Fork, ProcTypeOK
<1>4. main \in Thread
  BY <1>3 DEF ControlTypeOK, HasMainThread
<1>5. <<main>> \in Seq(Thread) /\ Len(<<main>>) = 1
  BY <1>4
<1>6. ControlTypeOK'
  BY <1>1, <1>5 DEF ControlTypeOK, controlVars
<1>7. HasMainThread'
  <2> SUFFICES ASSUME NEW p \in Pids, Alive(p)' PROVE Len(threads'[p]) >= 1
    BY DEF HasMainThread
  <2>1. CASE p = child
    BY <1>5, <2>1 DEF ControlTypeOK
  <2>2. CASE p # child
    BY <1>3, <2>2 DEF ControlTypeOK, HasMainThread, Alive
  <2> QED
    BY <2>1, <2>2
<1>8. Spared
  BY <1>1, <1>3 DEF Spared, ControlTypeOK, ProcTypeOK, LivedAlive, Alive
<1> QED
  BY <1>6, <1>7, <1>8, KernelSteps

\* An exit keeps it: whoever exits does not survive, nor do its threads.
LEMMA ReapsIInv ==
  ASSUME ControlInv, NEW p \in Pids, KernelReaps(p)
  PROVE  ControlInv'
<1> USE DEF KernelReaps, ControlInv
<1>1. ProcTypeOK /\ ProcTypeOK'
  BY KernelType DEF ControlTypeOK, Kernel
<1>2. threads' = [threads EXCEPT ![p] = << >>] /\ threads \in [Pids -> Seq(Thread)]
  BY DEF ControlTypeOK
<1>3. ControlTypeOK'
  <2>1. threads' \in [Pids -> Seq(Thread)]
    BY <1>2
  <2> QED
    BY <1>1, <2>1 DEF ControlTypeOK, controlVars
<1>4. \A q \in Pids : q # p => /\ table'[q].born = table[q].born
                               /\ table'[q].access = table[q].access
                               /\ threads'[q] = threads[q]
  BY <1>1, <1>2, ExitLeaves
<1>5. ~Alive(p)'
  BY <1>1, ExitLeaves DEF Alive, NoProcess
<1>6. HasMainThread'
  BY <1>4, <1>5 DEF HasMainThread, Alive
<1>7. Spared
  <2>1. lived' = lived \ {p} /\ settled' \subseteq settled \ {p}
    BY DEF Exit
  <2> QED
    BY <1>1, <1>4, <2>1 DEF Spared, ProcTypeOK, LivedAlive
<1> QED
  BY <1>3, <1>6, <1>7, KernelSteps

\* A new thread keeps it.
LEMMA ClonesIInv ==
  ASSUME ControlInv, NEW p \in Pids, KernelClones(p)
  PROVE  ControlInv'
<1> USE DEF KernelClones, ControlInv
<1>1. PICK k \in DOMAIN threads[p] : threads' = [threads EXCEPT ![p] = Append(@, threads[p][k])]
  OBVIOUS
<1> DEFINE s == threads[p]
           t == Append(s, s[k])
<1>2. s \in Seq(Thread) /\ k \in 1 .. Len(s) /\ s[k] \in Thread
  BY DEF ControlTypeOK
<1>3. t \in Seq(Thread) /\ Len(t) = Len(s) + 1 /\ Len(s) >= 1 /\ t[1] = s[1]
  BY <1>2
<1>4. threads' = [threads EXCEPT ![p] = t]
  BY <1>1
<1> HIDE DEF t
<1>5. UNCHANGED <<table, births, lived, settled, views>> /\ UNCHANGED controlVars
  BY DEF procVars
<1>6. ControlTypeOK'
  BY <1>3, <1>4, <1>5 DEF ControlTypeOK, ProcTypeOK, controlVars
<1>7. HasMainThread'
  BY <1>2, <1>3, <1>4, <1>5 DEF HasMainThread, ControlTypeOK, Alive
<1>8. Spared
  BY <1>3, <1>4, <1>5 DEF Spared, ControlTypeOK, ProcTypeOK, LivedAlive
<1> QED
  BY <1>5, <1>6, <1>7, <1>8, KernelSteps

-----------------------------------------------------------------------------
(* The command's steps. *)

\* An operation begins with nothing done.
LEMMA BeginIInv ==
  ASSUME ControlInv, NEW c \in Orders, Begin(c)
  PROVE  ControlInv'
<1> USE DEF Begin, Mark, ControlInv
<1>1. lived' \subseteq Pids /\ View(table) \subseteq Pids \X Nat
  BY ViewType DEF AlivePids, ControlTypeOK, ProcTypeOK
<1>2. ControlTypeOK'
  BY <1>1 DEF ControlTypeOK, ProcTypeOK, Results
<1>3. NothingYet' /\ Vetted'
  BY DEF NothingYet, Vetted, Accepted
<1>4. LivedAlive' /\ HasMainThread'
  BY DEF LivedAlive, HasMainThread, AlivePids, Alive
<1>5. NeverAGroup' /\ EffectIffSuccess' /\ OwnProcessReached'
  BY DEF NeverAGroup, EffectIffSuccess, OwnProcessReached
<1> QED
  BY <1>2, <1>3, <1>4, <1>5

\* A check passes or ends the command; it touches no process.
LEMMA CheckExistsIInv == ASSUME ControlInv, CheckExists PROVE ControlInv'
<1> USE DEF CheckExists, Ends, ControlInv, procVars
<1>1. ControlTypeOK'
  BY DEF ControlTypeOK, ProcTypeOK, Results
<1>2. NothingYet' /\ Vetted'
  BY DEF NothingYet, Vetted, Accepted
<1>3. LivedAlive' /\ HasMainThread'
  BY DEF LivedAlive, HasMainThread, Alive
<1>4. NeverAGroup' /\ EffectIffSuccess'
  BY DEF NeverAGroup, EffectIffSuccess, NothingYet, Probe
<1>5. OwnProcessReached'
  BY DEF OwnProcessReached, LivedAlive, Alive, ControlTypeOK, ProcTypeOK
<1> QED
  BY <1>1, <1>2, <1>3, <1>4, <1>5

\* The check of the PID keeps it.
LEMMA CheckOpenIInv == ASSUME ControlInv, CheckOpen PROVE ControlInv'
<1> USE DEF CheckOpen, Ends, ControlInv, procVars
<1>1. ControlTypeOK'
  BY DEF ControlTypeOK, ProcTypeOK, Results
<1>2. NothingYet' /\ Vetted'
  BY DEF NothingYet, Vetted, Accepted
<1>3. LivedAlive' /\ HasMainThread'
  BY DEF LivedAlive, HasMainThread, Alive
<1>4. NeverAGroup' /\ EffectIffSuccess'
  BY DEF NeverAGroup, EffectIffSuccess, NothingYet, Probe
<1>5. OwnProcessReached'
  BY DEF OwnProcessReached, LivedAlive, Alive
<1> QED
  BY <1>1, <1>2, <1>3, <1>4, <1>5

\* The call fails: of a process of the caller that was there all the time,
\* for one of the reasons that OwnProcessReached names.
LEMMA FailsIInv == ASSUME ControlInv, cpc = "call", Fails PROVE ControlInv'
<1> USE DEF ControlInv
<1>1. cmd.pid \in Pids /\ cmd.op \in Ops /\ hits = {}
  BY ControlAssumption DEF Vetted, ControlTypeOK, NothingYet
<1>2. PICK e : /\ e \in (IF Targets(cmd.pid) = {} THEN {"ESRCH"}
                         ELSE UNION {Reasons(p) : p \in Targets(cmd.pid)})
               /\ cpc' = "done" /\ outcome' = ErrorOf(e)
               /\ UNCHANGED <<table, births, lived, settled, views, threads, hits, cmd>>
  BY DEF Fails, Ends, procVars
<1>3. e = "ESRCH" \/ \E p \in Targets(cmd.pid) : e \in Reasons(p)
  BY <1>2
<1>4. e \in Errnos
  BY <1>1, <1>3, RefusalType, TargetsOfPid DEF Errnos
<1>5. outcome' \in {"processNotFound", "permissionDenied", "parsingError", "systemError"}
  BY <1>2, <1>4 DEF ErrorOf, Errnos
<1>6. ControlTypeOK'
  BY <1>2, <1>5 DEF ControlTypeOK, ProcTypeOK, Results
<1>7. NothingYet' /\ Vetted' /\ LivedAlive' /\ HasMainThread'
  BY <1>2 DEF NothingYet, Vetted, LivedAlive, HasMainThread, Alive
<1>8. NeverAGroup' /\ EffectIffSuccess'
  BY <1>1, <1>2, <1>5 DEF NeverAGroup, EffectIffSuccess, Probe
<1>9. OwnProcessReached'
  <2> SUFFICES ASSUME cmd.pid \in lived, table[cmd.pid].access = "full"
               PROVE  \/ /\ cmd.op = "renice"
                         /\ cmd.arg < threads[cmd.pid][1].nice
                         /\ outcome' = "permissionDenied"
                      \/ /\ cmd.op = "affinity"
                         /\ outcome' = IF Usable({c \in cmd.arg : c < MaskSize}) = {}
                                       THEN "parsingError" ELSE "systemError"
    BY <1>2 DEF OwnProcessReached, Usable
  <2>1. Targets(cmd.pid) = {cmd.pid}
    BY <1>1, TargetsOfPid DEF LivedAlive
  <2>2. e \in Reasons(cmd.pid)
    BY <1>2, <2>1
  <2>3. CASE cmd.op = "signal"
    BY <2>2, <2>3 DEF Reasons, Refusal, Denial
  <2>4. CASE cmd.op = "renice"
    <3>1. e = "EACCES" /\ cmd.arg < threads[cmd.pid][1].nice
      BY <2>2, <2>4 DEF Reasons, Refusal, Denial
    <3> QED
      BY <1>2, <2>4, <3>1 DEF ErrorOf
  <2>5. CASE cmd.op = "affinity"
    <3>1. e = IF Usable({c \in cmd.arg : c < MaskSize}) = {} THEN "EINVAL" ELSE "ENOMEM"
      BY <2>2, <2>5 DEF Reasons, Refusal, Denial
    <3> QED
      BY <1>2, <2>5, <3>1 DEF ErrorOf
  <2> QED
    BY <1>1, <2>3, <2>4, <2>5 DEF Ops
<1> QED
  BY <1>6, <1>7, <1>8, <1>9

\* The call takes effect, on the one process that has the PID now.
LEMMA TakesEffectIInv == ASSUME ControlInv, cpc = "call", TakesEffect, Ends("ok") PROVE ControlInv'
<1> USE DEF ControlInv
<1>1. cmd.pid \in Pids /\ Accepted(cmd) /\ hits = {}
  BY DEF Vetted, NothingYet
<1>2. /\ cpc' = "done" /\ outcome' = "ok"
      /\ UNCHANGED <<table, births, lived, settled, views, cmd>>
  BY DEF Ends, TakesEffect, procVars
<1>3. Targets(cmd.pid) = {cmd.pid} /\ Alive(cmd.pid)
  BY <1>1, TargetsOfPid DEF TakesEffect
<1>4. /\ threads' = [p \in Pids |-> IF p = cmd.pid THEN Changed(p) ELSE threads[p]]
      /\ hits' = IF Probe THEN {} ELSE {Present(cmd.pid)}
  BY <1>3 DEF TakesEffect
<1>5. Changed(cmd.pid) \in Seq(Thread) /\ Len(Changed(cmd.pid)) >= 1
  BY <1>1, <1>3, ChangedType DEF HasMainThread
<1>6. Present(cmd.pid) \in Pids \X Nat
  BY <1>1 DEF Present, ControlTypeOK, ProcTypeOK, Processes
<1>7. ControlTypeOK'
  <2>1. threads' \in [Pids -> Seq(Thread)]
    BY <1>4, <1>5 DEF ControlTypeOK
  <2>2. hits' \subseteq Pids \X Nat
    BY <1>4, <1>6
  <2> QED
    BY <1>2, <2>1, <2>2 DEF ControlTypeOK, ProcTypeOK, Results
<1>8. NothingYet' /\ Vetted' /\ LivedAlive'
  BY <1>2 DEF NothingYet, Vetted, LivedAlive, Alive
<1>9. HasMainThread'
  BY <1>2, <1>4, <1>5 DEF HasMainThread, Alive
<1>10. NeverAGroup'
  <2> DEFINE reached == Present(cmd.pid)
  <2>1. cmd.pid > 0
    BY <1>1, PidsPositive
  <2>2. reached[1] = cmd.pid
    BY Zenon DEF Present
  <2>3. hits' \subseteq {reached}
    BY <1>4
  <2> HIDE DEF reached
  <2> QED
    BY <1>2, <2>1, <2>2, <2>3 DEF NeverAGroup
<1>11. EffectIffSuccess'
  BY <1>2, <1>4 DEF EffectIffSuccess, Probe
<1>12. OwnProcessReached'
  BY <1>2 DEF OwnProcessReached
<1> QED
  BY <1>7, <1>8, <1>9, <1>10, <1>11, <1>12

\* The operations' invariant is about their variables only.
LEMMA StutterIInv == ASSUME ControlInv, UNCHANGED mutationVars PROVE ControlInv'
BY DEF mutationVars, procVars, controlVars, ControlInv, ControlTypeOK, ProcTypeOK, NothingYet, Vetted,
       LivedAlive, HasMainThread, Alive, NeverAGroup, EffectIffSuccess, Probe,
       OwnProcessReached, Usable, Accepted

\* Every step of the kernel and of an operation keeps the operations' invariant.
LEMMA NextIInv == ControlInv /\ [ControlNext]_mutationVars => ControlInv'
<1> SUFFICES ASSUME ControlInv, [ControlNext]_mutationVars PROVE ControlInv'
  OBVIOUS
<1>1. CASE Kernels
  BY <1>1, ForksIInv, ReapsIInv, ClonesIInv DEF Kernels
<1>2. CASE \E c \in Orders : Begin(c)
  BY <1>2, BeginIInv
<1>3. CASE CheckExists
  BY <1>3, CheckExistsIInv
<1>4. CASE CheckOpen
  BY <1>4, CheckOpenIInv
<1>5. CASE Call
  BY <1>5, FailsIInv, TakesEffectIInv DEF Call
<1>6. CASE UNCHANGED mutationVars
  BY <1>6, StutterIInv
<1> QED
  BY <1>1, <1>2, <1>3, <1>4, <1>5, <1>6 DEF ControlNext, Operation

-----------------------------------------------------------------------------
(* The theorems about the operations. *)

\* The inductive invariant: what is known of a command at each of its steps
\* (helpers.cpp:11-22, control.cpp:11-31, performance.cpp:70-122).
THEOREM ControlInvariance == ControlSpec => []ControlInv
<1>1. ControlInit => ControlInv
  BY InitIInv
<1>2. ControlInv /\ [ControlNext]_mutationVars => ControlInv'
  BY NextIInv
<1> QED
  BY <1>1, <1>2, PTL DEF ControlSpec

\* Every variable keeps its type; in particular no operation returns an error
\* that its calls do not have.
THEOREM ControlTypeCorrect == ControlSpec => []ControlTypeOK
<1>1. ControlInv => ControlTypeOK
  BY DEF ControlInv
<1> QED
  BY <1>1, ControlInvariance, PTL

\* No command reaches more than the one process of its PID: 0 and negative
\* numbers never get to the system call (control.cpp:11-17).
THEOREM OnlyOneProcess == ControlSpec => []NeverAGroup
<1>1. ControlInv => NeverAGroup
  BY DEF ControlInv
<1> QED
  BY <1>1, ControlInvariance, PTL

\* Success is reported exactly when a process was changed (main.cpp:38-92).
THEOREM SuccessMeansEffect == ControlSpec => []EffectIffSuccess
<1>1. ControlInv => EffectIffSuccess
  BY DEF ControlInv
<1> QED
  BY <1>1, ControlInvariance, PTL

\* A process of the caller that stays is reached, or refused for the one
\* reason its command has, whatever else is forked and reaped meanwhile.
THEOREM OwnProcessNeverMissed == ControlSpec => []OwnProcessReached
<1>1. ControlInv => OwnProcessReached
  BY DEF ControlInv
<1> QED
  BY <1>1, ControlInvariance, PTL

-----------------------------------------------------------------------------
(* The parser alone: what main can rely on of accepted arguments. *)

\* The fields that a command works on, and what must be true of them.
Validated == {"pid", "signalNumber", "niceValue", "affinityCpus"}
KindOf(f) == CASE f = "pid" -> "int" [] f = "signalNumber" -> "signal"
               [] f = "niceValue" -> "nice" [] f = "affinityCpus" -> "cpus"

ArgsValid(a) ==
  /\ DOMAIN a \subseteq Fields
  /\ \A f \in DOMAIN a : a[f] \in Tokens \cup {Default}
  /\ \A f \in DOMAIN a \cap Validated : Passes(KindOf(f), a[f])

\* The first n operands of the command have been taken.
HasOperands(n) ==
  \A k \in DOMAIN Operands(command) : k <= n => Operands(command)[k].field \in DOMAIN args

Position ==
  /\ pc = "command" => i = 1
  /\ pc = "operands" => i >= 2 /\ command \in Commands /\ HasOperands(i - 2)
  /\ pc = "options" => command \in Commands /\ HasOperands(Len(Operands(command)))
  /\ result = "ok" => /\ pc = "done"
                      /\ HasOperands(Len(Operands(command)))
                      /\ ~Conflict(command, args)

ParserInv == ParserTypeOK /\ ArgsValid(args) /\ Position

-----------------------------------------------------------------------------
\* The parser's tables.

OperandKinds == {"int", "any", "signal", "nice", "cpus"}

\* A validated field is set by an operand of its own kind only.
LEMMA OperandTable ==
  ASSUME NEW c
  PROVE  /\ Operands(c) \in Seq([field : Fields, kind : OperandKinds])
         /\ \A k \in DOMAIN Operands(c) :
              Operands(c)[k].field \in Validated => Operands(c)[k].kind = KindOf(Operands(c)[k].field)
<1> DEFINE O == [field : Fields, kind : OperandKinds]
           pid == Operand("pid", "int")
           Good(x) == x \in O /\ (x.field \in Validated => x.kind = KindOf(x.field))
<1>1. /\ "pid" \in Fields /\ "name" \in Fields /\ "user" \in Fields
      /\ "signalNumber" \in Fields /\ "niceValue" \in Fields /\ "affinityCpus" \in Fields
  <2>1. \A o \in OptionsWithOperand : o.field \in Fields
    BY DEF Fields
  <2>2. /\ Option({"--pid", "-p"}, "pid", "int") \in OptionsWithOperand
        /\ Option({"--name"}, "name", "any") \in OptionsWithOperand
        /\ Option({"--user", "-u"}, "user", "any") \in OptionsWithOperand
    BY DEF OptionsWithOperand
  <2>3. "pid" \in Fields /\ "name" \in Fields /\ "user" \in Fields
    BY <2>1, <2>2 DEF Option
  <2> QED BY <2>3 DEF Fields
<1>2. /\ Good(pid)
      /\ Good(Operand("name", "any")) /\ Good(Operand("user", "any"))
      /\ Good(Operand("signalNumber", "signal")) /\ Good(Operand("niceValue", "nice"))
      /\ Good(Operand("affinityCpus", "cpus"))
  <2>2. /\ KindOf("pid") = "int" /\ KindOf("signalNumber") = "signal"
        /\ KindOf("niceValue") = "nice" /\ KindOf("affinityCpus") = "cpus"
    BY DEF KindOf
  <2>3. "name" \notin Validated /\ "user" \notin Validated
    BY DEF Validated
  <2>4. Good(pid)
    BY <1>1, <2>2 DEF Operand, OperandKinds
  <2>5. Good(Operand("name", "any"))
    BY <1>1, <2>3 DEF Operand, OperandKinds
  <2>6. Good(Operand("user", "any"))
    BY <1>1, <2>3 DEF Operand, OperandKinds
  <2>7. Good(Operand("signalNumber", "signal"))
    BY <1>1, <2>2 DEF Operand, OperandKinds
  <2>8. Good(Operand("niceValue", "nice"))
    BY <1>1, <2>2 DEF Operand, OperandKinds
  <2>9. Good(Operand("affinityCpus", "cpus"))
    BY <1>1, <2>2 DEF Operand, OperandKinds
  <2> HIDE DEF Good
  <2> QED BY <2>4, <2>5, <2>6, <2>7, <2>8, <2>9
<1>3. \/ Operands(c) = << >>
      \/ Operands(c) = <<pid>> \/ Operands(c) = <<Operand("name", "any")>>
      \/ Operands(c) = <<Operand("user", "any")>>
      \/ Operands(c) = <<pid, Operand("signalNumber", "signal")>>
      \/ Operands(c) = <<pid, Operand("niceValue", "nice")>>
      \/ Operands(c) = <<pid, Operand("affinityCpus", "cpus")>>
  BY DEF Operands
<1>4. \/ Operands(c) = << >>
      \/ \E x : Good(x) /\ Operands(c) = <<x>>
      \/ \E x, y : Good(x) /\ Good(y) /\ Operands(c) = <<x, y>>
  BY ONLY <1>2, <1>3
<1>5. Operands(c) \in Seq(O) /\ \A k \in DOMAIN Operands(c) : Good(Operands(c)[k])
  <2> HIDE DEF O, Good
  <2>1. \A x : Good(x) => x \in O
    BY DEF Good
  <2>2. CASE Operands(c) = << >>
    BY <2>2
  <2>3. CASE \E x : Good(x) /\ Operands(c) = <<x>>
    BY <2>1, <2>3
  <2>4. CASE \E x, y : Good(x) /\ Good(y) /\ Operands(c) = <<x, y>>
    BY <2>1, <2>4
  <2> QED BY <1>4, <2>2, <2>3, <2>4
<1> QED BY <1>5

\* Every option with an operand sets a field, and checks it as its kind asks.
LEMMA OptionTable ==
  ASSUME NEW o \in OptionsWithOperand
  PROVE  /\ o.field \in Fields
         /\ o.field \in Validated => o.kind = KindOf(o.field)
<1>1. o.field \in Fields
  BY DEF Fields
<1>2. o.field \in Validated => o.kind = KindOf(o.field)
  BY DEF OptionsWithOperand, Option, Validated, KindOf
<1> QED BY <1>1, <1>2

\* A flag sets no field that is checked.
LEMMA FlagTable ==
  ASSUME NEW o \in Flags
  PROVE  o.field \in Fields \ Validated
<1>1. o.field \in Fields
  BY DEF Fields
<1>2. o.field \notin Validated
  BY DEF Flags, Flag, Validated
<1> QED BY <1>1, <1>2

\* An option that may take a word sets no field that is checked.
LEMMA MayTakeTable ==
  ASSUME NEW o \in OptionsThatMayTake
  PROVE  /\ o.before \subseteq Fields \ Validated
         /\ o.taken \subseteq Fields \ Validated
         /\ o.otherwise \subseteq Fields \ Validated
<1>1. o.before \cup o.taken \cup o.otherwise \subseteq Fields
  BY DEF Fields
<1>2. (o.before \cup o.taken \cup o.otherwise) \cap Validated = {}
  BY DEF OptionsThatMayTake, Validated
<1> QED BY <1>1, <1>2

-----------------------------------------------------------------------------
\* Setting fields keeps arguments valid, and loses none.
LEMMA WithValid ==
  \A a, S, v : ArgsValid(a) /\ S \subseteq Fields /\ v \in Tokens \cup {Default}
               /\ (\A f \in S \cap Validated : Passes(KindOf(f), v))
               => ArgsValid(With(a, S, v)) /\ DOMAIN a \subseteq DOMAIN With(a, S, v)
                  /\ S \subseteq DOMAIN With(a, S, v)
<1> SUFFICES ASSUME NEW a, NEW S, NEW v, ArgsValid(a), S \subseteq Fields, v \in Tokens \cup {Default},
                    \A f \in S \cap Validated : Passes(KindOf(f), v)
             PROVE  ArgsValid(With(a, S, v)) /\ DOMAIN a \subseteq DOMAIN With(a, S, v)
                    /\ S \subseteq DOMAIN With(a, S, v)
  OBVIOUS
<1>1. /\ DOMAIN With(a, S, v) = DOMAIN a \cup S
      /\ \A f \in DOMAIN a \cup S : With(a, S, v)[f] = IF f \in S THEN v ELSE a[f]
  BY DEF With
<1> QED BY <1>1 DEF ArgsValid

\* What a sequence has at a place up to its length is of its kind.
LEMMA SeqElements ==
  ASSUME NEW R, NEW s \in Seq(R), NEW k \in Nat \ {0}, k <= Len(s)
  PROVE  k \in DOMAIN s /\ s[k] \in R
OBVIOUS

\* A line is made of words, and the parser stands on one of them or behind them.
LEMMA LinesTyped ==
  ASSUME ParserTypeOK
  PROVE  /\ Len(argv) \in Nat /\ i \in Nat /\ i >= 1
         /\ \A j \in 1 .. Len(argv) : argv[j] \in Tokens
<1>1. argv \in Seq(Tokens) /\ i \in 1 .. Len(argv) + 1
  BY DEF ParserTypeOK
<1>2. Len(argv) \in Nat
  BY <1>1
<1>3. \A j \in 1 .. Len(argv) : argv[j] \in Tokens
  BY <1>1
<1> QED BY <1>1, <1>2, <1>3

\* A step that returns, keeping the arguments, keeps the invariant, unless
\* what it returns is "ok".
LEMMA ReturnStep ==
  ASSUME ParserInv, pc # "done", NEW r \in {"help", "error"}, Return(r)
  PROVE  ParserInv'
<1>1. ParserTypeOK' /\ ArgsValid(args)'
  BY DEF ParserInv, ParserTypeOK, Return, ArgsValid
<1>2. Position'
  BY DEF Return, Position
<1> QED BY <1>1, <1>2 DEF ParserInv

\* A step that takes an option.
LEMMA OptionStep ==
  ASSUME ParserInv, pc = "options", ArgsValid(args)', DOMAIN args \subseteq DOMAIN args',
         i' \in 1 .. Len(argv) + 1, UNCHANGED <<argv, pc, command, result>>
  PROVE  ParserInv'
<1>1. ParserTypeOK'
  BY DEF ParserInv, ParserTypeOK, ArgsValid
<1>2. result # "ok"
  BY DEF ParserInv, Position
<1>3. HasOperands(Len(Operands(command)))'
  BY DEF ParserInv, Position, HasOperands
<1>4. Position'
  BY <1>2, <1>3 DEF ParserInv, Position
<1> QED BY <1>1, <1>4 DEF ParserInv

\* Before a word is read, nothing has been accepted.
LEMMA InitStep == ParserInit => ParserInv
<1> SUFFICES ASSUME ParserInit PROVE ParserInv
  OBVIOUS
<1>1. argv \in Seq(Tokens)
  BY CommandLineAssumption DEF ParserInit
<1>2. DOMAIN args = {}
  <2>1. args = << >>
    BY DEF ParserInit
  <2>2. DOMAIN << >> = {}
    OBVIOUS
  <2> QED BY <2>1, <2>2
<1>3. ParserTypeOK
  <2>1. Len(argv) \in Nat
    BY <1>1
  <2>2. i \in 1 .. Len(argv) + 1
    <3>1. i = 1
      BY DEF ParserInit
    <3> QED BY <2>1, <3>1
  <2>3. pc = "command" /\ command = "" /\ result = "none"
    BY DEF ParserInit
  <2> QED BY <1>1, <1>2, <2>2, <2>3 DEF ParserTypeOK
<1>4. ArgsValid(args)
  BY <1>2 DEF ArgsValid
<1>5. Position
  BY DEF ParserInit, Position
<1> QED BY <1>3, <1>4, <1>5 DEF ParserInv

\* What the parser has put in the arguments so far is valid, word by word.
LEMMA NextStep == ParserInv /\ [ParserNext]_parserVars => ParserInv'
<1> SUFFICES ASSUME ParserInv, [ParserNext]_parserVars PROVE ParserInv'
  OBVIOUS
<1> USE DEF More
<1>0. /\ ParserTypeOK /\ ArgsValid(args) /\ Position
      /\ Len(argv) \in Nat /\ i \in Nat /\ i >= 1
      /\ \A j \in 1 .. Len(argv) : argv[j] \in Tokens
  BY LinesTyped DEF ParserInv
<1>1. CASE DefaultCommand
  <2>1. /\ pc = "command" /\ pc' = "options" /\ command' = "list"
        /\ UNCHANGED <<argv, i, args, result>>
    BY <1>1 DEF DefaultCommand
  <2>2. ParserTypeOK' /\ ArgsValid(args)'
    BY <1>0, <2>1 DEF ParserTypeOK, Commands, ArgsValid
  <2>3. Operands(command') = << >> /\ DOMAIN << >> = {}
    BY <2>1 DEF Operands
  <2>4. result' # "ok"
    BY <1>0, <2>1 DEF Position
  <2>5. HasOperands(Len(Operands(command)))'
    BY <2>3 DEF HasOperands
  <2>6. Position'
    BY <2>1, <2>4, <2>5 DEF Position, Commands
  <2> QED BY <2>2, <2>6 DEF ParserInv
<1>2. CASE TakeCommand
  <2>1. /\ pc = "command" /\ pc' = "operands" /\ command' \in Commands /\ i' = i + 1 /\ i <= Len(argv)
        /\ UNCHANGED <<argv, args, result>>
    BY <1>2 DEF TakeCommand
  <2>2. i = 1 /\ result' # "ok"
    BY <1>0, <2>1 DEF Position
  <2>3. ParserTypeOK' /\ ArgsValid(args)'
    <3>1. i' \in 1 .. Len(argv) + 1
      BY <1>0, <2>1
    <3>2. argv' \in Seq(Tokens) /\ result' \in {"none", "ok", "help", "error"}
      BY <1>0, <2>1 DEF ParserTypeOK
    <3> QED BY <1>0, <2>1, <3>1, <3>2 DEF ParserTypeOK, ArgsValid
  <2>4. DOMAIN Operands(command') \subseteq Nat \ {0}
    BY OperandTable
  <2>5. HasOperands(0)'
    BY <2>4 DEF HasOperands
  <2>6. Position'
    BY <2>1, <2>2, <2>5 DEF Position
  <2> QED BY <2>3, <2>6 DEF ParserInv
<1>3. CASE OtherCommand
  BY <1>3, ReturnStep DEF OtherCommand
<1>4. CASE TakeOperand
  <2> DEFINE k == i - 1
             o == Operands(command)[k]
  <2>1. /\ pc = "operands" /\ k <= Len(Operands(command)) /\ k \in Nat \ {0}
        /\ command \in Commands /\ HasOperands(i - 2) /\ result # "ok"
    BY <1>0, <1>4 DEF TakeOperand, Position
  <2>0. Operands(command) \in Seq([field : Fields, kind : OperandKinds])
    BY OperandTable
  <2>2. k \in DOMAIN Operands(command) /\ o \in [field : Fields, kind : OperandKinds]
    <3> HIDE DEF k
    <3> QED BY <2>0, <2>1, SeqElements
  <2>3. o.field \in Fields /\ (o.field \in Validated => o.kind = KindOf(o.field))
    <3>1. o \in [field : Fields, kind : OperandKinds]
      BY <2>2
    <3>2. o.field \in Fields
      BY <3>1
    <3>3. o.field \in Validated => o.kind = KindOf(o.field)
      BY <2>2, OperandTable
    <3> QED BY <3>2, <3>3
  <2>4. CASE More /\ Passes(o.kind, argv[i])
    <3>1. /\ args' = With(args, {o.field}, argv[i]) /\ i' = i + 1 /\ i <= Len(argv)
          /\ UNCHANGED <<argv, pc, command, result>>
      BY <1>4, <2>4 DEF TakeOperand
    <3>2. argv[i] \in Tokens \cup {Default}
      BY <1>0, <3>1
    <3>3. ArgsValid(args') /\ DOMAIN args \cup {o.field} \subseteq DOMAIN args'
      <4> DEFINE S == {o.field}
      <4>1. S \subseteq Fields /\ \A f \in S \cap Validated : Passes(KindOf(f), argv[i])
        BY <2>3, <2>4
      <4>2. args' = With(args, S, argv[i])
        BY <3>1
      <4>3. ArgsValid(args') /\ DOMAIN args \subseteq DOMAIN args' /\ S \subseteq DOMAIN args'
        <5> HIDE DEF S
        <5> QED BY <1>0, <3>2, <4>1, <4>2, WithValid
      <4> QED BY <4>3
    <3>4. ParserTypeOK'
      <4>1. i' \in 1 .. Len(argv) + 1
        BY <1>0, <3>1
      <4>2. argv' \in Seq(Tokens) /\ result' \in {"none", "ok", "help", "error"}
        BY <1>0, <3>1 DEF ParserTypeOK
      <4> QED BY <1>0, <2>1, <3>1, <3>3, <4>1, <4>2 DEF ParserTypeOK, ArgsValid
    <3>5. HasOperands(i - 2)'
      <4>1. DOMAIN Operands(command) \subseteq Int
        BY OperandTable
      <4>2. i' - 2 = k
        BY <1>0, <3>1
      <4>3. ASSUME NEW j \in DOMAIN Operands(command), j <= k
            PROVE  Operands(command)[j].field \in DOMAIN args'
        <5>1. CASE j = k
          BY <3>3, <5>1
        <5>2. CASE j <= i - 2
          BY <2>1, <3>3, <5>2 DEF HasOperands
        <5> QED BY <1>0, <4>1, <4>3, <5>1, <5>2
      <4> QED BY <3>1, <4>2, <4>3 DEF HasOperands
    <3>6. Position'
      BY <1>0, <2>1, <3>1, <3>5 DEF Position
    <3> QED BY <3>3, <3>4, <3>6 DEF ParserInv
  <2>5. CASE ~(More /\ Passes(o.kind, argv[i]))
    <3>1. Return("error")
      BY <1>4, <2>5 DEF TakeOperand
    <3> QED BY <2>1, <3>1, ReturnStep
  <2> QED BY <2>4, <2>5
<1>5. CASE EndOperands
  <2>1. /\ pc = "operands" /\ i - 1 > Len(Operands(command)) /\ pc' = "options"
        /\ UNCHANGED <<argv, i, command, args, result>>
    BY <1>5 DEF EndOperands
  <2>2. command \in Commands /\ HasOperands(i - 2) /\ result # "ok"
    BY <1>0, <2>1 DEF Position
  <2>3. Operands(command) \in Seq([field : Fields, kind : OperandKinds])
    BY OperandTable
  <2>4. \A k \in DOMAIN Operands(command) : k \in Int /\ k <= i - 2
    BY <1>0, <2>1, <2>3
  <2>5. HasOperands(Len(Operands(command)))'
    BY <2>1, <2>2, <2>4 DEF HasOperands
  <2>6. ParserTypeOK' /\ ArgsValid(args)'
    BY <1>0, <2>1 DEF ParserTypeOK, ArgsValid
  <2>7. Position'
    BY <2>1, <2>2, <2>5 DEF Position
  <2> QED BY <2>6, <2>7 DEF ParserInv
<1>6. CASE AskHelp \/ Unexpected
  <2>1. pc = "options" /\ \E r \in {"help", "error"} : Return(r)
    BY <1>6 DEF AskHelp, Unexpected
  <2> QED BY <2>1, ReturnStep
<1>7. ASSUME NEW o \in OptionsWithOperand, TakeOption(o) PROVE ParserInv'
  <2>1. pc = "options" /\ i <= Len(argv)
    BY <1>7 DEF TakeOption
  <2>2. CASE i < Len(argv) /\ Passes(o.kind, argv[i + 1])
    <3>1. /\ args' = With(args, {o.field}, argv[i + 1]) /\ i' = i + 2
          /\ UNCHANGED <<argv, pc, command, result>>
      BY <1>7, <2>2 DEF TakeOption
    <3>2. argv[i + 1] \in Tokens \cup {Default} /\ i' \in 1 .. Len(argv) + 1
      BY <1>0, <2>2, <3>1
    <3> DEFINE S == {o.field}
    <3>3. S \subseteq Fields /\ \A f \in S \cap Validated : Passes(KindOf(f), argv[i + 1])
      BY <1>7, <2>2, OptionTable
    <3>4. args' = With(args, S, argv[i + 1])
      BY <3>1
    <3> HIDE DEF S
    <3>5. ArgsValid(args') /\ DOMAIN args \subseteq DOMAIN args'
      BY <1>0, <3>2, <3>3, <3>4, WithValid
    <3> QED BY <2>1, <3>1, <3>2, <3>5, OptionStep
  <2>3. CASE ~(i < Len(argv) /\ Passes(o.kind, argv[i + 1]))
    <3>1. Return("error")
      BY <1>7, <2>3 DEF TakeOption
    <3> QED BY <2>1, <3>1, ReturnStep
  <2> QED BY <2>2, <2>3
<1>8. ASSUME NEW o \in Flags, TakeFlag(o) PROVE ParserInv'
  <2>1. /\ pc = "options" /\ i <= Len(argv)
        /\ args' = With(args, {o.field}, Default) /\ i' = i + 1
        /\ UNCHANGED <<argv, pc, command, result>>
    BY <1>8 DEF TakeFlag
  <2>2. i' \in 1 .. Len(argv) + 1
    BY <1>0, <2>1
  <2> DEFINE S == {o.field}
  <2>3. S \subseteq Fields /\ S \cap Validated = {}
    BY <1>8, FlagTable
  <2>4. args' = With(args, S, Default) /\ Default \in Tokens \cup {Default}
    BY <2>1
  <2> HIDE DEF S
  <2>5. ArgsValid(args') /\ DOMAIN args \subseteq DOMAIN args'
    BY <1>0, <2>3, <2>4, WithValid
  <2> QED BY <2>1, <2>2, <2>5, OptionStep
<1>9. ASSUME NEW o \in OptionsThatMayTake, MayTake(o) PROVE ParserInv'
  <2>1. pc = "options" /\ i <= Len(argv) /\ UNCHANGED <<argv, pc, command, result>>
    BY <1>9 DEF MayTake
  <2> DEFINE S == o.before
             T == o.taken
             U == o.before \cup o.otherwise
  <2>2. /\ S \subseteq Fields /\ S \cap Validated = {}
        /\ T \subseteq Fields /\ T \cap Validated = {}
        /\ U \subseteq Fields /\ U \cap Validated = {}
        /\ Default \in Tokens \cup {Default}
    BY <1>9, MayTakeTable
  <2>3. CASE i < Len(argv) /\ Passes(o.kind, argv[i + 1])
    <3> DEFINE a == With(args, S, Default)
    <3>1. args' = With(a, T, argv[i + 1]) /\ i' = i + 2
      BY <1>9, <2>3 DEF MayTake
    <3> HIDE DEF S, T, U
    <3>2. argv[i + 1] \in Tokens \cup {Default} /\ i' \in 1 .. Len(argv) + 1
      BY <1>0, <2>3, <3>1
    <3>3. ArgsValid(a) /\ DOMAIN args \subseteq DOMAIN a
      BY <1>0, <2>2, WithValid
    <3> HIDE DEF a
    <3>4. ArgsValid(args') /\ DOMAIN args \subseteq DOMAIN args'
      BY <2>2, <3>1, <3>2, <3>3, WithValid
    <3> QED BY <2>1, <3>2, <3>4, OptionStep
  <2>4. CASE ~(i < Len(argv) /\ Passes(o.kind, argv[i + 1]))
    <3>1. args' = With(args, U, Default) /\ i' = i + 1
      BY <1>9, <2>4 DEF MayTake
    <3> HIDE DEF S, T, U
    <3>2. i' \in 1 .. Len(argv) + 1
      BY <1>0, <2>1, <3>1
    <3>3. ArgsValid(args') /\ DOMAIN args \subseteq DOMAIN args'
      BY <1>0, <2>2, <3>1, WithValid
    <3> QED BY <2>1, <3>2, <3>3, OptionStep
  <2> QED BY <2>3, <2>4
<1>10. CASE Validate
  <2>1. pc = "options" /\ Return(IF Conflict(command, args) THEN "error" ELSE "ok")
    BY <1>10 DEF Validate
  <2>2. CASE Conflict(command, args)
    BY <2>1, <2>2, ReturnStep
  <2>3. CASE ~Conflict(command, args)
    <3>1. pc' = "done" /\ result' = "ok" /\ UNCHANGED <<argv, i, command, args>>
      BY <2>1, <2>3 DEF Return
    <3>2. ParserTypeOK' /\ ArgsValid(args)'
      BY <1>0, <3>1 DEF ParserTypeOK, ArgsValid
    <3>3. HasOperands(Len(Operands(command)))'
      BY <1>0, <2>1, <3>1 DEF Position, HasOperands
    <3>4. ~Conflict(command, args)'
      BY <2>3, <3>1 DEF Conflict, Given
    <3>5. Position'
      BY <3>1, <3>3, <3>4 DEF Position
    <3> QED BY <3>2, <3>5 DEF ParserInv
  <2> QED BY <2>2, <2>3
<1>11. CASE UNCHANGED parserVars
  BY <1>0, <1>11 DEF parserVars, ParserInv, ParserTypeOK, ArgsValid, Position, HasOperands
<1> QED
  BY <1>1, <1>2, <1>3, <1>4, <1>5, <1>6, <1>7, <1>8, <1>9, <1>10, <1>11 DEF ParserNext, Done

-----------------------------------------------------------------------------
\* The argument parser keeps its types and this invariant: what it has taken
\* for a command's operand is of the operand's kind, at every step.
THEOREM ParserInvariance == ParserSpec => []ParserInv
BY InitStep, NextStep, PTL DEF ParserSpec

\* Every variable of the parser keeps its type (args.cpp:219-791).
THEOREM ParserTypeCorrect == ParserSpec => []ParserTypeOK
<1>1. ParserInv => ParserTypeOK
  BY DEF ParserInv
<1> QED BY <1>1, ParserInvariance, PTL

\* Whatever is typed, main finds what it relies on in accepted arguments
\* (main.cpp:38-92, 516-521, 679-684).
THEOREM AcceptedCanBeRun == ParserSpec => []MainCanRely
<1>1. ParserInv => MainCanRely
  <2> SUFFICES ASSUME ParserInv, result = "ok" PROVE MainCanRely
    BY DEF MainCanRely
  <2>1. ArgsValid(args) /\ HasOperands(Len(Operands(command))) /\ ~Conflict(command, args)
    BY DEF ParserInv, Position
  <2>2. \A f \in Validated : f \in DOMAIN args => ValidField(f, KindOf(f))
    BY <2>1 DEF ArgsValid, ValidField
  <2>3. command \in {"show", "pid"} => "pid" \in DOMAIN args
    BY <2>1 DEF Conflict, Given
  <2>4. ASSUME command \in {"signal", "renice", "affinity"}
        PROVE  /\ "pid" \in DOMAIN args
               /\ command = "signal" => "signalNumber" \in DOMAIN args
               /\ command = "renice" => "niceValue" \in DOMAIN args
               /\ command = "affinity" => "affinityCpus" \in DOMAIN args
    <3>1. CASE command = "signal"
      <4>1. Operands(command) = <<Operand("pid", "int"), Operand("signalNumber", "signal")>>
        BY <3>1 DEF Operands
      <4>2. "pid" \in DOMAIN args /\ "signalNumber" \in DOMAIN args
        BY <2>1, <4>1 DEF HasOperands, Operand
      <4> QED BY <3>1, <4>2
    <3>2. CASE command = "renice"
      <4>1. Operands(command) = <<Operand("pid", "int"), Operand("niceValue", "nice")>>
        BY <3>2 DEF Operands
      <4>2. "pid" \in DOMAIN args /\ "niceValue" \in DOMAIN args
        BY <2>1, <4>1 DEF HasOperands, Operand
      <4> QED BY <3>2, <4>2
    <3>3. CASE command = "affinity"
      <4>1. Operands(command) = <<Operand("pid", "int"), Operand("affinityCpus", "cpus")>>
        BY <3>3 DEF Operands
      <4>2. "pid" \in DOMAIN args /\ "affinityCpus" \in DOMAIN args
        BY <2>1, <4>1 DEF HasOperands, Operand
      <4> QED BY <3>3, <4>2
    <3> QED BY <2>4, <3>1, <3>2, <3>3
  <2>5. /\ command \in {"show", "pid", "signal", "renice", "affinity"} => ValidField("pid", "int")
        /\ command = "signal" => ValidField("signalNumber", "signal")
        /\ command = "renice" => ValidField("niceValue", "nice")
        /\ command = "affinity" => ValidField("affinityCpus", "cpus")
    <3>1. /\ KindOf("pid") = "int" /\ KindOf("signalNumber") = "signal"
          /\ KindOf("niceValue") = "nice" /\ KindOf("affinityCpus") = "cpus"
      BY DEF KindOf
    <3>2. {"pid", "signalNumber", "niceValue", "affinityCpus"} \subseteq Validated
      BY DEF Validated
    <3> QED BY <2>2, <2>3, <2>4, <3>1, <3>2
  <2>6. ~({"topByIo", "topByMem"} \subseteq DOMAIN args)
    BY <2>1 DEF Conflict, Given
  <2>7. HasStaticProcessFilter(args) <=> Given(args, Criteria)
    BY DEF HasStaticProcessFilter, Given, Criteria
  <2> QED BY <2>5, <2>6, <2>7 DEF MainCanRely
<1> QED BY <1>1, ParserInvariance, PTL

-----------------------------------------------------------------------------
(* The parser against the grammar. *)

\* An option that needs an operand is the only one of its name.
LEMMA OptionNamed ==
  ASSUME NEW o \in OptionsWithOperand, NEW p \in OptionsWithOperand, NEW n \in o.names \cap p.names
  PROVE  o.field = p.field /\ o.kind = p.kind
BY DEF OptionsWithOperand, Option

\* A flag is the only one of its name.
LEMMA FlagNamed ==
  ASSUME NEW o \in Flags, NEW p \in Flags, NEW n \in o.names \cap p.names
  PROVE  o.field = p.field
BY DEF Flags, Flag

\* An option that may take an operand is the only one of its name.
LEMMA MayTakeNamed ==
  ASSUME NEW o \in OptionsThatMayTake, NEW p \in OptionsThatMayTake, NEW n \in o.names \cap p.names
  PROVE  o = p
BY DEF OptionsThatMayTake

\* No name is of two sorts of option.
LEMMA NamesApart ==
  /\ \A o \in OptionsWithOperand, p \in Flags : o.names \cap p.names = {}
  /\ \A o \in OptionsWithOperand, p \in OptionsThatMayTake : o.names \cap p.names = {}
  /\ \A o \in Flags, p \in OptionsThatMayTake : o.names \cap p.names = {}
<1>1. ASSUME NEW o \in OptionsWithOperand, NEW p \in Flags, NEW n \in o.names \cap p.names PROVE FALSE
  BY DEF OptionsWithOperand, Option, Flags, Flag
<1>2. ASSUME NEW o \in OptionsWithOperand, NEW p \in OptionsThatMayTake, NEW n \in o.names \cap p.names PROVE FALSE
  BY DEF OptionsWithOperand, Option, OptionsThatMayTake
<1>3. ASSUME NEW o \in Flags, NEW p \in OptionsThatMayTake, NEW n \in o.names \cap p.names PROVE FALSE
  BY DEF OptionsThatMayTake, Flags, Flag
<1> QED
  BY <1>1, <1>2, <1>3

\* An option that needs an operand sets its field to it, or nothing.
LEMMA OptionSets ==
  ASSUME NEW s, NEW o \in OptionsWithOperand, argv[s] \in o.names
  PROVE  /\ Sets(s, FALSE) = {}
         /\ Sets(s, TRUE) = IF Passes(o.kind, argv[s + 1]) THEN {<<o.field, argv[s + 1]>>} ELSE {}
<1>1. \A p \in Flags : argv[s] \notin p.names
  BY NamesApart
<1>2. \A p \in OptionsThatMayTake : argv[s] \notin p.names
  BY NamesApart
<1>3. Sets(s, FALSE) = {}
  <2>1. {p \in Flags : argv[s] \in p.names} = {}
    BY <1>1
  <2>2. {p \in OptionsThatMayTake : argv[s] \in p.names} = {}
    BY <1>2
  <2> QED
    BY <2>1, <2>2 DEF Sets
<1> DEFINE O == {p \in OptionsWithOperand : argv[s] \in p.names /\ Passes(p.kind, argv[s + 1])}
<1>4. Sets(s, TRUE) = {<<p.field, argv[s + 1]>> : p \in O}
  <2>1. {p \in OptionsThatMayTake : argv[s] \in p.names /\ Passes(p.kind, argv[s + 1])} = {}
    BY <1>2
  <2> QED
    BY <2>1 DEF Sets
<1>5. \A p \in OptionsWithOperand : argv[s] \in p.names => p.field = o.field /\ p.kind = o.kind
  BY OptionNamed
<1>6. CASE Passes(o.kind, argv[s + 1])
  <2>1. o \in O /\ \A p \in O : p.field = o.field
    BY <1>5, <1>6
  <2> HIDE DEF O
  <2>2. {<<p.field, argv[s + 1]>> : p \in O} = {<<o.field, argv[s + 1]>>}
    BY <2>1
  <2> QED
    BY <1>3, <1>4, <1>6, <2>2
<1>7. CASE ~Passes(o.kind, argv[s + 1])
  <2>1. O = {}
    BY <1>5, <1>7
  <2> HIDE DEF O
  <2> QED
    BY <1>3, <1>4, <1>7, <2>1
<1> QED
  BY <1>6, <1>7

\* A flag sets its field and takes no operand.
LEMMA FlagSets ==
  ASSUME NEW s, NEW o \in Flags, argv[s] \in o.names
  PROVE  Sets(s, FALSE) = {<<o.field, Default>>} /\ Sets(s, TRUE) = {}
<1>1. \A p \in OptionsWithOperand : argv[s] \notin p.names
  BY NamesApart
<1>2. \A p \in OptionsThatMayTake : argv[s] \notin p.names
  BY NamesApart
<1>3. Sets(s, TRUE) = {}
  <2>1. {p \in OptionsWithOperand : argv[s] \in p.names /\ Passes(p.kind, argv[s + 1])} = {}
    BY <1>1
  <2>2. {p \in OptionsThatMayTake : argv[s] \in p.names /\ Passes(p.kind, argv[s + 1])} = {}
    BY <1>2
  <2> QED
    BY <2>1, <2>2 DEF Sets
<1> DEFINE O == {p \in Flags : argv[s] \in p.names}
<1>4. Sets(s, FALSE) = {<<p.field, Default>> : p \in O}
  <2>1. {p \in OptionsThatMayTake : argv[s] \in p.names} = {}
    BY <1>2
  <2> QED
    BY <2>1 DEF Sets
<1>5. o \in O /\ \A p \in O : p.field = o.field
  BY FlagNamed
<1> HIDE DEF O
<1>6. {<<p.field, Default>> : p \in O} = {<<o.field, Default>>}
  BY <1>5
<1> QED
  BY <1>3, <1>4, <1>6

\* An option that may take an operand sets its fields, if it takes it or not.
LEMMA MayTakeSets ==
  ASSUME NEW s, NEW o \in OptionsThatMayTake, argv[s] \in o.names
  PROVE  /\ Sets(s, FALSE) = (o.before \cup o.otherwise) \X {Default}
         /\ Sets(s, TRUE) = IF Passes(o.kind, argv[s + 1])
                            THEN (o.before \ o.taken) \X {Default} \cup o.taken \X {argv[s + 1]}
                            ELSE {}
<1>1. \A p \in OptionsWithOperand : argv[s] \notin p.names
  BY NamesApart
<1>2. \A p \in Flags : argv[s] \notin p.names
  BY NamesApart
<1>3. \A p \in OptionsThatMayTake : argv[s] \in p.names => p = o
  BY MayTakeNamed
<1>4. {p \in OptionsWithOperand : argv[s] \in p.names /\ Passes(p.kind, argv[s + 1])} = {}
  BY <1>1
<1>5. {p \in Flags : argv[s] \in p.names} = {}
  BY <1>2
<1>6. {p \in OptionsThatMayTake : argv[s] \in p.names} = {o}
  BY <1>3
<1>7. {p \in OptionsThatMayTake : argv[s] \in p.names /\ Passes(p.kind, argv[s + 1])}
        = IF Passes(o.kind, argv[s + 1]) THEN {o} ELSE {}
  BY <1>3
<1>8. Sets(s, FALSE) = (o.before \cup o.otherwise) \X {Default}
  BY <1>5, <1>6 DEF Sets
<1>9. CASE Passes(o.kind, argv[s + 1])
  BY <1>4, <1>7, <1>8, <1>9 DEF Sets
<1>10. CASE ~Passes(o.kind, argv[s + 1])
  BY <1>4, <1>7, <1>8, <1>10 DEF Sets
<1> QED
  BY <1>9, <1>10

\* What is none of these options sets nothing.
LEMMA NothingSets ==
  ASSUME NEW s, \A p \in OptionsWithOperand \cup Flags \cup OptionsThatMayTake : argv[s] \notin p.names,
         NEW b \in BOOLEAN
  PROVE  Sets(s, b) = {}
<1>1. {p \in OptionsWithOperand : argv[s] \in p.names /\ Passes(p.kind, argv[s + 1])} = {}
  OBVIOUS
<1>2. {p \in OptionsThatMayTake : argv[s] \in p.names /\ Passes(p.kind, argv[s + 1])} = {}
  OBVIOUS
<1>3. {p \in Flags : argv[s] \in p.names} = {} /\ {p \in OptionsThatMayTake : argv[s] \in p.names} = {}
  OBVIOUS
<1>4. CASE b
  BY <1>1, <1>2, <1>4 DEF Sets
<1>5. CASE ~b
  BY <1>3, <1>5 DEF Sets
<1> QED
  BY <1>4, <1>5

\* What an option that may take an operand takes is no option's name.
LEMMA TakenIsNoName ==
  ASSUME NEW o \in OptionsThatMayTake, NEW t, Passes(o.kind, t)
  PROVE  t \notin OptionNames
<1>1. o.kind \in {"positive", "port"}
  BY DEF OptionsThatMayTake
<1>2. t \in Numbers
  BY <1>1 DEF Passes, WordKinds
<1> QED
  BY <1>2, NamesAreNoNumbers

\* At one place, an option gives a field one value.
LEMMA SetsOnce ==
  ASSUME NEW s, NEW b \in BOOLEAN, NEW x \in Sets(s, b), NEW y \in Sets(s, b), x[1] = y[1]
  PROVE  x = y
<1>1. CASE \E o \in OptionsWithOperand : argv[s] \in o.names
  <2>1. PICK o \in OptionsWithOperand : argv[s] \in o.names
    BY <1>1
  <2>2. Sets(s, b) \subseteq {<<o.field, argv[s + 1]>>}
    <3>1. CASE b
      BY <2>1, <3>1, OptionSets
    <3>2. CASE ~b
      BY <2>1, <3>2, OptionSets
    <3> QED
      BY <3>1, <3>2
  <2> QED
    BY <2>2
<1>2. CASE \E o \in Flags : argv[s] \in o.names
  <2>1. PICK o \in Flags : argv[s] \in o.names
    BY <1>2
  <2>2. Sets(s, b) \subseteq {<<o.field, Default>>}
    <3>1. CASE b
      BY <2>1, <3>1, FlagSets
    <3>2. CASE ~b
      BY <2>1, <3>2, FlagSets
    <3> QED
      BY <3>1, <3>2
  <2> QED
    BY <2>2
<1>3. CASE \E o \in OptionsThatMayTake : argv[s] \in o.names
  <2>1. PICK o \in OptionsThatMayTake : argv[s] \in o.names
    BY <1>3
  <2>2. CASE b
    <3>1. x \in (o.before \ o.taken) \X {Default} \cup o.taken \X {argv[s + 1]}
      BY <2>1, <2>2, MayTakeSets
    <3>2. y \in (o.before \ o.taken) \X {Default} \cup o.taken \X {argv[s + 1]}
      BY <2>1, <2>2, MayTakeSets
    <3> QED
      BY <3>1, <3>2
  <2>3. CASE ~b
    <3>1. Sets(s, b) = (o.before \cup o.otherwise) \X {Default}
      BY <2>1, <2>3, MayTakeSets
    <3> QED
      BY <3>1
  <2> QED
    BY <2>2, <2>3
<1>4. CASE \A o \in OptionsWithOperand \cup Flags \cup OptionsThatMayTake : argv[s] \notin o.names
  BY <1>4, NothingSets
<1> QED
  BY <1>1, <1>2, <1>3, <1>4

(***************************************************************************)
(* What has been set before n, when the options stand at S: by operands of *)
(* the command, and by options, each with what is between it and the next. *)
(***************************************************************************)
Takes(S, s, n) == s + 1 < n /\ s + 1 \notin S
OperandsBelow(n) ==
  {<<k, <<Operands(Command)[k - 1].field, argv[k]>>>> : k \in {k \in 2 .. First - 1 : k < n}}
OptionsBelow(S, n) == UNION {{s} \X Sets(s, Takes(S, s, n)) : s \in S}
SettingsBelow(S, n) == OperandsBelow(n) \cup OptionsBelow(S, n)

\* a has what the last of the settings X give; all of them stand before n.
Gives(X, a, n) ==
  /\ a = [f \in DOMAIN a |-> a[f]]
  /\ \A x \in X : x[1] \in Int /\ x[1] < n
  /\ \A x, y \in X : x[1] = y[1] /\ x[2][1] = y[2][1] => x[2][2] = y[2][2]
  /\ \A x \in X : x[2][1] \in DOMAIN a
  /\ \A f \in DOMAIN a : \E x \in X :
       /\ x[2][1] = f /\ x[2][2] = a[f]
       /\ \A y \in X : y[2][1] = f => y[1] <= x[1]

\* The last of the settings is what a reading means.
LEMMA LastCounts ==
  ASSUME NEW X, NEW a, NEW n, Gives(X, a, n)
  PROVE  a = [f \in {x[2][1] : x \in X} |->
                (CHOOSE x \in X : /\ x[2][1] = f
                                  /\ \A y \in X : y[2][1] = f => y[1] <= x[1])[2][2]]
<1> DEFINE L(f) == CHOOSE x \in X : /\ x[2][1] = f
                                    /\ \A y \in X : y[2][1] = f => y[1] <= x[1]
           D == {x[2][1] : x \in X}
<1>1. ASSUME NEW f \in DOMAIN a PROVE a[f] = L(f)[2][2]
  <2>1. PICK x \in X : /\ x[2][1] = f /\ x[2][2] = a[f]
                       /\ \A y \in X : y[2][1] = f => y[1] <= x[1]
    BY DEF Gives
  <2>2. /\ L(f) \in X /\ L(f)[2][1] = f
        /\ \A y \in X : y[2][1] = f => y[1] <= L(f)[1]
    BY <2>1
  <2> HIDE DEF L
  <2>3. x[1] <= L(f)[1] /\ L(f)[1] <= x[1] /\ x[1] \in Int /\ L(f)[1] \in Int
    BY <2>1, <2>2 DEF Gives
  <2>4. x[1] = L(f)[1]
    BY <2>3
  <2> QED
    BY <2>1, <2>2, <2>4 DEF Gives
<1>2. DOMAIN a = D
  BY DEF Gives
<1>3. a = [f \in DOMAIN a |-> a[f]]
  BY DEF Gives
<1> HIDE DEF D, L
<1>4. a = [f \in D |-> L(f)[2][2]]
  BY <1>1, <1>2, <1>3
<1> QED
  BY <1>4 DEF D, L

\* What is set at n comes behind all that was set before.
LEMMA GivesMore ==
  ASSUME NEW n \in Int, NEW m \in Int, n < m, NEW X, NEW a, Gives(X, a, n), NEW Y,
         \A x, y \in Y : x[1] = y[1] => x[2] = y[2],
         NEW b, b = [f \in DOMAIN b |-> b[f]], DOMAIN b = DOMAIN a \cup {y[1] : y \in Y},
         \A y \in Y : b[y[1]] = y[2],
         \A f \in DOMAIN a : f \in {y[1] : y \in Y} \/ b[f] = a[f]
  PROVE  Gives(X \cup {n} \X Y, b, m)
<1> DEFINE Z == {n} \X Y
           F == {y[1] : y \in Y}
<1>1. \A z \in Z : z[1] = n /\ z[2] \in Y
  OBVIOUS
<1>2. \A y \in Y : \E z \in Z : z[2] = y
  <2> SUFFICES ASSUME NEW y \in Y PROVE \E z \in Z : z[2] = y
    OBVIOUS
  <2>1. <<n, y>> \in Z /\ <<n, y>>[2] = y
    OBVIOUS
  <2> QED
    BY <2>1
<1>3. \A y \in Y : y[1] \in F
  OBVIOUS
<1>4. \A f \in F : \E y \in Y : y[1] = f
  OBVIOUS
<1> HIDE DEF Z, F
<1>5. \A x \in X \cup Z : x[1] \in Int /\ x[1] < m
  BY <1>1 DEF Gives
<1>6. ASSUME NEW x \in X \cup Z, NEW y \in X \cup Z, x[1] = y[1], x[2][1] = y[2][1]
      PROVE  x[2][2] = y[2][2]
  <2>1. \A z \in X : z[1] # n
    BY DEF Gives
  <2>2. CASE x \in X /\ y \in X
    BY <1>6, <2>2 DEF Gives
  <2>3. CASE x \in Z /\ y \in Z
    BY <1>1, <1>6, <2>3
  <2> QED
    BY <1>1, <1>6, <2>1, <2>2, <2>3
<1>7. \A x \in X \cup Z : x[2][1] \in DOMAIN b
  BY <1>1, <1>3 DEF Gives, F
<1>8. ASSUME NEW f \in DOMAIN b
      PROVE  \E x \in X \cup Z : /\ x[2][1] = f /\ x[2][2] = b[f]
                                 /\ \A y \in X \cup Z : y[2][1] = f => y[1] <= x[1]
  <2>1. CASE f \in F
    <3>1. PICK y \in Y : y[1] = f
      BY <1>4, <2>1
    <3>2. PICK z \in Z : z[2] = y
      BY <1>2
    <3>3. z[1] = n /\ z[2][1] = f /\ z[2][2] = b[f]
      BY <1>1, <3>1, <3>2
    <3>4. \A x \in X \cup Z : x[1] <= n
      BY <1>1 DEF Gives
    <3> QED
      BY <3>3, <3>4
  <2>2. CASE f \notin F
    <3>1. f \in DOMAIN a /\ b[f] = a[f]
      BY <2>2 DEF F
    <3>2. PICK x \in X : /\ x[2][1] = f /\ x[2][2] = a[f]
                         /\ \A y \in X : y[2][1] = f => y[1] <= x[1]
      BY <3>1 DEF Gives
    <3>3. \A y \in Z : y[2][1] # f
      BY <1>1, <1>3, <2>2
    <3> QED
      BY <3>1, <3>2, <3>3
  <2> QED
    BY <2>1, <2>2
<1>9. Gives(X \cup Z, b, m)
  BY <1>5, <1>6, <1>7, <1>8 DEF Gives
<1> QED
  BY <1>9 DEF Z

\* An option at n, up to m, leaves the settings before it as they were.
LEMMA SettingsGrow ==
  ASSUME NEW n \in Int, NEW m \in {n + 1, n + 2}, First \in Int, First <= n,
         NEW S, S \subseteq First .. n - 1
  PROVE  SettingsBelow(S \cup {n}, m) = SettingsBelow(S, n) \cup {n} \X Sets(n, m = n + 2)
<1>1. \A s \in S : Takes(S \cup {n}, s, m) = Takes(S, s, n)
  BY DEF Takes
<1>2. Takes(S \cup {n}, n, m) = (m = n + 2)
  BY DEF Takes
<1>3. {k \in 2 .. First - 1 : k < m} = {k \in 2 .. First - 1 : k < n}
  OBVIOUS
<1>4. OperandsBelow(m) = OperandsBelow(n)
  BY <1>3 DEF OperandsBelow
<1>5. \A s \in S : {s} \X Sets(s, Takes(S \cup {n}, s, m)) = {s} \X Sets(s, Takes(S, s, n))
  BY <1>1
<1>6. {n} \X Sets(n, Takes(S \cup {n}, n, m)) = {n} \X Sets(n, m = n + 2)
  BY <1>2
<1>7. OptionsBelow(S \cup {n}, m) = OptionsBelow(S, n) \cup {n} \X Sets(n, m = n + 2)
  <2> DEFINE G(s) == {s} \X Sets(s, Takes(S \cup {n}, s, m))
             H(s) == {s} \X Sets(s, Takes(S, s, n))
             N == {n} \X Sets(n, m = n + 2)
  <2>1. (\A s \in S : G(s) = H(s)) /\ G(n) = N
    BY <1>5, <1>6
  <2>2. /\ OptionsBelow(S \cup {n}, m) = UNION {G(s) : s \in S \cup {n}}
        /\ OptionsBelow(S, n) = UNION {H(s) : s \in S}
    BY DEF OptionsBelow
  <2> HIDE DEF G, H, N
  <2>3. {G(s) : s \in S \cup {n}} = {H(s) : s \in S} \cup {N}
    BY <2>1
  <2>4. \A K : UNION (K \cup {N}) = (UNION K) \cup N
    OBVIOUS
  <2>5. OptionsBelow(S \cup {n}, m) = OptionsBelow(S, n) \cup N
    <3>1. OptionsBelow(S \cup {n}, m) = UNION ({H(s) : s \in S} \cup {N})
      BY <2>2, <2>3
    <3> QED
      BY <2>2, <2>4, <3>1
  <2> QED
    BY <2>5 DEF N
<1> QED
  BY <1>4, <1>7 DEF SettingsBelow

(***************************************************************************)
(* The parser on its way: S are the options it has seen, which read what   *)
(* is behind it; and every reading of the line agrees with it on that, and *)
(* has an option where the parser looks for one.                           *)
(***************************************************************************)
Walked(S) ==
  /\ S \subseteq First .. i - 1
  /\ command = Command /\ Command \in Commands
  /\ pc = "operands" => ~Implied /\ 2 <= i /\ i <= First /\ S = {}
  /\ pc = "options" => First <= i
  /\ \A k \in 2 .. First - 1 : k < i => Passes(Operands(Command)[k - 1].kind, argv[k])
  /\ \A j \in First .. i - 1 : j \in S \/ (j > First /\ j - 1 \in S)
  /\ \A s \in S : Sets(s, Takes(S, s, i)) # {}
  /\ Gives(SettingsBelow(S, i), args, i)

Readings == {r \in SUBSET (First .. Len(argv)) : IsReading(r)}
Agreed(S) ==
  \A r \in Readings :
    /\ r \cap (First .. i - 1) = S
    /\ pc = "options" /\ i <= Len(argv) => i \in r

ReadInv ==
  /\ pc = "command" => i = 1 /\ Gives({}, args, 1)
  /\ pc # "done" => result = "none"
  /\ pc \in {"operands", "options"} => \E S : Walked(S) /\ Agreed(S)
  /\ ReadAsWritten

\* Types of what the readings are made of.
LEMMA LineTypes ==
  ASSUME ParserTypeOK
  PROVE  /\ argv \in Seq(Tokens) /\ Len(argv) \in Nat /\ i \in Nat /\ i >= 1 /\ i <= Len(argv) + 1
         /\ First \in Nat /\ First >= 1
<1>0. argv \in Seq(Tokens) /\ i \in 1 .. Len(argv) + 1
  BY DEF ParserTypeOK
<1>1. Len(argv) \in Nat
  BY <1>0
<1>2. Len(Operands(Command)) \in Nat
  BY DEF Operands
<1>3. First \in Nat /\ First >= 1
  BY <1>2 DEF First
<1> QED
  BY <1>0, <1>1, <1>3

\* The line does not change, and neither do its readings.
LEMMA SameLine ==
  ASSUME UNCHANGED argv
  PROVE  /\ Implied' = Implied /\ Command' = Command /\ First' = First /\ Readings' = Readings
         /\ \A r : IsReading(r)' <=> IsReading(r)
         /\ \A r : Meaning(r)' = Meaning(r)
         /\ \A S, n : SettingsBelow(S, n)' = SettingsBelow(S, n)
         /\ \A s, b : Sets(s, b)' = Sets(s, b)
BY DEF Implied, Command, First, Readings, IsReading, Meaning, SettingsBelow, OperandsBelow,
   OptionsBelow, Sets, SetsIn, Takes

\* A line that cannot be read is refused.
LEMMA Refused ==
  ASSUME Return("error"), Readings = {}
  PROVE  ReadInv'
<1>1. pc' = "done" /\ result' = "error" /\ argv' = argv
  BY DEF Return
<1>2. Readings' = {}
  BY <1>1, SameLine
<1>3. ReadAsWritten'
  BY <1>1, <1>2 DEF ReadAsWritten, Readings
<1> QED
  BY <1>1, <1>3 DEF ReadInv

\* The parser reads an option at i, up to m, as every reading does.
LEMMA OptionRead ==
  ASSUME ParserTypeOK, ReadInv, pc = "options", NEW S, Walked(S), Agreed(S),
         i <= Len(argv), NEW m \in {i + 1, i + 2}, m <= Len(argv) + 1, i' = m,
         UNCHANGED <<argv, pc, command, result>>,
         NEW Y, Y = Sets(i, m = i + 2), Y # {},
         \A r \in Readings :
           IF m = i + 1 THEN i = Len(argv) \/ i + 1 \in r ELSE i + 1 \notin r,
         args' = [f \in DOMAIN args' |-> args'[f]],
         DOMAIN args' = DOMAIN args \cup {y[1] : y \in Y},
         \A y \in Y : args'[y[1]] = y[2],
         \A f \in DOMAIN args : f \in {y[1] : y \in Y} \/ args'[f] = args[f]
  PROVE  ReadInv'
<1>0. PICK T : T = S \cup {i}
  OBVIOUS
<1>1. /\ Len(argv) \in Nat /\ i \in Nat /\ i >= 1 /\ First \in Nat /\ First <= i
      /\ S \subseteq First .. i - 1 /\ m \in Nat
  BY LineTypes DEF Walked
<1>2. /\ Implied' = Implied /\ Command' = Command /\ First' = First /\ Readings' = Readings
      /\ SettingsBelow(T, m)' = SettingsBelow(T, m)
      /\ \A s, b : Sets(s, b)' = Sets(s, b)
  BY SameLine
<1>3. T \subseteq First .. m - 1
  BY <1>0, <1>1
<1>4. \A j \in First .. m - 1 : j \in T \/ (j > First /\ j - 1 \in T)
  <2> SUFFICES ASSUME NEW j \in First .. m - 1 PROVE j \in T \/ (j > First /\ j - 1 \in T)
    OBVIOUS
  <2>1. CASE j < i
    BY <1>0, <1>1, <2>1 DEF Walked
  <2>2. CASE j >= i
    BY <1>0, <1>1, <2>2
  <2> QED
    BY <1>1, <2>1, <2>2
<1>5. \A s \in T : Sets(s, Takes(T, s, m)) # {}
  <2>1. \A s \in S : Takes(T, s, m) = Takes(S, s, i)
    BY <1>0, <1>1 DEF Takes
  <2>2. Takes(T, i, m) = (m = i + 2)
    BY <1>0, <1>1 DEF Takes
  <2> QED
    BY <1>0, <2>1, <2>2 DEF Walked
<1>6. Gives(SettingsBelow(T, m), args', m)
  <2>1. SettingsBelow(T, m) = SettingsBelow(S, i) \cup {i} \X Y
    <3>1. SettingsBelow(S \cup {i}, m) = SettingsBelow(S, i) \cup {i} \X Sets(i, m = i + 2)
      BY <1>1, SettingsGrow
    <3> QED
      BY <1>0, <3>1
  <2>2. \A x, y \in Y : x[1] = y[1] => x[2] = y[2]
    <3>1. (m = i + 2) \in BOOLEAN
      OBVIOUS
    <3> QED
      BY <3>1, SetsOnce
  <2>3. Gives(SettingsBelow(S, i), args, i)
    BY DEF Walked
  <2>4. i \in Int /\ m \in Int /\ i < m
    BY <1>1
  <2> DEFINE X == SettingsBelow(S, i)
  <2> HIDE DEF X
  <2>5. Gives(X \cup {i} \X Y, args', m)
    BY <2>2, <2>3, <2>4, GivesMore DEF X
  <2> QED
    BY <2>1, <2>5 DEF X
<1>7. \A k \in 2 .. First - 1 : k < m => Passes(Operands(Command)[k - 1].kind, argv[k])
  BY <1>1 DEF Walked
<1>8. Walked(T)'
  <2>1. Gives(SettingsBelow(T, i), args, i)'
    <3>1. SettingsBelow(T, i)' = SettingsBelow(T, m)
      BY SameLine
    <3> QED
      BY <1>6, <3>1 DEF Gives
  <2>2. \A s \in T : (Sets(s, Takes(T, s, i)) # {})'
    BY <1>2, <1>5 DEF Takes
  <2>3. (\A k \in 2 .. First - 1 : k < i => Passes(Operands(Command)[k - 1].kind, argv[k]))'
    BY <1>2, <1>7
  <2> QED
    BY <1>1, <1>2, <1>3, <1>4, <2>1, <2>2, <2>3 DEF Walked
<1>9. Agreed(T)'
  <2> SUFFICES ASSUME NEW r \in Readings
               PROVE  r \cap (First .. m - 1) = T /\ (m <= Len(argv) => m \in r)
    BY <1>2 DEF Agreed
  <2>1. r \cap (First .. i - 1) = S /\ i \in r
    BY DEF Agreed
  <2>2. \A j \in First .. Len(argv) : j \in r \/ (j > First /\ j - 1 \in r)
    BY DEF Readings, IsReading
  <2>3. CASE m = i + 1
    <3>1. First .. m - 1 = (First .. i - 1) \cup {i}
      BY <1>1, <2>3
    <3>2. m <= Len(argv) => m \in r
      BY <1>1, <2>3
    <3> QED
      BY <1>0, <2>1, <3>1, <3>2
  <2>4. CASE m = i + 2
    <3>1. First .. m - 1 = (First .. i - 1) \cup {i} \cup {i + 1} /\ i + 1 \notin r
      BY <1>1, <2>4
    <3>2. m <= Len(argv) => m \in r
      BY <1>1, <2>2, <2>4, <3>1
    <3> QED
      BY <1>0, <2>1, <3>1, <3>2
  <2> QED
    BY <2>3, <2>4
<1>10. ReadAsWritten'
  BY DEF ReadInv, ReadAsWritten
<1> QED
  BY <1>8, <1>9, <1>10 DEF ReadInv

\* At the end of the line, what the parser has seen is the only reading.
LEMMA OneReading ==
  ASSUME ParserTypeOK, pc = "options", ~More, NEW S, Walked(S), Agreed(S)
  PROVE  Readings = {S} /\ args = Meaning(S)
<1>1. /\ Len(argv) \in Nat /\ i = Len(argv) + 1 /\ First \in Nat /\ First >= 1 /\ First <= i
      /\ S \subseteq First .. Len(argv)
  BY LineTypes DEF Walked, More
<1>2. \A s \in S : Takes(S, s, i) = (s < Len(argv) /\ s + 1 \notin S)
  BY <1>1 DEF Takes
<1>3. \A s \in S : Sets(s, Takes(S, s, i)) = SetsIn(S, s)
  BY <1>2 DEF SetsIn
<1>4. IsReading(S)
  <2>1. \A k \in 2 .. First - 1 : Passes(Operands(Command)[k - 1].kind, argv[k])
    BY <1>1 DEF Walked
  <2> QED
    BY <1>1, <1>3, <2>1 DEF Walked, IsReading
<1>5. Readings = {S}
  <2>1. S \in Readings
    BY <1>1, <1>4 DEF Readings
  <2>2. ASSUME NEW r \in Readings PROVE r = S
    <3>1. r \subseteq First .. Len(argv) /\ r \cap (First .. i - 1) = S
      BY DEF Readings, Agreed
    <3>2. First .. i - 1 = First .. Len(argv)
      BY <1>1
    <3> QED
      BY <3>1, <3>2
  <2> QED
    BY <2>1, <2>2
<1>6. args = Meaning(S)
  <2> DEFINE X == {<<k, <<Operands(Command)[k - 1].field, argv[k]>>>> : k \in 2 .. First - 1}
                    \cup UNION {{s} \X SetsIn(S, s) : s \in S}
  <2>1. SettingsBelow(S, i) = X
    <3>1. {k \in 2 .. First - 1 : k < i} = 2 .. First - 1
      BY <1>1
    <3>2. {{s} \X Sets(s, Takes(S, s, i)) : s \in S} = {{s} \X SetsIn(S, s) : s \in S}
      BY <1>3
    <3> QED
      BY <3>1, <3>2 DEF SettingsBelow, OperandsBelow, OptionsBelow
  <2>2. Gives(X, args, i)
    BY <2>1 DEF Walked
  <2>3. Meaning(S) = [f \in {x[2][1] : x \in X} |->
                        (CHOOSE x \in X : /\ x[2][1] = f
                                          /\ \A y \in X : y[2][1] = f => y[1] <= x[1])[2][2]]
    BY DEF Meaning
  <2> HIDE DEF X
  <2> QED
    BY <2>2, <2>3, LastCounts
<1> QED
  BY <1>5, <1>6

\* The line is at its end: it is accepted as it reads.
LEMMA ValidateReads ==
  ASSUME ParserTypeOK, ReadInv, Validate
  PROVE  ReadInv'
<1>1. /\ pc = "options" /\ ~More /\ pc' = "done"
      /\ result' = IF Conflict(command, args) THEN "error" ELSE "ok"
      /\ UNCHANGED <<argv, i, command, args>>
  BY DEF Validate, Return
<1>2. PICK S : Walked(S) /\ Agreed(S)
  BY <1>1 DEF ReadInv
<1>3. Readings = {S} /\ args = Meaning(S) /\ command = Command
  BY <1>1, <1>2, OneReading DEF Walked
<1>4. Readings' = {S} /\ Meaning(S)' = Meaning(S) /\ Command' = Command
  BY <1>1, <1>3, SameLine
<1>5. \A c, a : Conflict(c, a)' <=> Conflict(c, a)
  BY DEF Conflict, Given
<1>6. ReadAsWritten'
  <2>1. CASE Conflict(command, args)
    <3>1. result' = "error" /\ \A r \in Readings' : Conflict(Command', Meaning(r)')
      BY <1>1, <1>3, <1>4, <2>1
    <3> QED
      BY <1>5, <3>1 DEF ReadAsWritten, Readings
  <2>2. CASE ~Conflict(command, args)
    <3>1. /\ result' = "ok" /\ S \in Readings'
          /\ command' = Command' /\ args' = Meaning(S)' /\ ~Conflict(Command', Meaning(S)')
      BY <1>1, <1>3, <1>4, <2>2
    <3> QED
      BY <1>5, <3>1 DEF ReadAsWritten, Readings
  <2> QED
    BY <2>1, <2>2
<1> QED
  BY <1>1, <1>6 DEF ReadInv

\* Where the parser looks for an option, a reading has one, and its operand,
\* if it takes one, is between it and the next.
LEMMA OptionHere ==
  ASSUME ParserTypeOK, pc = "options", i <= Len(argv), NEW S, Walked(S), Agreed(S),
         NEW r \in Readings
  PROVE  /\ i \in r
         /\ Sets(i, i < Len(argv) /\ i + 1 \notin r) # {}
<1>1. i \in r
  BY DEF Agreed
<1>2. SetsIn(r, i) # {}
  BY <1>1 DEF Readings, IsReading
<1> QED
  BY <1>1, <1>2 DEF SetsIn

\* An option with its operand reads as one.
LEMMA TakeOptionReads ==
  ASSUME ParserTypeOK, ReadInv, NEW o \in OptionsWithOperand, TakeOption(o)
  PROVE  ReadInv'
<1>1. pc = "options" /\ i <= Len(argv) /\ argv[i] \in o.names
  BY DEF TakeOption, More
<1>2. PICK S : Walked(S) /\ Agreed(S)
  BY <1>1 DEF ReadInv
<1>3. /\ Sets(i, FALSE) = {}
      /\ Sets(i, TRUE) = IF Passes(o.kind, argv[i + 1]) THEN {<<o.field, argv[i + 1]>>} ELSE {}
  BY <1>1, OptionSets
<1>4. Len(argv) \in Nat /\ i \in Nat
  BY LineTypes
<1>5. ASSUME NEW r \in Readings
      PROVE  i < Len(argv) /\ i + 1 \notin r /\ Passes(o.kind, argv[i + 1])
  <2>1. Sets(i, i < Len(argv) /\ i + 1 \notin r) # {}
    BY <1>1, <1>2, OptionHere
  <2>2. i < Len(argv) /\ i + 1 \notin r
    <3>1. CASE i < Len(argv) /\ i + 1 \notin r
      BY <3>1
    <3>2. CASE ~(i < Len(argv) /\ i + 1 \notin r)
      <4>1. (i < Len(argv) /\ i + 1 \notin r) = FALSE
        BY <3>2
      <4> QED
        BY <1>3, <2>1, <4>1
    <3> QED
      BY <3>1, <3>2
  <2>3. (i < Len(argv) /\ i + 1 \notin r) = TRUE
    BY <2>2
  <2>4. Sets(i, TRUE) # {}
    BY <2>1, <2>3
  <2> QED
    BY <1>3, <2>2, <2>4
<1>6. CASE i < Len(argv) /\ Passes(o.kind, argv[i + 1])
  <2>1. /\ args' = With(args, {o.field}, argv[i + 1]) /\ i' = i + 2
        /\ UNCHANGED <<argv, pc, command, result>>
    BY <1>6 DEF TakeOption
  <2>2. PICK Y : Y = {<<o.field, argv[i + 1]>>}
    OBVIOUS
  <2>3. PICK m : m = i + 2
    OBVIOUS
  <2>4. Y = Sets(i, m = i + 2) /\ Y # {}
    <3>1. (m = i + 2) = TRUE
      BY <2>3
    <3> QED
      BY <1>3, <1>6, <2>2, <3>1
  <2>5. m \in {i + 1, i + 2} /\ m <= Len(argv) + 1 /\ i' = m
    BY <1>4, <1>6, <2>1, <2>3
  <2>6. \A r \in Readings :
          IF m = i + 1 THEN i = Len(argv) \/ i + 1 \in r ELSE i + 1 \notin r
    BY <1>4, <1>5, <2>3
  <2>7. {y[1] : y \in Y} = {o.field} /\ \A y \in Y : y[1] = o.field /\ y[2] = argv[i + 1]
    BY <2>2
  <2>8. /\ DOMAIN args' = DOMAIN args \cup {o.field}
        /\ \A f \in DOMAIN args \cup {o.field} :
             args'[f] = IF f = o.field THEN argv[i + 1] ELSE args[f]
        /\ args' = [f \in DOMAIN args' |-> args'[f]]
    BY <2>1 DEF With
  <2>9. /\ DOMAIN args' = DOMAIN args \cup {y[1] : y \in Y}
        /\ \A y \in Y : args'[y[1]] = y[2]
        /\ \A f \in DOMAIN args : f \in {y[1] : y \in Y} \/ args'[f] = args[f]
    BY <2>7, <2>8
  <2> QED
    BY <1>1, <1>2, <2>1, <2>4, <2>5, <2>6, <2>8, <2>9, OptionRead
<1>7. CASE ~(i < Len(argv) /\ Passes(o.kind, argv[i + 1]))
  <2>1. Return("error")
    BY <1>7 DEF TakeOption
  <2>2. Readings = {}
    BY <1>5, <1>7
  <2> QED
    BY <2>1, <2>2, Refused
<1> QED
  BY <1>6, <1>7

\* A flag reads as one.
LEMMA TakeFlagReads ==
  ASSUME ParserTypeOK, ReadInv, NEW o \in Flags, TakeFlag(o)
  PROVE  ReadInv'
<1>1. /\ pc = "options" /\ i <= Len(argv) /\ argv[i] \in o.names
      /\ args' = With(args, {o.field}, Default) /\ i' = i + 1
      /\ UNCHANGED <<argv, pc, command, result>>
  BY DEF TakeFlag, More
<1>2. PICK S : Walked(S) /\ Agreed(S)
  BY <1>1 DEF ReadInv
<1>3. Sets(i, FALSE) = {<<o.field, Default>>} /\ Sets(i, TRUE) = {}
  BY <1>1, FlagSets
<1>4. Len(argv) \in Nat /\ i \in Nat
  BY LineTypes
<1>5. ASSUME NEW r \in Readings PROVE i = Len(argv) \/ i + 1 \in r
  <2>1. Sets(i, i < Len(argv) /\ i + 1 \notin r) # {}
    BY <1>1, <1>2, OptionHere
  <2>2. CASE i < Len(argv) /\ i + 1 \notin r
    <3>1. (i < Len(argv) /\ i + 1 \notin r) = TRUE
      BY <2>2
    <3> QED
      BY <1>3, <2>1, <3>1
  <2>3. CASE ~(i < Len(argv) /\ i + 1 \notin r)
    BY <1>1, <1>4, <2>3
  <2> QED
    BY <2>2, <2>3
<1>6. PICK Y : Y = {<<o.field, Default>>}
  OBVIOUS
<1>7. PICK m : m = i + 1
  OBVIOUS
<1>8. Y = Sets(i, m = i + 2) /\ Y # {}
  <2>1. (m = i + 2) = FALSE
    BY <1>4, <1>7
  <2> QED
    BY <1>3, <1>6, <2>1
<1>9. m \in {i + 1, i + 2} /\ m <= Len(argv) + 1 /\ i' = m
  BY <1>1, <1>4, <1>7
<1>10. \A r \in Readings :
         IF m = i + 1 THEN i = Len(argv) \/ i + 1 \in r ELSE i + 1 \notin r
  BY <1>5, <1>7
<1>11. {y[1] : y \in Y} = {o.field} /\ \A y \in Y : y[1] = o.field /\ y[2] = Default
  BY <1>6
<1>12. /\ DOMAIN args' = DOMAIN args \cup {o.field}
       /\ \A f \in DOMAIN args \cup {o.field} : args'[f] = IF f = o.field THEN Default ELSE args[f]
       /\ args' = [f \in DOMAIN args' |-> args'[f]]
  BY <1>1 DEF With
<1>13. /\ DOMAIN args' = DOMAIN args \cup {y[1] : y \in Y}
       /\ \A y \in Y : args'[y[1]] = y[2]
       /\ \A f \in DOMAIN args : f \in {y[1] : y \in Y} \/ args'[f] = args[f]
  BY <1>11, <1>12
<1> QED
  BY <1>1, <1>2, <1>8, <1>9, <1>10, <1>12, <1>13, OptionRead

\* An option takes the next argument exactly if every reading gives it to it.
LEMMA MayTakeReads ==
  ASSUME ParserTypeOK, ReadInv, NEW o \in OptionsThatMayTake, MayTake(o)
  PROVE  ReadInv'
<1>1. pc = "options" /\ i <= Len(argv) /\ argv[i] \in o.names /\ UNCHANGED <<argv, pc, command, result>>
  BY DEF MayTake, More
<1>2. PICK S : Walked(S) /\ Agreed(S)
  BY <1>1 DEF ReadInv
<1>3. /\ Sets(i, FALSE) = (o.before \cup o.otherwise) \X {Default}
      /\ Sets(i, TRUE) = IF Passes(o.kind, argv[i + 1])
                         THEN (o.before \ o.taken) \X {Default} \cup o.taken \X {argv[i + 1]}
                         ELSE {}
  BY <1>1, MayTakeSets
<1>4. Len(argv) \in Nat /\ i \in Nat /\ First \in Nat
  BY LineTypes
<1>5. CASE i < Len(argv) /\ Passes(o.kind, argv[i + 1])
  <2>1. args' = With(With(args, o.before, Default), o.taken, argv[i + 1]) /\ i' = i + 2
    BY <1>5 DEF MayTake
  <2>2. PICK Y : Y = (o.before \ o.taken) \X {Default} \cup o.taken \X {argv[i + 1]}
    OBVIOUS
  <2>3. PICK m : m = i + 2
    OBVIOUS
  <2>4. \A y \in Y : \/ y[1] \in o.before \ o.taken /\ y[2] = Default
                     \/ y[1] \in o.taken /\ y[2] = argv[i + 1]
    BY <2>2
  <2>5. \A f \in o.before \cup o.taken : \E y \in Y : y[1] = f
    <3>1. ASSUME NEW f \in o.before \ o.taken PROVE \E y \in Y : y[1] = f
      <4>1. <<f, Default>> \in Y
        BY <2>2
      <4> QED
        BY <4>1
    <3>2. ASSUME NEW f \in o.taken PROVE \E y \in Y : y[1] = f
      <4>1. <<f, argv[i + 1]>> \in Y
        BY <2>2
      <4> QED
        BY <4>1
    <3> QED
      BY <3>1, <3>2
  <2>6. Y = Sets(i, m = i + 2) /\ Y # {}
    <3>1. (m = i + 2) = TRUE
      BY <2>3
    <3>2. o.taken # {}
      BY DEF OptionsThatMayTake
    <3> QED
      BY <1>3, <1>5, <2>2, <2>5, <3>1, <3>2
  <2>7. m \in {i + 1, i + 2} /\ m <= Len(argv) + 1 /\ i' = m
    BY <1>4, <1>5, <2>1, <2>3
  <2>8. ASSUME NEW r \in Readings PROVE i + 1 \notin r
    <3>1. argv[i + 1] \notin OptionNames
      BY <1>5, TakenIsNoName
    <3>2. \A p \in OptionsWithOperand \cup Flags \cup OptionsThatMayTake : argv[i + 1] \notin p.names
      BY <3>1 DEF OptionNames
    <3>3. \A b \in BOOLEAN : Sets(i + 1, b) = {}
      BY <3>2, NothingSets
    <3>4. SetsIn(r, i + 1) = {}
      BY <3>3 DEF SetsIn
    <3> QED
      BY <3>4 DEF Readings, IsReading
  <2>9. \A r \in Readings :
          IF m = i + 1 THEN i = Len(argv) \/ i + 1 \in r ELSE i + 1 \notin r
    BY <1>4, <2>3, <2>8
  <2>10. /\ DOMAIN args' = DOMAIN args \cup o.before \cup o.taken
         /\ \A f \in DOMAIN args \cup o.before \cup o.taken :
              args'[f] = IF f \in o.taken THEN argv[i + 1]
                         ELSE IF f \in o.before THEN Default ELSE args[f]
         /\ args' = [f \in DOMAIN args' |-> args'[f]]
    BY <2>1 DEF With
  <2>11. {y[1] : y \in Y} = o.before \cup o.taken
    BY <2>4, <2>5
  <2>12. /\ DOMAIN args' = DOMAIN args \cup {y[1] : y \in Y}
         /\ \A f \in DOMAIN args : f \in {y[1] : y \in Y} \/ args'[f] = args[f]
    BY <2>10, <2>11
  <2>13. \A y \in Y : args'[y[1]] = y[2]
    BY <2>4, <2>10
  <2> QED
    BY <1>1, <1>2, <2>6, <2>7, <2>9, <2>10, <2>12, <2>13, OptionRead
<1>6. CASE ~(i < Len(argv) /\ Passes(o.kind, argv[i + 1]))
  <2>1. args' = With(args, o.before \cup o.otherwise, Default) /\ i' = i + 1
    BY <1>6 DEF MayTake
  <2>2. PICK Y : Y = (o.before \cup o.otherwise) \X {Default}
    OBVIOUS
  <2>3. PICK m : m = i + 1
    OBVIOUS
  <2>4. \A y \in Y : y[1] \in o.before \cup o.otherwise /\ y[2] = Default
    BY <2>2
  <2>5. ASSUME NEW f \in o.before \cup o.otherwise PROVE \E y \in Y : y[1] = f
    <3>1. <<f, Default>> \in Y
      BY <2>2
    <3> QED
      BY <3>1
  <2>6. Y = Sets(i, m = i + 2) /\ Y # {}
    <3>1. (m = i + 2) = FALSE
      BY <1>4, <2>3
    <3>2. o.before \cup o.otherwise # {}
      BY DEF OptionsThatMayTake
    <3> QED
      BY <1>3, <2>2, <2>5, <3>1, <3>2
  <2>7. m \in {i + 1, i + 2} /\ m <= Len(argv) + 1 /\ i' = m
    BY <1>1, <1>4, <2>1, <2>3
  <2>8. ASSUME NEW r \in Readings PROVE i = Len(argv) \/ i + 1 \in r
    <3>1. Sets(i, i < Len(argv) /\ i + 1 \notin r) # {}
      BY <1>1, <1>2, OptionHere
    <3>2. CASE i < Len(argv) /\ i + 1 \notin r
      <4>1. (i < Len(argv) /\ i + 1 \notin r) = TRUE
        BY <3>2
      <4>2. Sets(i, TRUE) # {}
        BY <3>1, <4>1
      <4> QED
        BY <1>3, <1>6, <3>2, <4>2
    <3>3. CASE ~(i < Len(argv) /\ i + 1 \notin r)
      BY <1>1, <1>4, <3>3
    <3> QED
      BY <3>2, <3>3
  <2>9. \A r \in Readings :
          IF m = i + 1 THEN i = Len(argv) \/ i + 1 \in r ELSE i + 1 \notin r
    BY <2>3, <2>8
  <2>10. /\ DOMAIN args' = DOMAIN args \cup o.before \cup o.otherwise
         /\ \A f \in DOMAIN args \cup o.before \cup o.otherwise :
              args'[f] = IF f \in o.before \cup o.otherwise THEN Default ELSE args[f]
         /\ args' = [f \in DOMAIN args' |-> args'[f]]
    BY <2>1 DEF With
  <2>11. {y[1] : y \in Y} = o.before \cup o.otherwise
    BY <2>4, <2>5
  <2>12. /\ DOMAIN args' = DOMAIN args \cup {y[1] : y \in Y}
         /\ \A f \in DOMAIN args : f \in {y[1] : y \in Y} \/ args'[f] = args[f]
    BY <2>10, <2>11
  <2>13. \A y \in Y : args'[y[1]] = y[2]
    BY <2>4, <2>10
  <2> QED
    BY <1>1, <1>2, <2>6, <2>7, <2>9, <2>10, <2>12, <2>13, OptionRead
<1> QED
  BY <1>5, <1>6

\* Where nothing is an option that should be one, the line cannot be read.
LEMMA UnexpectedReads ==
  ASSUME ParserTypeOK, ReadInv, Unexpected
  PROVE  ReadInv'
<1>1. pc = "options" /\ i <= Len(argv) /\ argv[i] \notin OptionNames /\ Return("error")
  BY DEF Unexpected, More
<1>2. PICK S : Walked(S) /\ Agreed(S)
  BY <1>1 DEF ReadInv
<1>3. \A p \in OptionsWithOperand \cup Flags \cup OptionsThatMayTake : argv[i] \notin p.names
  BY <1>1 DEF OptionNames
<1>4. \A b \in BOOLEAN : Sets(i, b) = {}
  BY <1>3, NothingSets
<1>5. ASSUME NEW r \in Readings PROVE FALSE
  <2>1. Sets(i, i < Len(argv) /\ i + 1 \notin r) # {}
    BY <1>1, <1>2, OptionHere
  <2>2. (i < Len(argv) /\ i + 1 \notin r) \in BOOLEAN
    OBVIOUS
  <2> QED
    BY <1>4, <2>1, <2>2
<1> QED
  BY <1>1, <1>5, Refused

\* Before the operands nothing has been set.
LEMMA NothingBelow ==
  ASSUME NEW n \in {1, 2}
  PROVE  SettingsBelow({}, n) = {}
<1>1. OperandsBelow(n) = {}
  <2>1. {k \in 2 .. First - 1 : k < n} = {}
    OBVIOUS
  <2> QED
    BY <2>1 DEF OperandsBelow
<1>2. OptionsBelow({}, n) = {}
  BY DEF OptionsBelow
<1> QED
  BY <1>1, <1>2 DEF SettingsBelow

\* Before a word is read nothing is set, and nothing is said.
LEMMA InitReads == ParserInit => ReadInv
<1> SUFFICES ASSUME ParserInit PROVE ReadInv
  OBVIOUS
<1>1. args = << >> /\ pc = "command" /\ i = 1 /\ result = "none"
  BY DEF ParserInit
<1>2. Gives({}, args, 1)
  BY <1>1 DEF Gives
<1> QED
  BY <1>1, <1>2 DEF ReadInv, ReadAsWritten

\* A line without a command is a list's.
LEMMA DefaultCommandReads ==
  ASSUME ParserTypeOK, ReadInv, DefaultCommand
  PROVE  ReadInv'
<1>1. /\ pc = "command" /\ i = 1 /\ (More => argv[1] \in Dashed)
      /\ command' = "list" /\ pc' = "options" /\ UNCHANGED <<argv, i, args, result>>
      /\ Gives({}, args, 1)
  BY DEF DefaultCommand, ReadInv
<1>2. Len(argv) \in Nat /\ argv \in Seq(Tokens)
  BY LineTypes
<1>3. Implied
  BY <1>1, <1>2, EmptySeq DEF More, Implied
<1>4. Command = "list" /\ First = 1
  BY <1>3 DEF Command, First
<1>5. Implied' = Implied /\ Command' = Command /\ First' = First /\ Readings' = Readings
  BY <1>1, SameLine
<1>6. Walked({})'
  <2>1. Gives(SettingsBelow({}, i), args, i)'
    <3>1. SettingsBelow({}, i)' = {}
      <4>1. SettingsBelow({}, i)' = SettingsBelow({}, 1)
        BY <1>1, SameLine
      <4> QED
        BY <4>1, NothingBelow
    <3> QED
      BY <1>1, <3>1 DEF Gives
  <2> QED
    BY <1>1, <1>4, <1>5, <2>1 DEF Walked, Commands
<1>7. Agreed({})'
  <2> SUFFICES ASSUME NEW r \in Readings
               PROVE  r \cap (1 .. 0) = {} /\ (1 <= Len(argv) => 1 \in r)
    BY <1>1, <1>4, <1>5 DEF Agreed
  <2>1. 1 <= Len(argv) => 1 \in r
    BY <1>2, <1>4 DEF Readings, IsReading
  <2> QED
    BY <2>1
<1>8. ReadAsWritten'
  BY <1>1 DEF ReadInv, ReadAsWritten
<1> QED
  BY <1>1, <1>6, <1>7, <1>8 DEF ReadInv

\* The first word is the command, of which the operands follow.
LEMMA TakeCommandReads ==
  ASSUME ParserTypeOK, ReadInv, TakeCommand
  PROVE  ReadInv'
<1>1. /\ pc = "command" /\ i = 1 /\ 1 <= Len(argv) /\ argv[1] \in Commands \ Dashed
      /\ command' = argv[1] /\ i' = 2 /\ pc' = "operands" /\ UNCHANGED <<argv, args, result>>
      /\ Gives({}, args, 1)
  BY DEF TakeCommand, ReadInv, More
<1>2. Len(argv) \in Nat /\ argv \in Seq(Tokens)
  BY LineTypes
<1>3. ~Implied /\ Command = argv[1]
  BY <1>1, <1>2 DEF Implied, Command
<1>4. Len(Operands(Command)) \in Nat
  BY DEF Operands
<1>5. First = 2 + Len(Operands(Command)) /\ First >= 2 /\ First \in Nat
  BY <1>3, <1>4 DEF First
<1>6. Implied' = Implied /\ Command' = Command /\ First' = First /\ Readings' = Readings
  BY <1>1, SameLine
<1>7. Walked({})'
  <2>1. Gives(SettingsBelow({}, i), args, i)'
    <3>1. SettingsBelow({}, i)' = {}
      <4>1. SettingsBelow({}, i)' = SettingsBelow({}, 2)
        BY <1>1, SameLine
      <4> QED
        BY <4>1, NothingBelow
    <3> QED
      BY <1>1, <3>1 DEF Gives
  <2>2. First' .. i' - 1 = {}
    BY <1>1, <1>5, <1>6
  <2>3. \A k \in 2 .. First' - 1 : ~(k < i')
    BY <1>1, <1>5, <1>6
  <2> QED
    BY <1>1, <1>3, <1>5, <1>6, <2>1, <2>2, <2>3 DEF Walked
<1>8. Agreed({})'
  <2>1. First' .. i' - 1 = {}
    BY <1>1, <1>5, <1>6
  <2> QED
    BY <1>1, <2>1 DEF Agreed
<1>9. ReadAsWritten'
  BY <1>1 DEF ReadInv, ReadAsWritten
<1> QED
  BY <1>1, <1>7, <1>8, <1>9 DEF ReadInv

\* A word that is no command begins no line.
LEMMA OtherCommandReads ==
  ASSUME ParserTypeOK, ReadInv, OtherCommand
  PROVE  ReadInv'
<1>1. /\ pc = "command" /\ i = 1 /\ 1 <= Len(argv) /\ argv[1] \notin Commands \cup Dashed
      /\ \/ Return("help")
         \/ Return("error")
  BY DEF OtherCommand, ReadInv, More
<1>2. Len(argv) \in Nat /\ argv \in Seq(Tokens)
  BY LineTypes
<1>3. Command \notin Commands
  BY <1>1, <1>2 DEF Implied, Command
<1>4. Readings = {}
  BY <1>3 DEF Readings, IsReading
<1>5. CASE Return("help")
  BY <1>5 DEF Return, ReadInv, ReadAsWritten
<1> QED
  BY <1>1, <1>4, <1>5, Refused

\* An operand is read as one, or the line cannot be read.
LEMMA TakeOperandReads ==
  ASSUME ParserTypeOK, ReadInv, TakeOperand
  PROVE  ReadInv'
<1>1. pc = "operands" /\ i - 1 <= Len(Operands(command))
  BY DEF TakeOperand
<1>2. PICK S : Walked(S) /\ Agreed(S)
  BY <1>1 DEF ReadInv
<1>3. S = {} /\ ~Implied /\ 2 <= i /\ i <= First /\ command = Command
  BY <1>1, <1>2 DEF Walked
<1>4. Len(argv) \in Nat /\ i \in Nat /\ First \in Nat
  BY LineTypes
<1>5. First = 2 + Len(Operands(Command)) /\ Len(Operands(Command)) \in Nat
  BY <1>3 DEF First, Operands
<1>6. i \in 2 .. First - 1
  BY <1>1, <1>3, <1>4, <1>5
<1> DEFINE o == Operands(command)[i - 1]
<1>7. CASE More /\ Passes(o.kind, argv[i])
  <2>1. /\ args' = With(args, {o.field}, argv[i]) /\ i' = i + 1
        /\ UNCHANGED <<argv, pc, command, result>>
    BY <1>7 DEF TakeOperand
  <2>2. /\ Implied' = Implied /\ Command' = Command /\ First' = First /\ Readings' = Readings
        /\ \A n : SettingsBelow({}, n)' = SettingsBelow({}, n)
    BY <2>1, SameLine
  <2>3. PICK Y : Y = {<<o.field, argv[i]>>}
    OBVIOUS
  <2>4. SettingsBelow({}, i + 1) = SettingsBelow({}, i) \cup {i} \X Y
    <3>1. {k \in 2 .. First - 1 : k < i + 1} = {k \in 2 .. First - 1 : k < i} \cup {i}
      BY <1>4, <1>6
    <3> DEFINE E(k) == <<k, <<Operands(Command)[k - 1].field, argv[k]>>>>
    <3>2. E(i) = <<i, <<o.field, argv[i]>>>>
      BY <1>3
    <3>3. {i} \X Y = {E(i)}
      BY <2>3, <3>2
    <3>4. \A n : OperandsBelow(n) = {E(k) : k \in {k \in 2 .. First - 1 : k < n}}
      BY DEF OperandsBelow
    <3>5. \A n : OptionsBelow({}, n) = {}
      BY DEF OptionsBelow
    <3> HIDE DEF E
    <3>6. OperandsBelow(i + 1) = OperandsBelow(i) \cup {E(i)}
      BY <3>1, <3>4
    <3> QED
      BY <3>3, <3>5, <3>6 DEF SettingsBelow
  <2>5. Gives(SettingsBelow({}, i + 1), args', i + 1)
    <3>1. Gives(SettingsBelow({}, i), args, i)
      BY <1>2, <1>3 DEF Walked
    <3>2. /\ \A x, y \in Y : x[1] = y[1] => x[2] = y[2]
          /\ {y[1] : y \in Y} = {o.field}
          /\ \A y \in Y : y[1] = o.field /\ y[2] = argv[i]
      BY <2>3
    <3>3. /\ DOMAIN args' = DOMAIN args \cup {o.field}
          /\ \A f \in DOMAIN args \cup {o.field} : args'[f] = IF f = o.field THEN argv[i] ELSE args[f]
          /\ args' = [f \in DOMAIN args' |-> args'[f]]
      BY <2>1 DEF With
    <3>4. /\ DOMAIN args' = DOMAIN args \cup {y[1] : y \in Y}
          /\ \A y \in Y : args'[y[1]] = y[2]
          /\ \A f \in DOMAIN args : f \in {y[1] : y \in Y} \/ args'[f] = args[f]
      BY <3>2, <3>3
    <3>5. i \in Int /\ i + 1 \in Int /\ i < i + 1
      BY <1>4
    <3> DEFINE X == SettingsBelow({}, i)
    <3> HIDE DEF X
    <3>6. Gives(X \cup {i} \X Y, args', i + 1)
      BY <3>1, <3>2, <3>3, <3>4, <3>5, GivesMore DEF X
    <3> QED
      BY <2>4, <3>6 DEF X
  <2>6. Walked({})'
    <3>1. Gives(SettingsBelow({}, i), args, i)'
      <4>1. SettingsBelow({}, i)' = SettingsBelow({}, i + 1)
        BY <2>1, SameLine
      <4>2. i' = i + 1
        BY <2>1
      <4> QED
        BY <2>5, <4>1, <4>2 DEF Gives
    <3>2. First' .. i' - 1 = {} /\ 2 <= i' /\ i' <= First'
      BY <1>4, <1>6, <2>1, <2>2
    <3>3. \A k \in 2 .. First' - 1 : k < i' => Passes(Operands(Command')[k - 1].kind, argv'[k])
      <4> SUFFICES ASSUME NEW k \in 2 .. First - 1, k < i + 1
                   PROVE  Passes(Operands(Command)[k - 1].kind, argv[k])
        BY <2>1, <2>2
      <4>1. CASE k = i
        BY <1>3, <1>7, <4>1
      <4>2. CASE k < i
        BY <1>2, <4>2 DEF Walked
      <4> QED
        BY <1>4, <4>1, <4>2
    <3>4. /\ command' = Command' /\ Command' \in Commands
          /\ pc' = "operands" /\ ~Implied'
      BY <1>1, <1>2, <1>3, <2>1, <2>2 DEF Walked
    <3> QED
      BY <3>1, <3>2, <3>3, <3>4 DEF Walked
  <2>7. Agreed({})'
    <3>1. First' .. i' - 1 = {} /\ pc' = "operands"
      BY <1>1, <1>4, <1>6, <2>1, <2>2
    <3> QED
      BY <3>1 DEF Agreed
  <2>8. ReadAsWritten'
    BY <1>1, <2>1 DEF ReadInv, ReadAsWritten
  <2> QED
    BY <1>1, <2>1, <2>6, <2>7, <2>8 DEF ReadInv
<1>8. CASE ~(More /\ Passes(o.kind, argv[i]))
  <2>1. Return("error")
    BY <1>8 DEF TakeOperand
  <2>2. ASSUME NEW r \in Readings PROVE FALSE
    <3>1. First <= Len(argv) + 1 /\ Passes(Operands(Command)[i - 1].kind, argv[i])
      BY <1>6 DEF Readings, IsReading
    <3> QED
      BY <1>3, <1>4, <1>6, <1>8, <3>1 DEF More
  <2> QED
    BY <2>1, <2>2, Refused
<1> QED
  BY <1>7, <1>8

\* Behind the last operand there is an option, or nothing.
LEMMA EndOperandsReads ==
  ASSUME ParserTypeOK, ReadInv, EndOperands
  PROVE  ReadInv'
<1>1. /\ pc = "operands" /\ i - 1 > Len(Operands(command)) /\ pc' = "options"
      /\ UNCHANGED <<argv, i, command, args, result>>
  BY DEF EndOperands
<1>2. PICK S : Walked(S) /\ Agreed(S)
  BY <1>1 DEF ReadInv
<1>3. S = {} /\ ~Implied /\ 2 <= i /\ i <= First /\ command = Command
  BY <1>1, <1>2 DEF Walked
<1>4. Len(argv) \in Nat /\ i \in Nat /\ First \in Nat
  BY LineTypes
<1>5. First = 2 + Len(Operands(Command)) /\ Len(Operands(Command)) \in Nat
  BY <1>3 DEF First, Operands
<1>6. i = First
  BY <1>1, <1>3, <1>4, <1>5
<1>7. /\ Implied' = Implied /\ Command' = Command /\ First' = First /\ Readings' = Readings
      /\ \A n : SettingsBelow(S, n)' = SettingsBelow(S, n)
  BY <1>1, SameLine
<1>8. Walked(S)'
  <2>1. Gives(SettingsBelow(S, i), args, i)'
    BY <1>1, <1>2, <1>7 DEF Walked, Gives
  <2> QED
    BY <1>1, <1>2, <1>3, <1>6, <1>7, <2>1 DEF Walked
<1>9. Agreed(S)'
  <2> SUFFICES ASSUME NEW r \in Readings
               PROVE  r \cap (First .. i - 1) = S /\ (i <= Len(argv) => i \in r)
    BY <1>1, <1>7 DEF Agreed
  <2>1. r \cap (First .. i - 1) = S
    BY <1>2 DEF Agreed
  <2>2. i <= Len(argv) => i \in r
    BY <1>4, <1>6 DEF Readings, IsReading
  <2> QED
    BY <2>1, <2>2
<1>10. ReadAsWritten'
  BY <1>1 DEF ReadInv, ReadAsWritten
<1> QED
  BY <1>1, <1>8, <1>9, <1>10 DEF ReadInv

\* What has been read is read as every reading reads it, argument by argument.
LEMMA ReadStep == ParserTypeOK /\ ReadInv /\ [ParserNext]_parserVars => ReadInv'
<1> SUFFICES ASSUME ParserTypeOK, ReadInv, [ParserNext]_parserVars PROVE ReadInv'
  OBVIOUS
<1>1. CASE DefaultCommand
  BY <1>1, DefaultCommandReads
<1>2. CASE TakeCommand
  BY <1>2, TakeCommandReads
<1>3. CASE OtherCommand
  BY <1>3, OtherCommandReads
<1>4. CASE TakeOperand
  BY <1>4, TakeOperandReads
<1>5. CASE EndOperands
  BY <1>5, EndOperandsReads
<1>6. CASE AskHelp
  BY <1>6 DEF AskHelp, Return, ReadInv, ReadAsWritten
<1>7. CASE Unexpected
  BY <1>7, UnexpectedReads
<1>8. ASSUME NEW o \in OptionsWithOperand, TakeOption(o) PROVE ReadInv'
  BY <1>8, TakeOptionReads
<1>9. ASSUME NEW o \in Flags, TakeFlag(o) PROVE ReadInv'
  BY <1>9, TakeFlagReads
<1>10. ASSUME NEW o \in OptionsThatMayTake, MayTake(o) PROVE ReadInv'
  BY <1>10, MayTakeReads
<1>11. CASE Validate
  BY <1>11, ValidateReads
<1>12. CASE UNCHANGED parserVars
  <2>1. UNCHANGED <<argv, pc, i, command, args, result>>
    BY <1>12 DEF parserVars
  <2>2. /\ Implied' = Implied /\ Command' = Command /\ First' = First /\ Readings' = Readings
        /\ \A S, n : SettingsBelow(S, n)' = SettingsBelow(S, n)
        /\ \A s, b : Sets(s, b)' = Sets(s, b)
        /\ \A r : Meaning(r)' = Meaning(r)
    BY <2>1, SameLine
  <2>3. \A S : Walked(S) => Walked(S)'
    BY <2>1, <2>2 DEF Walked, Takes, Gives
  <2>4. \A S : Agreed(S) => Agreed(S)'
    BY <2>1, <2>2 DEF Agreed
  <2>5. ReadAsWritten'
    <3>1. \A c, a : Conflict(c, a)' <=> Conflict(c, a)
      BY DEF Conflict, Given
    <3> QED
      BY <2>1, <2>2, <3>1 DEF ReadInv, ReadAsWritten, Readings
  <2> QED
    BY <2>1, <2>3, <2>4, <2>5 DEF ReadInv
<1> QED
  BY <1>1, <1>2, <1>3, <1>4, <1>5, <1>6, <1>7, <1>8, <1>9, <1>10, <1>11, <1>12
     DEF ParserNext, Done

\* A line is typed and read at every moment.
LEMMA ReadInvariance == ParserSpec => [](ParserTypeOK /\ ReadInv)
<1>1. ParserInit => ReadInv
  BY InitReads
<1>2. ParserTypeOK /\ ReadInv /\ [ParserNext]_parserVars => ReadInv'
  BY ReadStep
<1>3. ParserSpec => []ParserTypeOK
  BY ParserTypeCorrect
<1> QED
  BY <1>1, <1>2, <1>3, PTL DEF ParserSpec

\* The parser reads a line as its grammar does: it accepts exactly the lines
\* that have a reading whose fields go together, and keeps the values which
\* that reading gives, whatever the line (parseCommandLine, args.cpp:219-791).
THEOREM LineReadAsWritten == ParserSpec => []ReadAsWritten
<1>1. ReadInv => ReadAsWritten
  BY DEF ReadInv
<1> QED
  BY <1>1, ReadInvariance, PTL

\* A line that is accepted can be read in one way only (parseCommandLine,
\* args.cpp:219-791).
AcceptedUnambiguous ==
  result = "ok" => \A r, q \in Readings : r = q

\* Only the validation accepts, and there the one reading is what was seen.
LEMMA AcceptedStep ==
  ParserTypeOK /\ ReadInv /\ AcceptedUnambiguous /\ [ParserNext]_parserVars => AcceptedUnambiguous'
<1> SUFFICES ASSUME ParserTypeOK, ReadInv, AcceptedUnambiguous, [ParserNext]_parserVars,
                    result' = "ok"
             PROVE  \A r, q \in Readings' : r = q
  BY DEF AcceptedUnambiguous
<1>1. UNCHANGED argv
  BY DEF ParserNext, DefaultCommand, TakeCommand, OtherCommand, TakeOperand, EndOperands, AskHelp,
         Unexpected, TakeOption, TakeFlag, MayTake, Validate, Done, Return, parserVars
<1>2. Readings' = Readings
  BY <1>1, SameLine
<1>3. CASE Validate
  <2>1. pc = "options" /\ ~More
    BY <1>3 DEF Validate
  <2>2. PICK S : Walked(S) /\ Agreed(S)
    BY <2>1 DEF ReadInv
  <2>3. Readings = {S}
    BY <2>1, <2>2, OneReading
  <2> QED
    BY <1>2, <2>3
<1>4. CASE ~Validate
  <2>1. result = "ok"
    BY <1>4 DEF ParserNext, DefaultCommand, TakeCommand, OtherCommand, TakeOperand, EndOperands,
                AskHelp, Unexpected, TakeOption, TakeFlag, MayTake, Done, Return, parserVars
  <2> QED
    BY <1>2, <2>1 DEF AcceptedUnambiguous
<1> QED
  BY <1>3, <1>4

\* An accepted line has one reading, hence one meaning: that an option may
\* take the next argument or leave it (--watch, --perf, --network) and that
\* the command may be left out makes nothing ambiguous (args.cpp:219-791).
THEOREM OneWayToRead == ParserSpec => []AcceptedUnambiguous
<1>1. ParserInit => AcceptedUnambiguous
  BY DEF ParserInit, AcceptedUnambiguous
<1> QED
  BY <1>1, AcceptedStep, ReadInvariance, PTL DEF ParserSpec

(***************************************************************************)
(* How far the parser is: no step takes it back, and every step but the    *)
(* wait at the end takes it on, to the next argument or to the next stage. *)
(* Whatever is typed, a line of n arguments takes it n + 3 steps at most.  *)
(***************************************************************************)
Stage == CASE pc = "command" -> 0 [] pc = "operands" -> 1 [] pc = "options" -> 2 [] OTHER -> 3
LineGoesOn == Stage' >= Stage /\ i' >= i /\ (Stage' > Stage \/ i' > i)

\* The loop of parseCommandLine always consumes: every step but the wait at the
\* end goes to a later argument or a later stage (args.cpp:219-791).
THEOREM NoArgumentTwice == ParserSpec => [][LineGoesOn]_parserVars
<1>1. ASSUME ParserTypeOK, [ParserNext]_parserVars PROVE [LineGoesOn]_parserVars
  <2>0. i \in Nat
    BY <1>1, LineTypes
  <2>1. CASE DefaultCommand
    BY <2>0, <2>1 DEF DefaultCommand, LineGoesOn, Stage
  <2>2. CASE TakeCommand
    BY <2>0, <2>2 DEF TakeCommand, LineGoesOn, Stage
  <2>3. CASE OtherCommand \/ AskHelp \/ Unexpected \/ Validate
    BY <2>0, <2>3 DEF OtherCommand, AskHelp, Unexpected, Validate, Return, LineGoesOn, Stage
  <2>4. CASE TakeOperand
    <3>1. pc = "operands"
      BY <2>4 DEF TakeOperand
    <3>2. (pc' = pc /\ i' = i + 1) \/ (pc' = "done" /\ i' = i)
      BY <2>4 DEF TakeOperand, Return
    <3> QED
      BY <2>0, <3>1, <3>2 DEF LineGoesOn, Stage
  <2>5. CASE EndOperands
    BY <2>0, <2>5 DEF EndOperands, LineGoesOn, Stage
  <2>6. CASE \E o \in OptionsWithOperand : TakeOption(o)
    <3>1. pc = "options"
      BY <2>6 DEF TakeOption
    <3>2. (pc' = pc /\ i' = i + 2) \/ (pc' = "done" /\ i' = i)
      BY <2>6 DEF TakeOption, Return
    <3> QED
      BY <2>0, <3>1, <3>2 DEF LineGoesOn, Stage
  <2>7. CASE \E o \in Flags : TakeFlag(o)
    <3>1. pc' = pc /\ i' = i + 1
      BY <2>7 DEF TakeFlag
    <3> QED
      BY <2>0, <3>1 DEF LineGoesOn, Stage
  <2>8. CASE \E o \in OptionsThatMayTake : MayTake(o)
    <3>1. pc' = pc /\ i' \in {i + 1, i + 2}
      BY <2>8 DEF MayTake
    <3> QED
      BY <2>0, <3>1 DEF LineGoesOn, Stage
  <2>9. CASE Done \/ UNCHANGED parserVars
    BY <2>9 DEF Done
  <2> QED
    BY <1>1, <2>1, <2>2, <2>3, <2>4, <2>5, <2>6, <2>7, <2>8, <2>9 DEF ParserNext
<1>2. ParserSpec => []ParserTypeOK
  BY ParserTypeCorrect
<1> QED
  BY <1>1, <1>2, PTL DEF ParserSpec

-----------------------------------------------------------------------------
(* The invocation: parser and operations together. *)

\* As the parser sees it.

\* A step of an invocation is one of the parser, or leaves the parser alone.
LEMMA ParserSteps == [Next]_vars => [ParserNext]_parserVars
BY DEF Next, Program, Parse, Dispatch, Operate, KernelStep, vars

\* An invocation parses as the parser does.
THEOREM ParsesAlone == Spec => ParserSpec
<1>1. Init => ParserInit
  BY DEF Init
<1> QED
  BY <1>1, ParserSteps, PTL DEF Spec, ParserSpec

\* Whatever is typed, main finds what it relies on (main.cpp:38-92).
THEOREM InvocationCanRely == Spec => []MainCanRely
BY ParsesAlone, AcceptedCanBeRun, PTL

\* The parser's invariant holds in an invocation, too.
LEMMA InvocationParserInv == Spec => []ParserInv
BY ParsesAlone, ParserInvariance, PTL

-----------------------------------------------------------------------------
\* The order.

\* What a token is that passes for a command's value.
LEMMA PassingTokens ==
  ASSUME NEW kind \in {"int", "signal", "nice", "cpus"}, NEW t, Passes(kind, t)
  PROVE  t \in Tokens
<1>1. Numbers \subseteq Tokens /\ (kind \in WordKinds => Words[kind] \subseteq Tokens)
  BY CommandLineAssumption
<1> QED
  BY <1>1 DEF Passes

\* Accepted arguments make an order that the operations know, and that none
\* of them rejects.
LEMMA OrderOfArguments ==
  ASSUME MainCanRely, result = "ok", command \in Ops
  PROVE  /\ Mutation(command, args) \in Orders
         /\ Mutation(command, args).op = command
         /\ Accepted(Mutation(command, args))
<1> DEFINE p == args["pid"]
           x == args[Operands(command)[2].field]
<1>1. Passes("int", p) /\ p \in Tokens
  BY PassingTokens DEF MainCanRely, ValidField, Ops
<1>2. CASE command = "signal"
  <2>1. Operands(command)[2] = Operand("signalNumber", "signal")
    BY <1>2 DEF Operands
  <2>2. Passes("signal", x) /\ x \in Tokens
    BY <1>2, <2>1, PassingTokens DEF MainCanRely, ValidField, Operand
  <2>3. Mutation(command, args) = [op |-> "signal", pid |-> Number[p], arg |-> SignalOf[x]]
    BY <1>2 DEF Mutation, ValueOf
  <2>4. [op |-> "signal", pid |-> Number[p], arg |-> ValueOf("signal", x)] \in Orders
    BY <1>1, <1>2, <2>1, <2>2, CommandsAssumption DEF Operand, Ops
  <2>5. SignalOf[x] \in 0 .. MaxSignal
    BY <2>2, CommandsAssumption
  <2>6. ValueOf("signal", x) = SignalOf[x]
    BY DEF ValueOf
  <2>7. Mutation(command, args) \in Orders
    BY ONLY <2>3, <2>4, <2>6
  <2> DEFINE m == Mutation(command, args)
  <2>8. m.op = "signal" /\ m.arg = SignalOf[x]
    BY <2>3
  <2> HIDE DEF m, p, x
  <2>9. Accepted(m)
    BY <2>5, <2>8 DEF Accepted
  <2> QED
    BY <1>2, <2>7, <2>8, <2>9 DEF m
<1>3. CASE command = "renice"
  <2>1. Operands(command)[2] = Operand("niceValue", "nice")
    BY <1>3 DEF Operands
  <2>2. Passes("nice", x) /\ x \in Tokens
    BY <1>3, <2>1, PassingTokens DEF MainCanRely, ValidField, Operand
  <2>3. Mutation(command, args) = [op |-> "renice", pid |-> Number[p], arg |-> Number[x]]
    BY <1>3 DEF Mutation, ValueOf
  <2>4. [op |-> "renice", pid |-> Number[p], arg |-> ValueOf("renice", x)] \in Orders
    BY <1>1, <1>3, <2>1, <2>2, CommandsAssumption DEF Operand, Ops
  <2>5. Number[x] \in -20 .. 19
    BY <2>2 DEF Passes, Ranges, WordKinds
  <2>6. ValueOf("renice", x) = Number[x]
    BY DEF ValueOf
  <2>7. Mutation(command, args) \in Orders
    BY ONLY <2>3, <2>4, <2>6
  <2> DEFINE m == Mutation(command, args)
  <2>8. m.op = "renice" /\ m.arg = Number[x]
    BY <2>3
  <2> HIDE DEF m, p, x
  <2>9. Accepted(m)
    BY <2>5, <2>8 DEF Accepted
  <2> QED
    BY <1>3, <2>7, <2>8, <2>9 DEF m
<1>4. CASE command = "affinity"
  <2>1. Operands(command)[2] = Operand("affinityCpus", "cpus")
    BY <1>4 DEF Operands
  <2>2. Passes("cpus", x) /\ x \in Tokens
    BY <1>4, <2>1, PassingTokens DEF MainCanRely, ValidField, Operand
  <2>3. Mutation(command, args) = [op |-> "affinity", pid |-> Number[p], arg |-> CpusOf[x]]
    BY <1>4 DEF Mutation, ValueOf
  <2>4. [op |-> "affinity", pid |-> Number[p], arg |-> ValueOf("affinity", x)] \in Orders
    BY <1>1, <1>4, <2>1, <2>2, CommandsAssumption DEF Operand, Ops
  <2>5. CpusOf[x] # {} /\ CpusOf[x] \subseteq 0 .. MaxCpu
    BY <2>2, CommandsAssumption
  <2>6. ValueOf("affinity", x) = CpusOf[x]
    BY DEF ValueOf
  <2>7. Mutation(command, args) \in Orders
    BY ONLY <2>3, <2>4, <2>6
  <2> DEFINE m == Mutation(command, args)
  <2>8. m.op = "affinity" /\ m.arg = CpusOf[x]
    BY <2>3
  <2> HIDE DEF m, p, x
  <2>9. Accepted(m)
    BY <2>5, <2>8 DEF Accepted
  <2> QED
    BY <1>4, <2>7, <2>8, <2>9 DEF m
<1> QED
  BY <1>2, <1>3, <1>4 DEF Ops

-----------------------------------------------------------------------------
\* As the operations see it.

\* What main may rely on makes each step of an invocation one of the operations'.
LEMMA ControlSteps == MainCanRely /\ [Next]_vars => [ControlNext]_mutationVars
<1> SUFFICES ASSUME MainCanRely, [Next]_vars PROVE [ControlNext]_mutationVars
  OBVIOUS
<1>1. CASE Parse
  BY <1>1 DEF Parse
<1>2. CASE Dispatch
  BY <1>2, OrderOfArguments DEF Dispatch, ControlNext
<1>3. CASE Operate
  BY <1>3 DEF Operate, ControlNext
<1>4. CASE KernelStep
  BY <1>4 DEF KernelStep, ControlNext
<1>5. CASE UNCHANGED vars
  BY <1>5 DEF vars
<1> QED
  BY <1>1, <1>2, <1>3, <1>4, <1>5 DEF Next, Program

\* To the operations, an invocation is one of the callers they were proved
\* for.
THEOREM OperatesAlone == Spec => ControlSpec
<1>1. Init => ControlInit
  BY DEF Init
<1> QED
  BY <1>1, ControlSteps, InvocationCanRely, PTL DEF Spec, ControlSpec

\* Whatever is typed for a PID, one process at most is reached, and never a
\* group (args.cpp:265-337, control.cpp:11-17).
THEOREM InvocationReachesOne == Spec => []NeverAGroup
BY OperatesAlone, OnlyOneProcess, PTL

\* Success is reported of an invocation exactly when it changed a process.
THEOREM InvocationSaysTrue == Spec => []EffectIffSuccess
BY OperatesAlone, SuccessMeansEffect, PTL

\* A process of the caller that lives through the operation is not missed.
THEOREM InvocationReachesOwn == Spec => []OwnProcessReached
BY OperatesAlone, OwnProcessNeverMissed, PTL

\* Every variable of an invocation keeps its type.
THEOREM InvocationTypeCorrect == Spec => []TypeOK
<1>1. ControlTypeOK /\ ParserTypeOK => TypeOK
  BY DEF TypeOK
<1> QED
  BY <1>1, OperatesAlone, ParsesAlone, ControlTypeCorrect, ParserTypeCorrect, PTL

-----------------------------------------------------------------------------
\* Both.

\* From the moment there is an order it is what the parser has left of the
\* line, accepted, and in the operation's range.
OrderAsParsed ==
  cpc # "idle" =>
    /\ pc = "done" /\ result = "ok" /\ command \in Ops
    /\ cmd = Mutation(command, args)
    /\ Accepted(cmd)

\* The order that is carried out stays the one that was typed.
LEMMA OrderKept ==
  ASSUME ParserInv, MainCanRely, OrderAsParsed, [Next]_vars
  PROVE  OrderAsParsed'
<1>1. result = "ok" => pc = "done"
  BY DEF ParserInv, Position
<1>2. CASE UNCHANGED parserVars /\ UNCHANGED <<cmd, cpc>>
  BY <1>2 DEF OrderAsParsed, parserVars, Mutation, ValueOf, Accepted
<1>3. CASE Parse
  <2>1. CASE cpc = "idle"
    BY <1>3, <2>1 DEF Parse, mutationVars, controlVars, OrderAsParsed
  <2>2. CASE pc = "done"
    BY <1>2, <1>3, <2>2 DEF Parse, mutationVars, controlVars, ParserNext, Done, DefaultCommand,
       TakeCommand, OtherCommand, TakeOperand, EndOperands, AskHelp, Unexpected, TakeOption,
       TakeFlag, MayTake, Validate
  <2> QED
    BY <2>1, <2>2 DEF OrderAsParsed
<1>4. CASE Dispatch
  <2>1. cmd' = Mutation(command, args) /\ UNCHANGED parserVars
    BY <1>4 DEF Dispatch, Begin
  <2>2. Accepted(Mutation(command, args))
    BY <1>4, OrderOfArguments DEF Dispatch
  <2>3. Mutation(command, args)' = Mutation(command, args)
    BY <2>1 DEF parserVars, Mutation, ValueOf
  <2>4. Accepted(cmd)'
    BY <2>1, <2>2 DEF Accepted
  <2> QED
    BY <1>1, <1>4, <2>1, <2>3, <2>4 DEF Dispatch, parserVars, OrderAsParsed
<1>5. CASE Operate
  <2>1. UNCHANGED cmd /\ UNCHANGED parserVars
    BY <1>5 DEF Operate, Operation, CheckExists, CheckOpen, Call, Fails, TakesEffect, Ends
  <2>2. cpc # "idle"
    BY <1>5 DEF Operate, Operation, CheckExists, CheckOpen, Call
  <2> QED
    BY <2>1, <2>2 DEF OrderAsParsed, parserVars, Mutation, ValueOf, Accepted
<1>6. CASE KernelStep
  BY <1>2, <1>6 DEF KernelStep, Kernels, KernelForks, KernelReaps, KernelClones, controlVars
<1>7. CASE UNCHANGED vars
  BY <1>2, <1>7 DEF vars, mutationVars, controlVars
<1> QED
  BY <1>3, <1>4, <1>5, <1>6, <1>7 DEF Next, Program

\* An operation works on what the parser has left of the line, and never on
\* a value that the parser would not have let through, whatever happens
\* between the two (main.cpp:37-92).
THEOREM OrderComesFromLine == Spec => []OrderAsParsed
<1>1. Init => OrderAsParsed
  BY DEF Init, ControlInit, OrderAsParsed
<1>2. ParserInv /\ MainCanRely /\ OrderAsParsed /\ [Next]_vars => OrderAsParsed'
  BY OrderKept
<1> QED
  BY <1>1, <1>2, InvocationParserInv, InvocationCanRely, PTL DEF Spec

-----------------------------------------------------------------------------
\* From the line to the process.

\* An invocation reads its line as the grammar does (args.cpp:219-791).
THEOREM InvocationReadAsWritten == Spec => []ReadAsWritten
BY ParsesAlone, LineReadAsWritten, PTL

\* The field of a command's second operand, and what is stored of it.
LEMMA SecondOperand ==
  /\ Operands("signal")[2].field = "signalNumber"
  /\ Operands("renice")[2].field = "niceValue"
  /\ Operands("affinity")[2].field = "affinityCpus"
  /\ \A x : ValueOf("signal", x) = SignalOf[x]
  /\ \A x : ValueOf("renice", x) = Number[x]
  /\ \A x : ValueOf("affinity", x) = CpusOf[x]
BY DEF Operands, Operand, ValueOf

\* Whatever an invocation changes was typed: the process and the value are
\* those that the line, read as its grammar reads it, gives last, and the
\* change is made only if the line says so (args.cpp:265-337, 369-380,
\* main.cpp:37-92).
THEOREM ChangeWasTyped == Spec => []DoneAsTyped
<1>1. ASSUME ControlInv, OrderAsParsed, ReadAsWritten PROVE DoneAsTyped
  <2> SUFFICES ASSUME hits # {} PROVE DoneAsTyped
    BY DEF DoneAsTyped
  <2>1. cpc # "idle"
    BY <1>1 DEF ControlInv, NothingYet
  <2>2. result = "ok" /\ command \in Ops /\ cmd = Mutation(command, args)
    BY <1>1, <2>1 DEF OrderAsParsed
  <2>3. PICK r \in SUBSET (First .. Len(argv)) :
          IsReading(r) /\ command = Command /\ args = Meaning(r)
    BY <1>1, <2>2 DEF ReadAsWritten
  <2>4. /\ cmd.op = command
        /\ cmd.pid = Number[args["pid"]]
        /\ cmd.arg = ValueOf(command, args[Operands(command)[2].field])
    BY <2>2 DEF Mutation
  <2>5. cmd.arg = CASE cmd.op = "signal" -> SignalOf[args["signalNumber"]]
                    [] cmd.op = "renice" -> Number[args["niceValue"]]
                    [] cmd.op = "affinity" -> CpusOf[args["affinityCpus"]]
    <3>1. CASE command = "signal"
      BY <2>4, <3>1, SecondOperand
    <3>2. CASE command = "renice"
      BY <2>4, <3>2, SecondOperand
    <3>3. CASE command = "affinity"
      BY <2>4, <3>3, SecondOperand
    <3> QED
      BY <2>2, <3>1, <3>2, <3>3 DEF Ops
  <2> QED
    BY <2>3, <2>4, <2>5 DEF DoneAsTyped
<1> QED
  BY <1>1, OperatesAlone, ControlInvariance, OrderComesFromLine, InvocationReadAsWritten, PTL
=============================================================================
