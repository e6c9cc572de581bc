------------------------------ MODULE Sampling ------------------------------
(***************************************************************************)
(* Usage of processes over a window, and the top command that ranks them.  *)
(* performance.cpp reads a counter of each process (CPU ticks from stat,   *)
(* or bytes from io) on both sides of a sleep, and the system's ticks too; *)
(* main.cpp then filters, sorts and names what it got, reading details of  *)
(* each PID again.  Meanwhile processes run, exit, and PIDs are reused.    *)
(*                                                                         *)
(* A details call is its stat read, and its io read where that is what is  *)
(* wanted; module Details has the call in full.                            *)
(***************************************************************************)
EXTENDS ProcTable, FiniteSets, Sequences, SequencesExt

CONSTANTS
  Requests,   \* the calls of the instance
  Cpus,       \* how many processes run at a time
  Age,        \* what a process that was there before has used
  MaxClock    \* bound: the system's clock stops here

(***************************************************************************)
(* of: what is measured; pid: the process asked about, 0 for all; top: the *)
(* call is made by the top command; own: top has a user filter, which      *)
(* processes of the caller pass; count: the lines top prints.              *)
(***************************************************************************)
AllRequests == [of : {"cpu", "io", "mem"}, pid : Pids \cup {0}, top : BOOLEAN,
                own : BOOLEAN, count : Nat]

ASSUME SamplingAssumption ==
  /\ Requests \subseteq AllRequests /\ Requests # {}
  /\ \A r \in Requests : r.top => r.pid = 0 /\ r.count > 0
  /\ \A r \in Requests : r.of = "mem" => r.top
  /\ Cpus \in Nat
  /\ Age \in Nat
  /\ MaxClock \in Nat

VARIABLES
  used,     \* kernel: what each process has used so far
  clock,    \* kernel: the ticks of /proc/stat
  req,
  at,       \* the step of the call, 0 when there is none
  pids,     \* the PIDs asked about
  todo,     \* the PIDs this step has not looked at
  open,     \* the details call whose io file comes next
  base,     \* snap1: by PID, what the first read found
  system,   \* sys1, sys2
  rows,     \* the usages
  lines,    \* top: the rows to print, in order
  names,    \* top: whose name each line got, 0 for "?"
  result,   \* "none" while running, "ok" or "error"
  mark      \* history: used at the begin of the call, of the sleep, at its end

kernelVars == <<procVars, used, clock>>
callVars == <<req, at, pids, todo, open, base, system, rows, lines, names, result, mark>>
vars == <<kernelVars, callVars>>

Openable(p) == Alive(p) /\ table[p].access # "none"

\* What a details call saw of a process, and what a usage is made of.
Glimpse == [pid : Pids, born : Nat, own : BOOLEAN]
Nothing == [pid |-> 0, born |-> 0, own |-> FALSE]
Row == [pid : Pids, first : Nat, second : Nat, own : BOOLEAN, delta : Int]

\* Mutant: the processes are first read when the window is over.
WindowLate(r) ==
  CASE r.of = "mem" -> <<"list", "first">>
    [] r.of = "io" /\ r.pid # 0 -> <<"sleep", "first", "second">>
    [] r.of = "io" /\ r.pid = 0 -> <<"list", "sleep", "first", "second">>
    [] r.of = "cpu" /\ r.pid # 0 -> <<"first", "system", "sleep", "second", "system">>
    [] r.of = "cpu" /\ r.pid = 0 -> <<"list", "system", "first", "sleep", "system", "second">>

\* The order of the reads.  top --mem ranks what a snapshot has.
Window(r) ==
  CASE r.of = "mem" -> <<"list", "first">>
    [] r.of = "io" /\ r.pid # 0 -> <<"first", "sleep", "second">>
    [] r.of = "io" /\ r.pid = 0 -> <<"list", "first", "sleep", "second">>
    [] r.of = "cpu" /\ r.pid # 0 -> <<"first", "system", "sleep", "second", "system">>
    [] r.of = "cpu" /\ r.pid = 0 -> <<"list", "system", "first", "sleep", "system", "second">>

\* Mutant: the ranking is cut to its length before it is filtered.
RankingCutFirst(r) == IF ~r.top THEN << >> ELSE <<"rank", "filter", "name">>

\* What top does with a sample.
Ranking(r) == IF ~r.top THEN << >> ELSE <<"filter", "rank", "name">>

Steps(r) == Window(r) \o Ranking(r)

Doing(step) == at # 0 /\ Steps(req)[at] = step

\* The ticks that passed between the two reads of /proc/stat.
Total == IF Len(system) = 2 THEN system[2] - system[1] ELSE 0

\* A usage in percent or bytes per second is its delta by a constant.
Rate(r) == IF req.of = "cpu" /\ Total = 0 THEN 0 ELSE r.delta

RowOf(p) == CHOOSE r \in rows : r.pid = p

\* Type invariant.
TypeOK ==
  /\ ProcTypeOK
  /\ used \in [Pids -> Nat]
  /\ clock \in Nat
  /\ req \in Requests
  /\ at \in 0 .. Len(Steps(req))
  /\ pids \subseteq Pids
  /\ todo \subseteq Pids
  /\ open \in Glimpse \cup {Nothing}
  /\ DOMAIN base \subseteq Pids
  /\ \A p \in DOMAIN base : base[p] \in [born : Nat, used : Nat]
  /\ system \in Seq(Nat) /\ Len(system) <= 2
  /\ rows \subseteq Row
  /\ lines \in Seq(Row)
  /\ names \in Seq(Nat) /\ Len(names) <= Len(lines)
  /\ result \in {"none", "ok", "error"}

NoMark == [begin |-> used, sleep |-> used, wake |-> used]

Init ==
  /\ ProcInit
  /\ used = [p \in Pids |-> IF Alive(p) THEN Age ELSE 0]
  /\ clock = 0
  /\ req = CHOOSE r \in Requests : TRUE
  /\ at = 0
  /\ pids = {} /\ todo = {} /\ open = Nothing
  /\ base = << >> /\ system = << >> /\ rows = {}
  /\ lines = << >> /\ names = << >>
  /\ result = "none"
  /\ mark = NoMark

-----------------------------------------------------------------------------
\* The kernel.  Bound: it rests where nobody looks, outside of the call.

KernelTicks(running) ==
  /\ clock < MaxClock
  /\ clock' = clock + Cpus
  /\ \A p \in running : Alive(p)
  /\ used' = [p \in Pids |-> IF p \in running THEN used[p] + 1 ELSE used[p]]
  /\ UNCHANGED <<procVars, callVars>>

KernelForks(parent, child, access) ==
  /\ \E s \in SockModes : Fork(parent, child, access, s)
  /\ used' = [used EXCEPT ![child] = 0]
  /\ UNCHANGED <<clock, callVars>>

KernelReaps(p) ==
  /\ Exit(p)
  /\ used' = [used EXCEPT ![p] = 0]
  /\ UNCHANGED <<clock, callVars>>

Kernels ==
  /\ at # 0
  /\ \/ \E running \in {R \in SUBSET Pids : Cardinality(R) <= Cpus} : KernelTicks(running)
     \/ \E parent, child \in Pids, a \in AccessModes : KernelForks(parent, child, a)
     \/ \E p \in Pids : KernelReaps(p)

-----------------------------------------------------------------------------
\* The call.

\* Bound: one call.  A call keeps nothing for the next, nor does --watch.
Begin(r) ==
  /\ at = 0
  /\ result = "none"
  /\ req' = r
  /\ at' = 1
  /\ pids' = IF r.pid = 0 THEN {} ELSE {r.pid}
  /\ todo' = pids'
  /\ open' = Nothing
  /\ base' = << >> /\ system' = << >> /\ rows' = {}
  /\ lines' = << >> /\ names' = << >>
  /\ result' = "none"
  /\ mark' = NoMark
  /\ Mark
  /\ UNCHANGED <<table, births, used, clock>>

\* An error of a read that the call cannot do without.
Fail ==
  /\ at' = 0
  /\ result' = "error"
  /\ UNCHANGED <<kernelVars, req, pids, todo, open, base, system, rows, lines, names, mark>>

\* What the next step will look at; asked is the PIDs asked about.
TodoFor(step, asked) ==
  CASE step = "first" -> asked
    [] step = "second" -> DOMAIN base
    [] step = "filter" -> {r.pid : r \in rows}
    [] OTHER -> {}

\* The step is over and the next one begins; behind the last the call returns.
Goto(asked) ==
  /\ todo = {} \/ ~(Doing("first") \/ Doing("second") \/ Doing("filter"))
  /\ open = Nothing
  /\ IF at = Len(Steps(req))
     THEN at' = 0 /\ result' = "ok" /\ todo' = {} /\ UNCHANGED mark
     ELSE LET next == Steps(req)[at + 1] IN
          /\ at' = at + 1
          /\ todo' = TodoFor(next, asked)
          /\ mark' = [mark EXCEPT !.sleep = IF next = "sleep" THEN used ELSE @,
                                  !.wake = IF Doing("sleep") THEN used ELSE @]
          /\ UNCHANGED result
  /\ UNCHANGED <<kernelVars, req, open>>

List ==
  /\ Doing("list")
  /\ \/ /\ pids' = AlivePids
        /\ Goto(AlivePids)
        /\ UNCHANGED <<base, system, rows, lines, names>>
     \/ Fail

ReadSystem ==
  /\ Doing("system")
  /\ \/ /\ system' = Append(system, clock)
        /\ Goto(pids)
        /\ UNCHANGED <<pids, base, rows, lines, names>>
     \/ Fail

Wake ==
  /\ Doing("sleep")
  /\ UNCHANGED <<pids, base, system, rows, lines, names>>
  /\ Goto(pids)

\* Mutant: the difference is taken the wrong way round.
TakeNegated(glimpse, value) ==
  LET p == glimpse.pid IN
  IF Doing("second")
  THEN /\ rows' = rows \cup {[pid |-> p, first |-> base[p].born, second |-> glimpse.born,
                              own |-> glimpse.own, delta |-> base[p].used - value]}
       /\ UNCHANGED base
  ELSE /\ base' = [q \in DOMAIN base \cup {p} |->
                     IF q = p THEN [born |-> glimpse.born, used |-> value] ELSE base[q]]
       /\ rows' = IF req.of # "mem" THEN rows
                  ELSE rows \cup {[pid |-> p, first |-> glimpse.born, second |-> glimpse.born,
                                   own |-> glimpse.own, delta |-> value]}

\* The first read of a process is kept, the second one is compared with it;
\* for memory one read is all there is.
Take(glimpse, value) ==
  LET p == glimpse.pid IN
  IF Doing("second")
  THEN /\ rows' = rows \cup {[pid |-> p, first |-> base[p].born, second |-> glimpse.born,
                              own |-> glimpse.own, delta |-> value - base[p].used]}
       /\ UNCHANGED base
  ELSE /\ base' = [q \in DOMAIN base \cup {p} |->
                     IF q = p THEN [born |-> glimpse.born, used |-> value] ELSE base[q]]
       /\ rows' = IF req.of # "mem" THEN rows
                  ELSE rows \cup {[pid |-> p, first |-> glimpse.born, second |-> glimpse.born,
                                   own |-> glimpse.own, delta |-> value]}

\* getProcessDetails up to stat.  A PID of many is skipped if it fails; the
\* one PID asked about must not.
ReadStat(p) ==
  /\ Doing("first") \/ Doing("second")
  /\ open = Nothing
  /\ p \in todo
  /\ IF Openable(p)
     THEN LET glimpse == [pid |-> p, born |-> table[p].born, own |-> table[p].access = "full"] IN
          /\ todo' = todo \ {p}
          /\ IF req.of = "io" THEN open' = glimpse /\ UNCHANGED <<base, rows>>
             ELSE Take(glimpse, used[p]) /\ UNCHANGED open
          /\ UNCHANGED <<kernelVars, req, at, pids, system, lines, names, result, mark>>
     ELSE IF req.pid # 0 THEN Fail
     ELSE /\ todo' = todo \ {p}
          /\ UNCHANGED <<kernelVars, req, at, pids, open, base, system, rows, lines, names,
                         result, mark>>

\* ... and on to io, which only the process's owner can read.  The counters
\* stay 0 if it cannot be read, or not any more.
ReadIo ==
  /\ open # Nothing
  /\ open' = Nothing
  /\ LET p == open.pid IN Take(open, IF Alive(p) /\ table[p].access = "full" THEN used[p] ELSE 0)
  /\ UNCHANGED <<kernelVars, req, at, pids, todo, system, lines, names, result, mark>>

EndReads ==
  /\ Doing("first") \/ Doing("second") \/ Doing("filter")
  /\ UNCHANGED <<pids, base, system, rows, lines, names>>
  /\ Goto(pids)

\* The rows have no more than a PID: details are read again for the filter.
\* Those of --mem are a snapshot's, and are filtered as they are.
FilterRow(p) ==
  /\ Doing("filter")
  /\ p \in todo
  /\ todo' = todo \ {p}
  /\ LET own == IF req.of = "mem" THEN RowOf(p).own ELSE table[p].access = "full" IN
     rows' = IF ~req.own \/ own THEN rows ELSE rows \ {RowOf(p)}
  /\ UNCHANGED <<kernelVars, req, at, pids, open, base, system, lines, names, result, mark>>

\* std::ranges::sort, descending, and the first of them.
Rank ==
  /\ Doing("rank")
  /\ \E s \in SetToSeqs(rows) :
       /\ \A i, j \in DOMAIN s : i < j => Rate(s[i]) >= Rate(s[j])
       /\ lines' = SubSeq(s, 1, Min({req.count, Len(s)}))
  /\ UNCHANGED <<pids, base, system, rows, names>>
  /\ Goto(pids)

\* A line's name is read when it is printed, but for --mem.
NameLine ==
  /\ Doing("name")
  /\ Len(names) < Len(lines)
  /\ LET r == lines[Len(names) + 1] IN
     names' = Append(names, IF req.of = "mem" THEN r.second
                            ELSE IF Openable(r.pid) THEN table[r.pid].born ELSE 0)
  /\ UNCHANGED <<kernelVars, req, at, pids, todo, open, base, system, rows, lines, result, mark>>

EndNames ==
  /\ Doing("name")
  /\ Len(names) = Len(lines)
  /\ UNCHANGED <<pids, base, system, rows, lines, names>>
  /\ Goto(pids)

Call ==
  \/ List \/ ReadSystem \/ Wake
  \/ \E p \in Pids : ReadStat(p) \/ FilterRow(p)
  \/ ReadIo \/ EndReads \/ Rank \/ NameLine \/ EndNames

Next == Kernels \/ (\E r \in Requests : Begin(r)) \/ Call

Spec == Init /\ [][Next]_vars

-----------------------------------------------------------------------------
(* Properties *)

\* A process whose counter can be read.
Measurable(p) == table[p].access \in (IF req.of = "io" THEN {"full"} ELSE {"full", "public"})

\* A process that lives through the call has a row, and the row is right: it
\* says at least what the process used while the call slept, and at most
\* what it used since the call began (performance.cpp:125-237).
SurvivorsMeasured ==
  result = "ok" /\ req.of # "mem" /\ ~req.top =>
    \A p \in lived : Measurable(p) /\ req.pid \in {0, p} =>
      \E r \in rows :
        /\ r.pid = p /\ r.first = table[p].born /\ r.second = table[p].born
        /\ mark.wake[p] - mark.sleep[p] <= r.delta
        /\ r.delta <= used[p] - mark.begin[p]

\* A rate below zero can only come from a PID that was given to another
\* process, or from a process that was gone before its io file was read:
\* counters of one process do not run backwards in a row (performance.cpp:
\* 144-149, 176-184, 198-200, 227-229).
NegativeOnlyIfGone ==
  \A r \in rows : r.delta < 0 =>
    r.first # r.second \/ (req.of = "io" /\ <<r.pid, r.second>> # Present(r.pid))

\* This, with every variable of its type.
SamplingInv == TypeOK /\ NegativeOnlyIfGone

\* A process that passes top's filter.
Wanted(p) == req.own => table[p].access = "full"

\* The busiest stay on top: a process of the caller that lives through the
\* call is printed, under its own name, unless the table is full of lines
\* that rank no lower, and those are not of survivors that fail the filter
\* (main.cpp:516-654).
TopOfSurvivors ==
  result = "ok" /\ req.top =>
    /\ \A p \in lived : Measurable(p) /\ Wanted(p) =>
         \E r \in rows :
           /\ r.pid = p /\ r.first = table[p].born /\ r.second = table[p].born
           /\ \/ \E i \in DOMAIN lines : lines[i] = r /\ names[i] = table[p].born
              \/ /\ Len(lines) = req.count
                 /\ \A i \in DOMAIN lines : Rate(lines[i]) >= Rate(r)
    /\ \A i \in DOMAIN lines : lines[i].pid \in lived => Wanted(lines[i].pid)
=============================================================================
