------------------------------- MODULE Rates -------------------------------
(***************************************************************************)
(* The rate samplers of analyzer/system.cpp and analyzer/network.cpp.  A   *)
(* sampler reads one file of /proc, sleeps, reads the file again and       *)
(* reports what each counter gained.  Five of them share that shape:       *)
(*                                                                         *)
(*   "interfaces"  /proc/net/dev, one row per interface, matched by name   *)
(*   "disks"       /proc/diskstats, one row per device, matched by name    *)
(*   "cores"       the cpuN lines of /proc/stat, matched by POSITION       *)
(*   "cpu"         the aggregate cpu line of /proc/stat                    *)
(*   "activity"    the intr, ctxt and processes lines of /proc/stat        *)
(*                                                                         *)
(* Between the two reads the kernel counts, and devices come and go.       *)
(***************************************************************************)
EXTENDS Integers, Sequences, FiniteSets, Functions

CONSTANTS
  Kinds,          \* the samplers of the instance
  Devices,        \* the devices there may be, numbered as their file lists them
  Modulus,        \* 2^64 in the program: counters and differences are unsigned
  InitialCounts,  \* what a counter may hold when the sampler is called
  MaxTicks,       \* bound: what the counters may gain, all together
  MaxPlugs        \* bound: how often a name may be registered again

AllKinds == {"interfaces", "disks", "cores", "cpu", "activity"}

ASSUME RatesAssumption ==
  /\ Kinds \subseteq AllKinds
  /\ Devices \subseteq Nat \ {0}
  /\ Devices # {}
  /\ IsFiniteSet(Devices)
  /\ InitialCounts \subseteq Nat
  /\ MaxPlugs \in Nat
  /\ MaxTicks \in Nat
  /\ Modulus \in Nat
  /\ MaxTicks < Modulus   \* no counter gets all the way round in one window

VARIABLES
  online,    \* the devices the file lists
  counter,   \* each device's true totals since its registration, gen
  ticks,     \* what the counters have gained so far
  kind,      \* the sampler that was called
  pc,        \* "first", "asleep", "second", "done" or "failed"
  first,     \* the rows of the first read
  rates,     \* the result
  truth      \* history: what stood in the counters at either read

kernelVars == <<online, counter, ticks>>
samplerVars == <<pc, first, rates, truth>>
ratesVars == <<online, counter, ticks, kind, pc, first, rates, truth>>

Count == [gen : Nat, busy : Nat, idle : Nat]
Row == [name : Nat, busy : 0 .. Modulus - 1, idle : 0 .. Modulus - 1]
RateRow == [name : Nat, busy : 0 .. Modulus - 1, total : 0 .. Modulus - 1]

IsCpu == kind \in {"cores", "cpu"}
IsTotal == kind \in {"cpu", "activity"}

\* Those that have counters.  An aggregate line has one for what any device
\* does, and no device takes its share with it when it goes.
Counted == IF IsTotal THEN {0} ELSE Devices

---------------------------------------------------------------------------
\* The kernel.

\* Device d counts: a transfer, an interrupt, a tick spent busy; or, on a
\* CPU, a tick spent idle.
Work(d) ==
  /\ ticks < MaxTicks
  /\ d \in online
  /\ ticks' = ticks + 1
  /\ \/ counter' = [counter EXCEPT ![d].busy = @ + 1]
     \/ /\ IsCpu
        /\ counter' = [counter EXCEPT ![d].idle = @ + 1]
  /\ UNCHANGED <<online, kind, samplerVars>>

\* An aggregate line stays, and one CPU is always online.
Unplug(d) ==
  /\ ~IsTotal
  /\ d \in online
  /\ IsCpu => online # {d}
  /\ online' = online \ {d}
  /\ UNCHANGED <<counter, ticks, kind, samplerVars>>

\* A CPU that comes back goes on counting; an interface or a disk is a new
\* one, with the old name and counters that start at zero.
Plug(d) ==
  /\ d \notin online
  /\ online' = online \cup {d}
  /\ \/ IsCpu /\ UNCHANGED counter
     \/ /\ ~IsCpu
        /\ counter[d].gen < MaxPlugs
        /\ counter' = [counter EXCEPT ![d] = [gen |-> @.gen + 1, busy |-> 0, idle |-> 0]]
  /\ UNCHANGED <<ticks, kind, samplerVars>>

\* Bound: what happens after the second read reaches no sampler.
Kernel ==
  /\ pc \notin {"done", "failed"}
  /\ \E d \in Counted : Work(d) \/ Unplug(d) \/ Plug(d)

\* What the file is about to say.
Standing == [d \in online |-> counter[d]]

\* The numbers of a set in their order: k - 1 of them are below the k-th.
Ascending(S) ==
  [k \in 1 .. Cardinality(S) |-> CHOOSE d \in S : Cardinality({e \in S : e < d}) = k - 1]

\* The rows the parser makes of what the file says.
RowsOf(standing) ==
  LET names == Ascending(DOMAIN standing) IN
  [i \in DOMAIN names |-> [name |-> names[i],
                           busy |-> standing[names[i]].busy % Modulus,
                           idle |-> standing[names[i]].idle % Modulus]]

Rows == RowsOf(Standing)

---------------------------------------------------------------------------
\* What the two reads come to.

Gain(before, after) == (after - before) % Modulus

\* Both differences of a row; a CPU without a tick is idle, not divided by 0.
RateOf(before, after) ==
  LET total == Gain((before.busy + before.idle) % Modulus,
                    (after.busy + after.idle) % Modulus)
  IN [name |-> after.name,
      busy |-> IF IsCpu /\ total = 0 THEN 0 ELSE Gain(before.busy, after.busy),
      total |-> total]

\* Cores: by position, up to the shorter of the two lists.  (Used
\* for the others as well, this is a mutant: a rewrite that forgets names.)
RatesByPosition(before, after) ==
  [i \in DOMAIN before \cap DOMAIN after |-> RateOf(before[i], after[i])]

\* Mutant: a row without a counterpart is measured from zero.
RatesByNameOrZero(before, after) ==
  [i \in DOMAIN after |->
     IF \E r \in Range(before) : r.name = after[i].name
     THEN RateOf(CHOOSE r \in Range(before) : r.name = after[i].name, after[i])
     ELSE RateOf([name |-> after[i].name, busy |-> 0, idle |-> 0], after[i])]

\* Interfaces and disks: by name, in the order of the second read.
RatesByName(before, after) ==
  LET Same(row) == {r \in Range(before) : r.name = row.name}
      kept == Ascending({i \in DOMAIN after : Same(after[i]) # {}})
  IN [i \in DOMAIN kept |-> RateOf(CHOOSE r \in Same(after[kept[i]]) : TRUE, after[kept[i]])]

---------------------------------------------------------------------------
\* The sampler.

RatesInit ==
  /\ kind \in Kinds
  /\ online \in SUBSET Counted
  /\ IsTotal => online = Counted
  /\ IsCpu => online # {}
  /\ counter \in [Counted -> [gen : {0}, busy : InitialCounts, idle : {0}]]
  /\ ticks = 0
  /\ pc = "first"
  /\ first = << >>
  /\ rates = << >>
  /\ truth = [first |-> << >>, second |-> << >>]

\* The file cannot be read, or has no row and the parser does not accept it.
ReadFails ==
  /\ pc \in {"first", "second"}
  /\ pc' = "failed"
  /\ UNCHANGED <<kernelVars, kind, first, rates, truth>>

Unusable == kind = "interfaces" /\ Rows = << >>

ReadFirst ==
  /\ pc = "first"
  /\ ~Unusable
  /\ first' = Rows
  /\ truth' = [truth EXCEPT !.first = Standing]
  /\ pc' = "asleep"
  /\ UNCHANGED <<kernelVars, kind, rates>>

\* Mutant: the sampler sleeps again while nothing has happened.
WakeWhenBusy ==
  /\ pc = "asleep"
  /\ pc' = IF ticks = 0 THEN "asleep" ELSE "second"
  /\ UNCHANGED <<kernelVars, kind, first, rates, truth>>

Wake ==
  /\ pc = "asleep"
  /\ pc' = "second"
  /\ UNCHANGED <<kernelVars, kind, first, rates, truth>>

ReadSecond ==
  /\ pc = "second"
  /\ ~Unusable
  /\ rates' = IF kind = "cores" THEN RatesByPosition(first, Rows)
              ELSE RatesByName(first, Rows)
  /\ truth' = [truth EXCEPT !.second = Standing]
  /\ pc' = "done"
  /\ UNCHANGED <<kernelVars, kind, first>>

Sampler == ReadFirst \/ Wake \/ ReadSecond \/ ReadFails

RatesNext == Kernel \/ Sampler

RatesSpec == RatesInit /\ [][RatesNext]_ratesVars

\* The sampler runs on a thread of its own and its sleep is over after the
\* window; the kernel owes it nothing.
FairRates == RatesSpec /\ WF_ratesVars(Sampler)

---------------------------------------------------------------------------
RatesTypeOK ==
  /\ online \subseteq Counted
  /\ counter \in [Counted -> Count]
  /\ ticks \in 0 .. MaxTicks
  /\ kind \in Kinds
  /\ pc \in {"first", "asleep", "second", "done", "failed"}
  /\ first \in Seq(Row)
  /\ rates \in Seq(RateRow)

\* The devices that were listed by both reads and were the same ones.
Survivors ==
  {d \in DOMAIN truth.first \cap DOMAIN truth.second :
     truth.first[d].gen = truth.second[d].gen}

Gained(d) == truth.second[d].busy - truth.first[d].busy

\* A device that lasted through the window gets one row, and the row says
\* what the device really did, also when its counter went round in between
\* (system.cpp:183-199, 229-256, 285-318, network.cpp:280-313).  For cores
\* this needs a list of CPUs that is the same at both reads.
SurvivorsExact ==
  /\ pc = "done"
  /\ kind = "cores" => DOMAIN truth.first = DOMAIN truth.second
  => \A d \in Survivors :
       /\ Cardinality({i \in DOMAIN rates : rates[i].name = d}) = 1
       /\ \A i \in DOMAIN rates : rates[i].name = d => rates[i].busy = Gained(d)

\* No row for a device that one of the two reads did not list, so nothing
\* is ever measured from a count of zero (system.cpp:306-307,
\* network.cpp:301-302).
NoStrangers ==
  pc = "done" /\ kind # "cores" =>
    \A i \in DOMAIN rates :
      rates[i].name \in DOMAIN truth.first \cap DOMAIN truth.second

\* This, with every variable of its type.
RatesInv == RatesTypeOK /\ NoStrangers

\* A sampler comes back, with rates or with an error, however busy or idle
\* the machine is (the caller is blocked on its future, main.cpp:310-311).
SampleEnds == <>(pc \in {"done", "failed"})

\* A usage is a percentage (docs/api-reference.md:70): no CPU was busy for
\* longer than it ran.
CoreUsageInRange ==
  kind = "cores" => \A i \in DOMAIN rates : rates[i].busy <= rates[i].total
=============================================================================
