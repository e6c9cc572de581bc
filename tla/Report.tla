------------------------------- MODULE Report -------------------------------
(***************************************************************************)
(* The system command of main.cpp: one thread prints a report, five others *)
(* sample rates for it.  A frame of the report launches the five samplers  *)
(* with std::async, prints the sections that need no sample, and takes a   *)
(* sampler's future when it comes to its section.  --watch repeats the     *)
(* frame; --format json prints one and returns.                            *)
(*                                                                         *)
(* What a sampler does between its launch and its end is module Rates.     *)
(* Here it takes some time and ends with rates, an error or an exception.  *)
(***************************************************************************)
EXTENDS Integers, Sequences, FiniteSets, FiniteSetsExt

CONSTANTS
  Modes,      \* "json", "once", "watch": how the command was called
  MayThrow    \* the steps an exception (bad_alloc, system_error) may hit

Samplers == <<"cpu", "percpu", "netrates", "diskrates", "actrates">>
SamplerSet == {Samplers[i] : i \in DOMAIN Samplers}

\* The sections in the order of the report (the same for json), and the
\* samplers a section waits for: the total and the cores are printed together.
Sections ==
  <<"info", "load", "cpu", "memory", "diskusage", "netstats",
    "netrates", "diskstats", "diskrates", "activity", "actrates">>
Awaited(section) ==
  IF section = "cpu" THEN {"cpu", "percpu"} ELSE {section} \cap SamplerSet

ASSUME ReportAssumption ==
  /\ Modes \subseteq {"json", "once", "watch"}
  /\ MayThrow \subseteq {"launch", "section"} \cup SamplerSet

VARIABLES
  mode,
  mpc,       \* main: "launch", "print", "pause", "unwind", "exit", "killed"
  at,        \* the next sampler to launch, or the next section to print
  sampler,   \* each sampler of this frame: "none", "running", "rates", ...
  shown,     \* the sampled sections this frame has printed
  status,    \* the exit status, 0 until an exception is caught
  format,    \* how std::cout writes a double: sticky from print to print
  path,      \* history: sampling windows main has waited for in this frame
  reach,     \* history: each sampler's end, in windows since the frame began
  loads      \* history: the formats the load averages were printed in

mainVars == <<mpc, at, shown, status, format, path, loads>>
vars == <<mode, mpc, at, sampler, shown, status, format, path, reach, loads>>

Outcomes == {"rates", "error", "threw"}
Running == {s \in SamplerSet : sampler[s] = "running"}

Init ==
  /\ mode \in Modes
  /\ mpc = "launch"
  /\ at = 1
  /\ sampler = [s \in SamplerSet |-> "none"]
  /\ shown = {}
  /\ status = 0
  /\ format = "default"
  /\ path = 0
  /\ reach = [s \in SamplerSet |-> 0]
  /\ loads = {}

---------------------------------------------------------------------------
\* A sampler's thread.

Finish(s) ==
  /\ sampler[s] = "running"
  /\ \E o \in Outcomes :
       /\ o = "threw" => s \in MayThrow
       /\ sampler' = [sampler EXCEPT ![s] = o]
  /\ UNCHANGED <<mode, mainVars, reach>>

---------------------------------------------------------------------------
\* The main thread.

\* Mutant: the sampler is called, not launched; main sits through its window.
LaunchInTurn ==
  /\ mpc = "launch"
  /\ LET s == Samplers[at] IN
       /\ sampler' = [sampler EXCEPT ![s] = "running"]
       /\ reach' = [reach EXCEPT ![s] = path + 1]
  /\ path' = path + 1
  /\ IF at < Len(Samplers)
     THEN at' = at + 1 /\ UNCHANGED mpc
     ELSE at' = 1 /\ mpc' = "print"
  /\ UNCHANGED <<mode, shown, status, format, loads>>

\* std::async(std::launch::async, ...): the sampler starts its window now.
Launch ==
  /\ mpc = "launch"
  /\ LET s == Samplers[at] IN
       /\ sampler' = [sampler EXCEPT ![s] = "running"]
       /\ reach' = [reach EXCEPT ![s] = path + 1]
  /\ IF at < Len(Samplers)
     THEN at' = at + 1 /\ UNCHANGED mpc
     ELSE at' = 1 /\ mpc' = "print"
  /\ UNCHANGED <<mode, shown, status, format, path, loads>>

\* Every frame ends behind its last section.
NextSection ==
  IF at < Len(Sections) THEN at' = at + 1 /\ UNCHANGED mpc
  ELSE /\ at' = 1
       /\ mpc' = IF mode = "watch" THEN "pause" ELSE "exit"

\* The formats a section may leave std::cout in.  json is composed in streams
\* of its own; a section without rows inserts no manipulator.
FormatsAfter(section) ==
  CASE mode = "json" -> {format}
    [] section = "actrates" -> {"fixed1"}
    [] section = "cpu" /\ sampler["cpu"] = "rates" -> {"fixed1"}
    [] section \in {"cpu", "diskusage", "diskrates"} -> {format, "fixed1"}
    [] section = "netrates" -> {format, "fixed0"}
    [] OTHER -> {format}

\* A section that is read on the spot: printed, or left out if its read fails.
PrintRead ==
  /\ mpc = "print"
  /\ Awaited(Sections[at]) = {}
  /\ NextSection
  /\ \/ UNCHANGED <<format, loads>>
     \/ /\ format' \in FormatsAfter(Sections[at])
        /\ loads' = IF Sections[at] = "load" THEN loads \cup {format} ELSE loads
  /\ UNCHANGED <<mode, sampler, shown, status, path, reach>>

\* Mutant: the two halves of the CPU section are printed only together.
PrintSampledBoth ==
  /\ mpc = "print"
  /\ LET awaited == Awaited(Sections[at]) IN
       /\ awaited # {}
       /\ \A s \in awaited : sampler[s] \in {"rates", "error"}
       /\ path' = Max({path} \cup {reach[s] : s \in awaited})
       /\ IF \A s \in awaited : sampler[s] = "rates"
          THEN shown' = shown \cup awaited /\ format' \in FormatsAfter(Sections[at])
          ELSE UNCHANGED <<shown, format>>
  /\ NextSection
  /\ UNCHANGED <<mode, sampler, status, reach, loads>>

\* Mutant: main waits for rates and forgets that there may be an error.
PrintSampledOnRates ==
  /\ mpc = "print"
  /\ LET awaited == Awaited(Sections[at]) IN
       /\ awaited # {}
       /\ \A s \in awaited : sampler[s] = "rates"
       /\ path' = Max({path} \cup {reach[s] : s \in awaited})
       /\ shown' = shown \cup awaited
       /\ format' \in FormatsAfter(Sections[at])
  /\ NextSection
  /\ UNCHANGED <<mode, sampler, status, reach, loads>>

\* future.get() blocks until the sampler is through; what came without an
\* error is printed.
PrintSampled ==
  /\ mpc = "print"
  /\ LET awaited == Awaited(Sections[at])
         done == {s \in awaited : sampler[s] = "rates"}
     IN
       /\ awaited # {}
       /\ \A s \in awaited : sampler[s] \in {"rates", "error"}
       /\ path' = Max({path} \cup {reach[s] : s \in awaited})
       /\ shown' = shown \cup done
       /\ IF done = {} THEN UNCHANGED format ELSE format' \in FormatsAfter(Sections[at])
  /\ NextSection
  /\ UNCHANGED <<mode, sampler, status, reach, loads>>

\* --watch: the frame's futures go out of scope, the next frame begins.
Refresh ==
  /\ mpc = "pause"
  /\ mpc' = "launch"
  /\ sampler' = [s \in SamplerSet |-> "none"]
  /\ shown' = {}
  /\ path' = 0
  /\ UNCHANGED <<mode, at, status, format, reach, loads>>

\* future.get() throws again what the sampler threw.  The futures are taken
\* in order: that of the cores after that of the total.
Rethrows(s) ==
  /\ sampler[s] = "threw"
  /\ s = "percpu" => sampler["cpu"] \in {"rates", "error"}

Rethrow ==
  /\ mpc = "print"
  /\ \E s \in Awaited(Sections[at]) : Rethrows(s)
  /\ mpc' = "unwind"
  /\ UNCHANGED <<mode, at, sampler, shown, status, format, path, reach, loads>>

\* An exception of main's own: std::async finds no thread, memory runs out.
Throw ==
  /\ \/ mpc = "launch" /\ "launch" \in MayThrow
     \/ mpc = "print" /\ "section" \in MayThrow
  /\ mpc' = "unwind"
  /\ UNCHANGED <<mode, at, sampler, shown, status, format, path, reach, loads>>

\* Mutant: threads are detached, nobody waits for them.
UnwindDetached ==
  /\ mpc = "unwind"
  /\ mpc' = "exit"
  /\ status' = 1
  /\ UNCHANGED <<mode, at, sampler, shown, format, path, reach, loads>>

\* The frame's futures are destroyed, each joins its thread; then the handler
\* at the end of main is reached.
Unwind ==
  /\ mpc = "unwind"
  /\ Running = {}
  /\ mpc' = "exit"
  /\ status' = 1
  /\ UNCHANGED <<mode, at, sampler, shown, format, path, reach, loads>>

\* Ctrl-C ends the process, all its threads included.
Interrupt ==
  /\ mpc \notin {"exit", "killed"}
  /\ mpc' = "killed"
  /\ sampler' = [s \in SamplerSet |-> "none"]
  /\ UNCHANGED <<mode, at, shown, status, format, path, reach, loads>>

Main == Launch \/ PrintRead \/ PrintSampled \/ Refresh \/ Rethrow \/ Unwind

Next == Main \/ Throw \/ Interrupt \/ \E s \in SamplerSet : Finish(s)

Spec == Init /\ [][Next]_vars

\* The threads are scheduled, a sampler ends (module Rates), the pause of
\* --watch is over after the interval.  Nothing has to go wrong and nobody
\* has to press Ctrl-C.
FairSpec == Spec /\ WF_vars(Main) /\ \A s \in SamplerSet : WF_vars(Finish(s))

---------------------------------------------------------------------------
TypeOK ==
  /\ mode \in Modes
  /\ mpc \in {"launch", "print", "pause", "unwind", "exit", "killed"}
  /\ at \in DOMAIN Sections
  /\ mpc = "launch" => at \in DOMAIN Samplers
  /\ sampler \in [SamplerSet -> {"none", "running"} \cup Outcomes]
  /\ shown \subseteq SamplerSet
  /\ status \in {0, 1}
  /\ format \in {"default", "fixed0", "fixed1"}
  /\ path \in Nat
  /\ reach \in [SamplerSet -> Nat]
  /\ loads \subseteq {"default", "fixed0", "fixed1"}

\* No sampler runs on when its frame is over or main has left, whichever
\* section an exception came from: the samplers hold a reference to an
\* analyzer that is gone then (main.cpp:283-287, 961-964).
NoThreadLeft == mpc \in {"pause", "exit", "killed"} => Running = {}

\* A frame that ends well has waited for every sampler, shows those that
\* have rates, leaves out those that have not, one without the other, and
\* has lost no exception of a thread (main.cpp:310-477).
EverySampleShown ==
  mpc = "pause" \/ (mpc = "exit" /\ status = 0) =>
    \A s \in SamplerSet : /\ sampler[s] \in {"rates", "error"}
                          /\ s \in shown <=> sampler[s] = "rates"

\* However the threads are scheduled, the longest chain of sampling windows
\* that a frame has waited for is one: "the report waits a single 200 ms
\* window instead of five sequential ones" (main.cpp:280-281).
OneWindow == path <= 1

\* The report ends or, with --watch, begins again and again; it never hangs
\* (main.cpp:276-477).
ReportGoesOn ==
  \/ mode = "watch" /\ []<>(mpc = "launch")
  \/ <>(mpc \in {"exit", "killed"})

\* --watch repeats the report (main.cpp:273): the load averages of a later
\* frame are written as those of the first.
SameReportEveryFrame == Cardinality(loads) <= 1
=============================================================================
