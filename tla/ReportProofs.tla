---------------------------- MODULE ReportProofs ----------------------------
(***************************************************************************)
(* Theorems about the system report and about the samplers it launches.    *)
(*                                                                         *)
(* Module Report: for every way to call the command and every place an     *)
(* exception may come from, no sampler thread outlives its frame, a frame  *)
(* that ends well shows every sample there is, and it has waited for one   *)
(* sampling window.                                                        *)
(*                                                                         *)
(* Module Rates, which is what a sampler does between its launch and its   *)
(* end: for every width of the counters and every set of devices, a device *)
(* that lasts is measured right, and no other is measured against nothing. *)
(***************************************************************************)
EXTENDS Report, Rates, FiniteSetTheorems, SequenceTheorems, TLAPS

\* The position of the section a sampler is printed in.
Place == [s \in SamplerSet |->
            IF s \in {"cpu", "percpu"} THEN 3
            ELSE IF s = "netrates" THEN 7
            ELSE IF s = "diskrates" THEN 9
            ELSE 11]

Settled(s) ==
  /\ sampler[s] \in {"rates", "error"}
  /\ s \in shown <=> sampler[s] = "rates"

(***************************************************************************)
(* The samplers of the sections behind main are settled; those ahead are   *)
(* not shown yet.  So when main is behind the last section, all of them    *)
(* are, and none is running.                                               *)
(***************************************************************************)
BehindAndAhead ==
  mpc = "print" => \A s \in SamplerSet : /\ Place[s] < at => Settled(s)
                                         /\ Place[s] >= at => s \notin shown
Clean == mpc = "launch" => shown = {} /\ path = 0
AtStart == mpc = "pause" => at = 1
ShortReach == path \in {0, 1} /\ reach \in [SamplerSet -> {0, 1}]

IInv ==
  /\ TypeOK
  /\ ShortReach
  /\ Clean
  /\ AtStart
  /\ BehindAndAhead
  /\ NoThreadLeft
  /\ EverySampleShown

-----------------------------------------------------------------------------
\* There are five samplers.
LEMMA SamplerNames ==
  /\ SamplerSet = {"cpu", "percpu", "netrates", "diskrates", "actrates"}
  /\ DOMAIN Samplers = 1 .. 5
  /\ Len(Samplers) = 5
  /\ \A i \in 1 .. 5 : Samplers[i] \in SamplerSet
<1>1. DOMAIN Samplers = 1 .. 5 /\ Len(Samplers) = 5
  BY DEF Samplers
<1>2. SamplerSet = {Samplers[1], Samplers[2], Samplers[3], Samplers[4], Samplers[5]}
  <2>1. \A i : i \in 1 .. 5 <=> i \in {1, 2, 3, 4, 5}
    OBVIOUS
  <2> QED  BY <1>1, <2>1 DEF SamplerSet
<1>3. /\ Samplers[1] = "cpu" /\ Samplers[2] = "percpu" /\ Samplers[3] = "netrates"
      /\ Samplers[4] = "diskrates" /\ Samplers[5] = "actrates"
  BY DEF Samplers
<1> QED  BY <1>1, <1>2, <1>3 DEF SamplerSet

\* There are eleven sections.
LEMMA SectionNames ==
  /\ DOMAIN Sections = 1 .. 11
  /\ Len(Sections) = 11
  BY DEF Sections

\* Every sampler is awaited by a section.
LEMMA PlaceType == Place \in [SamplerSet -> 1 .. 11]
  BY DEF Place

\* A section waits for the samplers that are placed there.
LEMMA AwaitedByPlace ==
  ASSUME NEW i \in 1 .. 11
  PROVE  Awaited(Sections[i]) = {s \in SamplerSet : Place[s] = i}
<1>1. i \in {1, 2, 3, 4, 5, 6, 7, 8, 9, 10, 11}
  OBVIOUS
<1>2. /\ Sections[1] = "info" /\ Sections[2] = "load" /\ Sections[3] = "cpu"
      /\ Sections[4] = "memory" /\ Sections[5] = "diskusage" /\ Sections[6] = "netstats"
      /\ Sections[7] = "netrates" /\ Sections[8] = "diskstats" /\ Sections[9] = "diskrates"
      /\ Sections[10] = "activity" /\ Sections[11] = "actrates"
  BY DEF Sections
<1>3. /\ Place["cpu"] = 3 /\ Place["percpu"] = 3 /\ Place["netrates"] = 7
      /\ Place["diskrates"] = 9 /\ Place["actrates"] = 11
  BY SamplerNames DEF Place
<1>4. {s \in SamplerSet : Place[s] = i} =
        IF i = 3 THEN {"cpu", "percpu"} ELSE
        IF i = 7 THEN {"netrates"} ELSE
        IF i = 9 THEN {"diskrates"} ELSE
        IF i = 11 THEN {"actrates"} ELSE {}
  BY <1>1, <1>3, SamplerNames
<1>5. Awaited(Sections[i]) =
        IF i = 3 THEN {"cpu", "percpu"} ELSE
        IF i = 7 THEN {"netrates"} ELSE
        IF i = 9 THEN {"diskrates"} ELSE
        IF i = 11 THEN {"actrates"} ELSE {}
  <2>1. CASE i = 3  BY <2>1, <1>2 DEF Awaited
  <2>2. CASE i = 7  BY <2>2, <1>2, SamplerNames DEF Awaited
  <2>3. CASE i = 9  BY <2>3, <1>2, SamplerNames DEF Awaited
  <2>4. CASE i = 11  BY <2>4, <1>2, SamplerNames DEF Awaited
  <2>5. CASE i \in {1, 2, 4, 5, 6, 8, 10}
    <3>1. Sections[i] \in {"info", "load", "memory", "diskusage", "netstats",
                           "diskstats", "activity"}
      BY <2>5, <1>2
    <3>2. Awaited(Sections[i]) = {}
      BY <3>1, SamplerNames DEF Awaited
    <3> QED  BY <3>2, <2>5
  <2> QED  BY <1>1, <2>1, <2>2, <2>3, <2>4, <2>5
<1> QED  BY <1>4, <1>5

\* The maximum of a set of zeros and ones is one of them.
LEMMA MaxOfBits ==
  ASSUME NEW S, S \subseteq {0, 1}, S # {}
  PROVE  Max(S) \in S
<1>1. \E x \in S : \A y \in S : x >= y
  <2>1. CASE 1 \in S  BY <2>1
  <2>2. CASE 1 \notin S
    <3>1. S = {0}
      BY <2>2, Zenon
    <3> QED  BY <3>1
  <2> QED  BY <2>1, <2>2
<1> QED  BY <1>1 DEF Max

-----------------------------------------------------------------------------
\* No report has begun: the invariant holds.
LEMMA InitIInv == Init => IInv
<1> SUFFICES ASSUME Init PROVE IInv
  OBVIOUS
<1>1. TypeOK
  BY SamplerNames, SectionNames DEF Init, TypeOK
<1>2. ShortReach /\ Clean /\ AtStart /\ BehindAndAhead
  BY DEF Init, ShortReach, Clean, AtStart, BehindAndAhead
<1>3. NoThreadLeft /\ EverySampleShown
  BY DEF Init, NoThreadLeft, EverySampleShown
<1> QED  BY <1>1, <1>2, <1>3 DEF IInv

\* A sampler that finishes keeps the invariant.
LEMMA FinishStep ==
  ASSUME IInv, NEW s \in SamplerSet, Finish(s)
  PROVE  IInv'
<1> USE DEF IInv, Finish, mainVars
<1>1. PICK o \in Outcomes : sampler' = [sampler EXCEPT ![s] = o]
  OBVIOUS
<1>2. TypeOK'
  BY <1>1 DEF TypeOK
<1>3. Running # {}
  BY DEF Running
<1>4. mpc \notin {"pause", "exit", "killed"}
  BY <1>3 DEF NoThreadLeft
<1>5. BehindAndAhead'
  BY <1>1 DEF BehindAndAhead, Settled, TypeOK
<1>6. (ShortReach /\ Clean /\ AtStart)'
  BY DEF ShortReach, Clean, AtStart
<1>7. (NoThreadLeft /\ EverySampleShown)'
  BY <1>4 DEF NoThreadLeft, EverySampleShown
<1> QED  BY <1>2, <1>5, <1>6, <1>7

\* All the samplers asked for are launched before the first section.
LEMMA LaunchStep ==
  ASSUME IInv, Launch
  PROVE  IInv'
<1> USE DEF IInv, Launch
<1> DEFINE s == Samplers[at]
<1>1. s \in SamplerSet /\ at \in 1 .. 5
  BY SamplerNames DEF TypeOK
<1>2. sampler' \in [SamplerSet -> {"none", "running"} \cup Outcomes]
  BY <1>1 DEF TypeOK
<1>3. at' \in 1 .. 11 /\ (mpc' = "launch" => at' \in 1 .. 5) /\ mpc' \in {"launch", "print"}
  BY <1>1, SamplerNames
<1>4. ShortReach'
  BY <1>1 DEF ShortReach, Clean
<1>5. TypeOK'
  BY <1>2, <1>3, <1>4, SamplerNames, SectionNames DEF TypeOK, ShortReach
<1>6. (Clean /\ AtStart)'
  BY <1>3 DEF Clean, AtStart
<1>7. BehindAndAhead'
  <2>1. mpc' = "print" => at' = 1
    BY SamplerNames
  <2> QED  BY <2>1, PlaceType DEF BehindAndAhead, Clean
<1>8. (NoThreadLeft /\ EverySampleShown)'
  BY <1>3 DEF NoThreadLeft, EverySampleShown
<1> QED  BY <1>4, <1>5, <1>6, <1>7, <1>8

\* What the end of a section comes to: the next one, or the end of the frame.
LEMMA NextSectionMoves ==
  ASSUME TypeOK, mpc = "print", NextSection
  PROVE  /\ at \in 1 .. 11
         /\ \/ at < 11 /\ at' = at + 1 /\ mpc' = "print"
            \/ at = 11 /\ at' = 1 /\ mpc' \in {"pause", "exit"}
  BY SectionNames DEF TypeOK, NextSection

\* A section that reads is printed in its place.
LEMMA PrintReadStep ==
  ASSUME IInv, PrintRead
  PROVE  IInv'
<1> USE DEF IInv
<1>1. /\ mpc = "print" /\ NextSection /\ Awaited(Sections[at]) = {}
      /\ UNCHANGED <<mode, sampler, shown, status, path, reach>>
  BY DEF PrintRead
<1>2. at \in 1 .. 11
  BY SectionNames DEF TypeOK
<1>3. \A s \in SamplerSet : Place[s] # at
  BY <1>1, <1>2, AwaitedByPlace
<1>4. at # 11
  BY <1>3, SamplerNames DEF Place
<1>5. at' = at + 1 /\ mpc' = "print" /\ at' \in 1 .. 11
  BY <1>1, <1>2, <1>4, NextSectionMoves
<1>6. format' \in {"default", "fixed0", "fixed1"}
  BY DEF PrintRead, FormatsAfter, TypeOK
<1>7. loads' \subseteq {"default", "fixed0", "fixed1"}
  BY DEF PrintRead, TypeOK
<1>8. TypeOK'
  BY <1>1, <1>5, <1>6, <1>7, SectionNames DEF TypeOK
<1>9. BehindAndAhead'
  <2>1. \A s \in SamplerSet : Place[s] < at' => Place[s] < at
    BY <1>2, <1>3, <1>5, PlaceType
  <2>2. \A s \in SamplerSet : Place[s] >= at' => Place[s] >= at
    BY <1>2, <1>5, PlaceType
  <2>3. \A s \in SamplerSet : Settled(s) => Settled(s)'
    BY <1>1 DEF Settled
  <2> QED  BY <1>1, <2>1, <2>2, <2>3 DEF BehindAndAhead
<1>10. (ShortReach /\ Clean /\ AtStart /\ NoThreadLeft /\ EverySampleShown)'
  BY <1>1, <1>5 DEF ShortReach, Clean, AtStart, NoThreadLeft, EverySampleShown
<1> QED  BY <1>8, <1>9, <1>10

\* A section that samples is printed in its place, and uses its sample once.
LEMMA PrintSampledStep ==
  ASSUME IInv, PrintSampled
  PROVE  IInv'
<1> USE DEF IInv
<1> DEFINE awaited == Awaited(Sections[at])
           done == {s \in awaited : sampler[s] = "rates"}
           waits == {path} \cup {reach[s] : s \in awaited}
<1>1. /\ mpc = "print" /\ NextSection
      /\ \A s \in awaited : sampler[s] \in {"rates", "error"}
      /\ path' = Max(waits)
      /\ shown' = shown \cup done
      /\ UNCHANGED <<mode, sampler, status, reach, loads>>
  BY DEF PrintSampled
<1>2. format' \in {"default", "fixed0", "fixed1"}
  BY DEF PrintSampled, FormatsAfter, TypeOK
<1>3. /\ at \in 1 .. 11
      /\ \/ at < 11 /\ at' = at + 1 /\ mpc' = "print"
         \/ at = 11 /\ at' = 1 /\ mpc' \in {"pause", "exit"}
  BY <1>1, NextSectionMoves
<1>4. awaited = {s \in SamplerSet : Place[s] = at}
  BY <1>3, AwaitedByPlace
<1> HIDE DEF awaited
<1>5. path' \in {0, 1}
  <2>1. waits \subseteq {0, 1} /\ waits # {}
    BY <1>4 DEF ShortReach
  <2> QED  BY <1>1, <2>1, MaxOfBits
<1>6. ShortReach'
  BY <1>1, <1>5 DEF ShortReach
<1>7. TypeOK'
  <2>1. shown' \subseteq SamplerSet
    BY <1>1, <1>4 DEF TypeOK
  <2> QED  BY <1>1, <1>2, <1>3, <1>5, <2>1, SectionNames DEF TypeOK
<1>8. \A s \in SamplerSet : Place[s] <= at => Settled(s)'
  <2> SUFFICES ASSUME NEW s \in SamplerSet, Place[s] <= at PROVE Settled(s)'
    OBVIOUS
  <2>1. Place[s] \in 1 .. 11
    BY PlaceType
  <2>2. CASE Place[s] < at
    <3>1. s \notin awaited
      BY <1>3, <1>4, <2>1, <2>2
    <3>2. Settled(s)
      BY <1>1, <2>2 DEF BehindAndAhead
    <3> QED  BY <1>1, <3>1, <3>2 DEF Settled
  <2>3. CASE Place[s] = at
    <3>1. s \in awaited /\ s \notin shown
      BY <1>1, <1>3, <1>4, <2>3 DEF BehindAndAhead
    <3> QED  BY <1>1, <3>1 DEF Settled
  <2> QED  BY <1>3, <2>1, <2>2, <2>3
<1>9. BehindAndAhead'
  <2> SUFFICES ASSUME mpc' = "print", NEW s \in SamplerSet
               PROVE  /\ Place[s] < at' => Settled(s)'
                      /\ Place[s] >= at' => s \notin shown'
    BY DEF BehindAndAhead
  <2>1. at' = at + 1 /\ Place[s] \in 1 .. 11
    BY <1>3, PlaceType
  <2>2. Place[s] < at' => Settled(s)'
    BY <1>3, <1>8, <2>1
  <2>3. Place[s] >= at' => s \notin shown'
    <3> SUFFICES ASSUME Place[s] >= at' PROVE s \notin shown'
      OBVIOUS
    <3>1. Place[s] >= at /\ Place[s] # at
      BY <1>3, <2>1
    <3>2. s \notin shown /\ s \notin awaited
      BY <1>1, <1>4, <3>1 DEF BehindAndAhead
    <3> QED  BY <1>1, <3>2
  <2> QED  BY <2>2, <2>3
<1>10. mpc' \in {"pause", "exit"} => \A s \in SamplerSet : Settled(s)'
  <2> SUFFICES ASSUME mpc' \in {"pause", "exit"}, NEW s \in SamplerSet
               PROVE  Settled(s)'
    OBVIOUS
  <2>1. at = 11 /\ Place[s] \in 1 .. 11
    BY <1>3, PlaceType
  <2> QED  BY <1>8, <2>1
<1>11. NoThreadLeft'
  <2>1. mpc' # "killed"
    BY <1>3
  <2>2. \A s \in SamplerSet : Settled(s)' => sampler'[s] # "running"
    BY DEF Settled
  <2> QED  BY <1>10, <2>1, <2>2 DEF NoThreadLeft, Running
<1>12. EverySampleShown'
  BY <1>10 DEF EverySampleShown, Settled
<1>13. (Clean /\ AtStart)'
  BY <1>3 DEF Clean, AtStart
<1> QED  BY <1>6, <1>7, <1>9, <1>11, <1>12, <1>13

\* A frame of --watch begins with everything to be done again.
LEMMA RefreshStep ==
  ASSUME IInv, Refresh
  PROVE  IInv'
<1> USE DEF IInv, Refresh
<1>1. TypeOK'
  BY SamplerNames DEF TypeOK, AtStart
<1>2. (ShortReach /\ Clean /\ AtStart /\ BehindAndAhead)'
  BY DEF ShortReach, Clean, AtStart, BehindAndAhead
<1>3. (NoThreadLeft /\ EverySampleShown)'
  BY DEF NoThreadLeft, EverySampleShown
<1> QED  BY <1>1, <1>2, <1>3

\* An exception leaves the frame as it is and only moves main.
LEMMA ThrowStep ==
  ASSUME IInv, Throw \/ Rethrow
  PROVE  IInv'
<1> USE DEF IInv
<1>1. /\ mpc' = "unwind"
      /\ UNCHANGED <<mode, at, sampler, shown, status, format, path, reach, loads>>
  BY DEF Throw, Rethrow
<1>2. TypeOK' /\ ShortReach'
  BY <1>1 DEF TypeOK, ShortReach
<1>3. (Clean /\ AtStart /\ BehindAndAhead /\ NoThreadLeft /\ EverySampleShown)'
  BY <1>1 DEF Clean, AtStart, BehindAndAhead, NoThreadLeft, EverySampleShown
<1> QED  BY <1>2, <1>3

\* Main leaves only when the last of the frame's threads is joined.
LEMMA UnwindStep ==
  ASSUME IInv, Unwind
  PROVE  IInv'
<1> USE DEF IInv, Unwind
<1>1. TypeOK' /\ ShortReach'
  BY DEF TypeOK, ShortReach
<1>2. Running' = {}
  BY DEF Running
<1>3. (Clean /\ AtStart /\ BehindAndAhead)'
  BY DEF Clean, AtStart, BehindAndAhead
<1>4. (NoThreadLeft /\ EverySampleShown)'
  BY <1>2 DEF NoThreadLeft, EverySampleShown
<1> QED  BY <1>1, <1>3, <1>4

\* An interrupt ends the program, whatever samplers are running.
LEMMA InterruptStep ==
  ASSUME IInv, Interrupt
  PROVE  IInv'
<1> USE DEF IInv, Interrupt
<1>1. TypeOK' /\ ShortReach'
  BY DEF TypeOK, ShortReach
<1>2. (Clean /\ AtStart /\ BehindAndAhead /\ EverySampleShown)'
  BY DEF Clean, AtStart, BehindAndAhead, EverySampleShown
<1>3. NoThreadLeft'
  BY DEF NoThreadLeft, Running
<1> QED  BY <1>1, <1>2, <1>3

\* The invariant is about these variables only.
LEMMA StutterStep ==
  ASSUME IInv, UNCHANGED vars
  PROVE  IInv'
<1>1. TypeOK' /\ ShortReach'
  BY DEF IInv, vars, TypeOK, ShortReach
<1>2. (Clean /\ AtStart /\ BehindAndAhead)'
  BY DEF IInv, vars, Clean, AtStart, BehindAndAhead, Settled
<1>3. (NoThreadLeft /\ EverySampleShown)'
  BY DEF IInv, vars, NoThreadLeft, EverySampleShown, Running
<1> QED  BY <1>1, <1>2, <1>3 DEF IInv

-----------------------------------------------------------------------------
\* The inductive invariant of the report (main.cpp:276-477): what is behind
\* main is settled, what is ahead is not shown.
THEOREM ReportInvariance == Spec => []IInv
<1>1. ASSUME IInv, [Next]_vars PROVE IInv'
  <2>1. CASE Launch  BY <1>1, <2>1, LaunchStep
  <2>2. CASE PrintRead  BY <1>1, <2>2, PrintReadStep
  <2>3. CASE PrintSampled  BY <1>1, <2>3, PrintSampledStep
  <2>4. CASE Refresh  BY <1>1, <2>4, RefreshStep
  <2>5. CASE Throw \/ Rethrow  BY <1>1, <2>5, ThrowStep
  <2>6. CASE Unwind  BY <1>1, <2>6, UnwindStep
  <2>7. CASE Interrupt  BY <1>1, <2>7, InterruptStep
  <2>8. CASE \E s \in SamplerSet : Finish(s)  BY <1>1, <2>8, FinishStep
  <2>9. CASE UNCHANGED vars  BY <1>1, <2>9, StutterStep
  <2> QED  BY <1>1, <2>1, <2>2, <2>3, <2>4, <2>5, <2>6, <2>7, <2>8, <2>9 DEF Next, Main
<1> QED  BY <1>1, InitIInv, PTL DEF Spec

\* Every variable of the report keeps its type.
THEOREM ReportTypeCorrect == Spec => []TypeOK
<1>1. IInv => TypeOK
  BY DEF IInv
<1> QED  BY <1>1, ReportInvariance, PTL

\* When a frame is over or the program leaves, by whatever exception, every
\* sampler thread has ended (main.cpp:283-287, 961-964).
THEOREM NoThreadOutlivesItsFrame == Spec => []NoThreadLeft
<1>1. IInv => NoThreadLeft
  BY DEF IInv
<1> QED  BY <1>1, ReportInvariance, PTL

\* A frame that ends well has waited for every sampler and shows exactly
\* those with rates (main.cpp:310-477).
THEOREM NoSampleForgotten == Spec => []EverySampleShown
<1>1. IInv => EverySampleShown
  BY DEF IInv
<1> QED  BY <1>1, ReportInvariance, PTL

\* A frame waits for one sampling window, not for five (main.cpp:280-281).
THEOREM OneWindowPerFrame == Spec => []OneWindow
<1>1. IInv => OneWindow
  BY DEF IInv, ShortReach, OneWindow
<1> QED  BY <1>1, ReportInvariance, PTL

-----------------------------------------------------------------------------
(* One sampler (module Rates): what the unsigned arithmetic comes to. *)

\* The remainder is the one there is.
LEMMA Remainder ==
  ASSUME NEW m \in Nat, m > 0, NEW q \in Int, NEW r \in 0 .. m - 1, NEW a \in Int, a = m * q + r
  PROVE  a % m = r
OBVIOUS

\* A number is so many times the modulus and its remainder.
LEMMA Divided ==
  ASSUME NEW m \in Nat, m > 0, NEW a \in Int
  PROVE  /\ a % m \in 0 .. m - 1
         /\ \E q \in Int : a = m * q + (a % m)
<1>1. a % m \in 0 .. m - 1
  OBVIOUS
<1>2. a \div m \in Int /\ a = m * (a \div m) + (a % m)
  OBVIOUS
<1> QED
  BY <1>1, <1>2

\* Multiples of the modulus apart, the remainders are the same.
LEMMA SameRemainder ==
  ASSUME NEW m \in Nat, m > 0, NEW q \in Int, NEW b \in Int
  PROVE  (b + m * q) % m = b % m
<1>0. PICK a \in Int : a = b + m * q
  OBVIOUS
<1>1. PICK p \in Int : b = m * p + (b % m)
  BY Divided
<1>2. PICK r \in 0 .. m - 1 : r = b % m
  BY Divided
<1>3. PICK t \in Int : t = p + q
  OBVIOUS
<1>4. m * t = m * p + m * q
  BY <1>3
<1>5. a = m * t + r
  BY <1>0, <1>1, <1>2, <1>4
<1>6. a \in Int /\ t \in Int /\ r \in 0 .. m - 1
  BY <1>0, <1>2, <1>3
<1>7. a % m = r
  BY <1>5, <1>6, Remainder
<1> QED
  BY <1>0, <1>2, <1>7, Zenon

\* A difference that is not too great survives the wrap.
LEMMA DifferenceExact ==
  ASSUME NEW m \in Nat, m > 0, NEW a \in Int, NEW b \in Int, b - a \in 0 .. m - 1
  PROVE  ((b % m) - (a % m)) % m = b - a
<1>1. PICK p \in Int : a = m * p + (a % m)
  BY Divided
<1>2. PICK q \in Int : b = m * q + (b % m)
  BY Divided
<1>3. a % m \in Int /\ b % m \in Int
  BY Divided
<1>4. p - q \in Int /\ m * (p - q) = m * p - m * q
  OBVIOUS
<1>5. (b % m) - (a % m) = m * (p - q) + (b - a)
  BY <1>1, <1>2, <1>3, <1>4
<1> QED
  BY <1>3, <1>4, <1>5, Remainder

\* Adding before or after the wrap comes to the same.
LEMMA SumOfRemainders ==
  ASSUME NEW m \in Nat, m > 0, NEW a \in Int, NEW b \in Int
  PROVE  ((a % m) + (b % m)) % m = (a + b) % m
<1>1. PICK p \in Int : a = m * p + (a % m)
  BY Divided
<1>2. PICK q \in Int : b = m * q + (b % m)
  BY Divided
<1>3. PICK x \in Int : x = (a % m) + (b % m)
  BY Divided
<1>4. PICK t \in Int : t = p + q
  OBVIOUS
<1>5. m * t = m * p + m * q
  BY <1>4
<1>6. PICK z \in Int : z = a + b
  OBVIOUS
<1>7. z = x + m * t
  <2>1. a % m \in Int /\ b % m \in Int
    BY Divided
  <2> QED
    BY <1>1, <1>2, <1>3, <1>5, <1>6, <2>1
<1>8. x \in Int /\ t \in Int /\ z \in Int
  BY <1>3, <1>4, <1>6
<1>9. (x + m * t) % m = x % m
  BY <1>8, SameRemainder, Zenon
<1> QED
  BY <1>3, <1>6, <1>7, <1>9, Zenon

\* Every number of the set has its place in the order, and its own.
LEMMA AscendingEnumerates ==
  ASSUME NEW S, S \subseteq Nat, IsFiniteSet(S)
  PROVE  /\ Cardinality(S) \in Nat
         /\ DOMAIN Ascending(S) = 1 .. Cardinality(S)
         /\ \A k \in DOMAIN Ascending(S) : Ascending(S)[k] \in S
         /\ \A k, l \in DOMAIN Ascending(S) : Ascending(S)[k] = Ascending(S)[l] => k = l
         /\ \A d \in S : \E k \in DOMAIN Ascending(S) : Ascending(S)[k] = d
<1> DEFINE n == Cardinality(S)
           Below(d) == {e \in S : e < d}
           rank == [d \in S |-> Cardinality(Below(d))]
<1>0. n \in Nat
  BY FS_CardinalityType
<1>1. ASSUME NEW d \in S PROVE rank[d] \in 0 .. n - 1
  <2>1. Below(d) \subseteq S /\ Below(d) # S
    OBVIOUS
  <2>2. Cardinality(Below(d)) \in Nat /\ Cardinality(Below(d)) < n
    BY <2>1, FS_Subset, FS_CardinalityType
  <2> QED
    BY <1>0, <2>2
<1>2. ASSUME NEW d \in S, NEW e \in S, d < e PROVE rank[d] < rank[e]
  <2>0. \A x \in S : x \in Int
    OBVIOUS
  <2>1. Below(d) \subseteq Below(e) /\ d \in Below(e) /\ d \notin Below(d)
    <3>1. d \in Below(e) /\ d \notin Below(d)
      BY <1>2, <2>0
    <3>2. ASSUME NEW x \in Below(d) PROVE x \in Below(e)
      BY <1>2, <2>0, <3>2
    <3> QED
      BY <3>1, <3>2
  <2>2. IsFiniteSet(Below(e))
    <3>1. Below(e) \subseteq S
      OBVIOUS
    <3> QED
      BY <3>1, FS_Subset
  <2>3. Cardinality(Below(d)) < Cardinality(Below(e))
    <3> HIDE DEF Below
    <3>1. Cardinality(Below(e)) \in Nat
      BY <2>2, FS_CardinalityType
    <3>2. Below(d) \in SUBSET Below(e) /\ Below(d) # Below(e)
      BY <2>1
    <3>3. IsFiniteSet(Below(d)) /\ Cardinality(Below(d)) <= Cardinality(Below(e))
          /\ Cardinality(Below(d)) # Cardinality(Below(e))
      BY <2>2, <3>2, FS_Subset
    <3>4. Cardinality(Below(d)) \in Nat
      BY <3>3, FS_CardinalityType
    <3> QED
      BY <3>1, <3>3, <3>4
  <2> QED
    BY <2>3
<1>3. ASSUME NEW d \in S, NEW e \in S, rank[d] = rank[e] PROVE d = e
  <2>1. rank[d] \in Int /\ rank[e] \in Int
    BY <1>0, <1>1
  <2>2. ~(d < e) /\ ~(e < d)
    BY <1>2, <1>3, <2>1
  <2> QED
    BY <2>2
<1> HIDE DEF rank
<1>4. rank \in [S -> 0 .. n - 1]
  BY <1>1 DEF rank
<1>5. IsFiniteSet(0 .. n - 1) /\ Cardinality(0 .. n - 1) = n
  <2> HIDE DEF n
  <2>1. 0 \in Int /\ n - 1 \in Int
    BY <1>0
  <2>2. /\ IsFiniteSet(0 .. n - 1)
        /\ Cardinality(0 .. n - 1) = IF 0 > n - 1 THEN 0 ELSE (n - 1) - 0 + 1
    BY <2>1, FS_Interval
  <2> QED
    BY <1>0, <2>2
<1>6. rank \in Surjection(S, 0 .. n - 1)
  <2>1. rank \in Injection(S, 0 .. n - 1)
    BY <1>3, <1>4 DEF Injection, IsInjective
  <2> QED
    BY <1>5, <2>1, FS_Injection
<1>7. ASSUME NEW k \in 1 .. n PROVE Ascending(S)[k] \in S /\ rank[Ascending(S)[k]] = k - 1
  <2>1. k - 1 \in 0 .. n - 1
    BY <1>0
  <2>2. \E d \in S : rank[d] = k - 1
    BY <1>6, <2>1 DEF Surjection
  <2>3. \E d \in S : Cardinality(Below(d)) = k - 1
    BY <2>2 DEF rank
  <2>4. Ascending(S)[k] = CHOOSE d \in S : Cardinality(Below(d)) = k - 1
    BY DEF Ascending
  <2>5. Ascending(S)[k] \in S /\ Cardinality(Below(Ascending(S)[k])) = k - 1
    <3> HIDE DEF Below
    <3> QED
      BY <2>3, <2>4
  <2> QED
    BY <2>5 DEF rank
<1>8. DOMAIN Ascending(S) = 1 .. n
  BY DEF Ascending
<1>9. ASSUME NEW k \in 1 .. n, NEW l \in 1 .. n, Ascending(S)[k] = Ascending(S)[l] PROVE k = l
  <2>1. k - 1 = l - 1
    BY <1>7, <1>9
  <2> QED
    BY <1>0, <2>1
<1>10. ASSUME NEW d \in S PROVE \E k \in 1 .. n : Ascending(S)[k] = d
  <2>1. rank[d] \in 0 .. n - 1
    BY <1>4
  <2>2. rank[d] + 1 \in 1 .. n /\ (rank[d] + 1) - 1 = rank[d]
    BY <1>0, <2>1
  <2>3. rank[Ascending(S)[rank[d] + 1]] = rank[d] /\ Ascending(S)[rank[d] + 1] \in S
    BY <1>7, <2>2
  <2> QED
    BY <1>3, <2>2, <2>3
<1> QED
  BY <1>0, <1>7, <1>8, <1>9, <1>10

-----------------------------------------------------------------------------
\* The one row of device d.
RowOf(standing, d) ==
  [name |-> d, busy |-> standing[d].busy % Modulus, idle |-> standing[d].idle % Modulus]

\* What a file may say: some devices, with the counters they have.
IsStanding(standing) ==
  DOMAIN standing \subseteq Counted /\ standing \in [DOMAIN standing -> Count]

\* The modulus and the devices.
LEMMA Parameters ==
  /\ Modulus \in Nat /\ Modulus > 0 /\ MaxTicks \in Nat /\ MaxTicks < Modulus
  /\ Counted \subseteq Nat /\ IsFiniteSet(Counted)
<1>1. IsFiniteSet({0}) /\ IsFiniteSet(Devices)
  BY FS_Singleton, RatesAssumption
<1>2. Counted \subseteq Nat /\ IsFiniteSet(Counted)
  BY <1>1, RatesAssumption DEF Counted
<1> QED
  BY <1>2, RatesAssumption

\* A row has its type.
LEMMA RowType ==
  ASSUME NEW st, IsStanding(st), NEW d \in DOMAIN st
  PROVE  RowOf(st, d) \in Row
<1>1. st[d] \in Count /\ d \in Nat
  BY Parameters DEF IsStanding
<1>2. st[d].busy \in Int /\ st[d].idle \in Int
  BY <1>1 DEF Count
<1>3. st[d].busy % Modulus \in 0 .. Modulus - 1 /\ st[d].idle % Modulus \in 0 .. Modulus - 1
  BY <1>2, Parameters, Divided
<1> QED
  BY <1>1, <1>3 DEF RowOf, Row

\* The parser makes one row of each device that is listed.
LEMMA RowsOfStanding ==
  ASSUME NEW st, IsStanding(st)
  PROVE  /\ Cardinality(DOMAIN st) \in Nat
         /\ DOMAIN RowsOf(st) = 1 .. Cardinality(DOMAIN st)
         /\ RowsOf(st) \in Seq(Row)
         /\ \A k \in DOMAIN RowsOf(st) : /\ RowsOf(st)[k].name \in DOMAIN st
                                       /\ RowsOf(st)[k] = RowOf(st, RowsOf(st)[k].name)
                                       /\ RowsOf(st)[k].name = Ascending(DOMAIN st)[k]
         /\ \A k, l \in DOMAIN RowsOf(st) : RowsOf(st)[k].name = RowsOf(st)[l].name => k = l
         /\ \A d \in DOMAIN st : \E k \in DOMAIN RowsOf(st) : RowsOf(st)[k].name = d
<1> DEFINE names == Ascending(DOMAIN st)
<1>1. DOMAIN st \subseteq Nat /\ IsFiniteSet(DOMAIN st)
  BY Parameters, FS_Subset DEF IsStanding
<1>2. /\ Cardinality(DOMAIN st) \in Nat
      /\ DOMAIN names = 1 .. Cardinality(DOMAIN st)
      /\ \A k \in DOMAIN names : names[k] \in DOMAIN st
      /\ \A k, l \in DOMAIN names : names[k] = names[l] => k = l
      /\ \A d \in DOMAIN st : \E k \in DOMAIN names : names[k] = d
  BY <1>1, AscendingEnumerates
<1> HIDE DEF names
<1>3. RowsOf(st) = [k \in DOMAIN names |-> RowOf(st, names[k])]
  BY DEF RowsOf, RowOf, names
<1>4. DOMAIN RowsOf(st) = DOMAIN names
  BY <1>3
<1>5. ASSUME NEW k \in DOMAIN names
      PROVE  RowsOf(st)[k] = RowOf(st, names[k]) /\ RowsOf(st)[k].name = names[k]
  BY <1>3 DEF RowOf
<1>6. RowsOf(st) \in Seq(Row)
  <2>1. \A k \in DOMAIN names : RowOf(st, names[k]) \in Row
    BY <1>2, RowType
  <2>2. RowsOf(st) \in [1 .. Cardinality(DOMAIN st) -> Row]
    BY <1>2, <1>3, <2>1
  <2> QED
    BY <1>2, <2>2
<1>7. names = Ascending(DOMAIN st)
  BY DEF names
<1> QED
  BY <1>2, <1>4, <1>5, <1>6, <1>7

-----------------------------------------------------------------------------
\* What a result comes to, however the rows were paired: one row for each of
\* the devices D, made of its own rows of the two reads.
Measures(r, a, b, D) ==
  /\ \A k \in DOMAIN r : \E d \in D : r[k] = RateOf(RowOf(a, d), RowOf(b, d))
  /\ \A k, l \in DOMAIN r : r[k].name = r[l].name => k = l
  /\ \A d \in D : \E k \in DOMAIN r : r[k].name = d

\* A row of rates has its type, whichever rows it is made of.
LEMMA RateType ==
  ASSUME NEW p \in Row, NEW q \in Row
  PROVE  RateOf(p, q) \in RateRow /\ RateOf(p, q).name = q.name
<1>1. /\ p.busy \in Int /\ p.idle \in Int /\ q.busy \in Int /\ q.idle \in Int /\ q.name \in Nat
  BY Parameters DEF Row
<1>2. ASSUME NEW x \in Int PROVE x % Modulus \in 0 .. Modulus - 1
  BY Parameters, Divided
<1>3. Gain(p.busy, q.busy) \in 0 .. Modulus - 1
  <2>1. q.busy - p.busy \in Int
    BY <1>1
  <2> QED
    BY <1>2, <2>1 DEF Gain
<1>4. Gain((p.busy + p.idle) % Modulus, (q.busy + q.idle) % Modulus) \in 0 .. Modulus - 1
  <2>1. p.busy + p.idle \in Int /\ q.busy + q.idle \in Int
    BY <1>1
  <2>2. (p.busy + p.idle) % Modulus \in Int /\ (q.busy + q.idle) % Modulus \in Int
    BY <1>2, <2>1, Parameters
  <2>3. ((q.busy + q.idle) % Modulus) - ((p.busy + p.idle) % Modulus) \in Int
    BY <2>2
  <2> QED
    BY <1>2, <2>3 DEF Gain
<1>5. 0 \in 0 .. Modulus - 1
  BY Parameters
<1> QED
  BY <1>1, <1>3, <1>4, <1>5 DEF RateOf, RateRow

\* By name, each device that both reads list is measured against itself.
LEMMA ByNameMeasures ==
  ASSUME NEW a, IsStanding(a), NEW b, IsStanding(b)
  PROVE  /\ RatesByName(RowsOf(a), RowsOf(b)) \in Seq(RateRow)
         /\ Measures(RatesByName(RowsOf(a), RowsOf(b)), a, b, DOMAIN a \cap DOMAIN b)
<1> DEFINE before == RowsOf(a)
           after == RowsOf(b)
           Same(row) == {r \in Range(before) : r.name = row.name}
           places == {i \in DOMAIN after : Same(after[i]) # {}}
           kept == Ascending(places)
           r == RatesByName(before, after)
<1>1. /\ before \in Seq(Row) /\ after \in Seq(Row)
      /\ \A k \in DOMAIN before : /\ before[k].name \in DOMAIN a
                                /\ before[k] = RowOf(a, before[k].name)
      /\ \A d \in DOMAIN a : \E k \in DOMAIN before : before[k].name = d
  BY RowsOfStanding
<1>2. /\ \A k \in DOMAIN after : /\ after[k].name \in DOMAIN b
                               /\ after[k] = RowOf(b, after[k].name)
      /\ \A k, l \in DOMAIN after : after[k].name = after[l].name => k = l
      /\ \A d \in DOMAIN b : \E k \in DOMAIN after : after[k].name = d
  BY RowsOfStanding
<1>3. Cardinality(DOMAIN b) \in Nat /\ DOMAIN after = 1 .. Cardinality(DOMAIN b)
  BY RowsOfStanding
<1> HIDE DEF before, after
<1>4. \A row : Same(row) # {} <=> row.name \in DOMAIN a
  BY <1>1 DEF Range
<1>5. ASSUME NEW row, row.name \in DOMAIN a
      PROVE  (CHOOSE x \in Same(row) : TRUE) = RowOf(a, row.name)
  <2>1. Same(row) # {}
    BY <1>4, <1>5
  <2>2. \A x \in Same(row) : x = RowOf(a, row.name)
    BY <1>1 DEF Range
  <2> HIDE DEF Same
  <2> QED
    BY <2>1, <2>2
<1>6. r = [i \in DOMAIN kept |-> RateOf(CHOOSE x \in Same(after[kept[i]]) : TRUE, after[kept[i]])]
  BY DEF RatesByName
<1> HIDE DEF Same, r
<1>7. places \subseteq Nat /\ IsFiniteSet(places)
  <2>1. IsFiniteSet(1 .. Cardinality(DOMAIN b)) /\ 1 .. Cardinality(DOMAIN b) \subseteq Nat
    BY <1>3, FS_Interval
  <2> QED
    BY <1>3, <2>1, FS_Subset
<1>8. /\ Cardinality(places) \in Nat
      /\ DOMAIN kept = 1 .. Cardinality(places)
      /\ \A k \in DOMAIN kept : kept[k] \in places
      /\ \A k, l \in DOMAIN kept : kept[k] = kept[l] => k = l
      /\ \A i \in places : \E k \in DOMAIN kept : kept[k] = i
  BY <1>7, AscendingEnumerates
<1> HIDE DEF kept
<1>9. \A i : i \in places <=> i \in DOMAIN after /\ after[i].name \in DOMAIN a
  BY <1>4
<1> HIDE DEF places
<1>10. ASSUME NEW k \in DOMAIN kept
       PROVE  \E d \in DOMAIN a \cap DOMAIN b :
                /\ d = after[kept[k]].name
                /\ r[k] = RateOf(RowOf(a, d), RowOf(b, d))
                /\ r[k] \in RateRow /\ r[k].name = d
  <2> DEFINE row == after[kept[k]]
             d == row.name
  <2>1. kept[k] \in DOMAIN after /\ d \in DOMAIN a
    BY <1>8, <1>9
  <2>2. d \in DOMAIN b /\ row = RowOf(b, d)
    BY <1>2, <2>1
  <2>3. r[k] = RateOf(CHOOSE x \in Same(row) : TRUE, row)
    BY <1>6
  <2>4. (CHOOSE x \in Same(row) : TRUE) = RowOf(a, d)
    BY <1>5, <2>1
  <2> HIDE DEF row
  <2>5. r[k] = RateOf(RowOf(a, d), RowOf(b, d))
    BY <2>2, <2>3, <2>4
  <2>6. RowOf(a, d) \in Row /\ RowOf(b, d) \in Row
    BY <2>1, <2>2, RowType
  <2>7. RowOf(b, d).name = d
    BY DEF RowOf
  <2>8. r[k] \in RateRow /\ r[k].name = d
    BY <2>5, <2>6, <2>7, RateType
  <2>9. d = after[kept[k]].name
    BY DEF row
  <2> HIDE DEF d
  <2> QED
    BY <2>1, <2>2, <2>5, <2>8, <2>9
<1>11. DOMAIN r = DOMAIN kept
  BY <1>6
<1>12. r \in Seq(RateRow)
  <2>1. r \in [1 .. Cardinality(places) -> RateRow]
    BY <1>6, <1>8, <1>10
  <2> QED
    BY <1>8, <2>1
<1>13. ASSUME NEW k \in DOMAIN r, NEW l \in DOMAIN r, r[k].name = r[l].name PROVE k = l
  <2>1. after[kept[k]].name = after[kept[l]].name
    BY <1>10, <1>11, <1>13
  <2>2. kept[k] \in DOMAIN after /\ kept[l] \in DOMAIN after
    BY <1>8, <1>9, <1>11
  <2> QED
    BY <1>2, <1>8, <1>11, <2>1, <2>2
<1>14. ASSUME NEW d \in DOMAIN a \cap DOMAIN b PROVE \E k \in DOMAIN r : r[k].name = d
  <2>1. PICK i \in DOMAIN after : after[i].name = d
    BY <1>2
  <2>2. PICK k \in DOMAIN kept : kept[k] = i
    BY <1>8, <1>9, <2>1
  <2> QED
    BY <1>10, <1>11, <2>1, <2>2
<1>15. Measures(r, a, b, DOMAIN a \cap DOMAIN b)
  BY <1>10, <1>11, <1>13, <1>14 DEF Measures
<1> QED
  BY <1>12, <1>15 DEF r, before, after

\* By position, too, if the two reads list the same devices; and of the right
\* type if they do not.
LEMMA ByPositionMeasures ==
  ASSUME NEW a, IsStanding(a), NEW b, IsStanding(b)
  PROVE  /\ RatesByPosition(RowsOf(a), RowsOf(b)) \in Seq(RateRow)
         /\ DOMAIN a = DOMAIN b =>
              Measures(RatesByPosition(RowsOf(a), RowsOf(b)), a, b, DOMAIN a \cap DOMAIN b)
<1> DEFINE before == RowsOf(a)
           after == RowsOf(b)
           m == Cardinality(DOMAIN a)
           n == Cardinality(DOMAIN b)
           r == RatesByPosition(before, after)
<1>1. /\ m \in Nat /\ DOMAIN before = 1 .. m /\ before \in Seq(Row)
      /\ \A k \in DOMAIN before : /\ before[k].name \in DOMAIN a
                                /\ before[k] = RowOf(a, before[k].name)
                                /\ before[k].name = Ascending(DOMAIN a)[k]
  BY RowsOfStanding
<1>2. /\ n \in Nat /\ DOMAIN after = 1 .. n /\ after \in Seq(Row)
      /\ \A k \in DOMAIN after : /\ after[k].name \in DOMAIN b
                               /\ after[k] = RowOf(b, after[k].name)
                               /\ after[k].name = Ascending(DOMAIN b)[k]
      /\ \A k, l \in DOMAIN after : after[k].name = after[l].name => k = l
      /\ \A d \in DOMAIN b : \E k \in DOMAIN after : after[k].name = d
  BY RowsOfStanding
<1>3. r = [i \in DOMAIN before \cap DOMAIN after |-> RateOf(before[i], after[i])]
  BY DEF RatesByPosition
<1>4. DOMAIN r = DOMAIN before \cap DOMAIN after
  BY <1>3
<1> HIDE DEF before, after, m, n, r
<1>5. ASSUME NEW k \in DOMAIN r PROVE r[k] \in RateRow /\ r[k].name = after[k].name
  <2>1. before[k] \in Row /\ after[k] \in Row
    BY <1>1, <1>2, <1>4, ElementOfSeq
  <2>2. r[k] = RateOf(before[k], after[k])
    BY <1>3, <1>4
  <2> QED
    BY <2>1, <2>2, RateType
<1>6. r \in Seq(RateRow)
  <2>1. PICK c \in Nat : DOMAIN before \cap DOMAIN after = 1 .. c
    <3>1. CASE m <= n
      BY <1>1, <1>2, <3>1
    <3>2. CASE n <= m
      BY <1>1, <1>2, <3>2
    <3> QED
      BY <1>1, <1>2, <3>1, <3>2
  <2>2. r \in [1 .. c -> RateRow]
    BY <1>3, <1>4, <1>5, <2>1
  <2> QED
    BY <2>2
<1>7. ASSUME DOMAIN a = DOMAIN b PROVE Measures(r, a, b, DOMAIN a \cap DOMAIN b)
  <2>1. m = n
    BY <1>7 DEF m, n
  <2>2. DOMAIN r = DOMAIN after /\ DOMAIN before = DOMAIN after
    BY <1>1, <1>2, <1>4, <2>1
  <2>3. ASSUME NEW k \in DOMAIN r
        PROVE  \E d \in DOMAIN a \cap DOMAIN b : r[k] = RateOf(RowOf(a, d), RowOf(b, d))
    <3>1. before[k].name = after[k].name
      BY <1>1, <1>2, <1>7, <2>2
    <3>2. r[k] = RateOf(before[k], after[k])
      BY <1>3, <1>4
    <3>3. /\ before[k] = RowOf(a, after[k].name) /\ after[k] = RowOf(b, after[k].name)
          /\ after[k].name \in DOMAIN a \cap DOMAIN b
      BY <1>1, <1>2, <1>7, <2>2, <3>1
    <3> QED
      BY <3>2, <3>3
  <2>4. \A k, l \in DOMAIN r : r[k].name = r[l].name => k = l
    BY <1>2, <1>5, <2>2
  <2>5. \A d \in DOMAIN a \cap DOMAIN b : \E k \in DOMAIN r : r[k].name = d
    BY <1>2, <1>5, <2>2
  <2> QED
    BY <2>3, <2>4, <2>5 DEF Measures
<1> QED
  BY <1>6, <1>7 DEF r, before, after

-----------------------------------------------------------------------------
(***************************************************************************)
(* What the counters may have done since: a device has the registration it *)
(* had, and no counter of it is behind, nor have both together gained more *)
(* than all devices have; or it has a later registration.                  *)
(***************************************************************************)
Grown(a, b) ==
  \A d \in DOMAIN a \cap DOMAIN b :
    /\ a[d].gen <= b[d].gen
    /\ a[d].gen = b[d].gen => /\ a[d].busy <= b[d].busy
                             /\ a[d].idle <= b[d].idle
                             /\ (b[d].busy - a[d].busy) + (b[d].idle - a[d].idle) <= ticks

\* What has been read is what stood there; the result is made of nothing else.
SamplerInv ==
  /\ RatesTypeOK
  /\ DOMAIN truth = {"first", "second"}
  /\ pc \in {"asleep", "second", "done"} =>
       IsStanding(truth.first) /\ first = RowsOf(truth.first)
  /\ pc \in {"asleep", "second"} => Grown(truth.first, counter)
  /\ pc = "done" =>
       /\ IsStanding(truth.second)
       /\ Grown(truth.first, truth.second)
       /\ rates = IF kind = "cores" THEN RatesByPosition(first, RowsOf(truth.second))
                  ELSE RatesByName(first, RowsOf(truth.second))

\* The two differences of one row, each right after the wrap.
LEMMA GainsExact ==
  ASSUME NEW x \in Int, NEW y \in Int, NEW v \in Int, NEW w \in Int,
         y - x \in 0 .. Modulus - 1, (y - x) + (w - v) \in 0 .. Modulus - 1
  PROVE  /\ Gain(x % Modulus, y % Modulus) = y - x
         /\ Gain(((x % Modulus) + (v % Modulus)) % Modulus, ((y % Modulus) + (w % Modulus)) % Modulus)
              = (y - x) + (w - v)
<1>1. Gain(x % Modulus, y % Modulus) = y - x
  BY Parameters, DifferenceExact DEF Gain
<1>2. /\ ((x % Modulus) + (v % Modulus)) % Modulus = (x + v) % Modulus
      /\ ((y % Modulus) + (w % Modulus)) % Modulus = (y + w) % Modulus
  BY Parameters, SumOfRemainders
<1>3. x + v \in Int /\ y + w \in Int /\ (y + w) - (x + v) = (y - x) + (w - v)
  OBVIOUS
<1>4. (y + w) - (x + v) \in 0 .. Modulus - 1
  BY <1>3
<1>5. (((y + w) % Modulus) - ((x + v) % Modulus)) % Modulus = (y + w) - (x + v)
  BY <1>3, <1>4, Parameters, DifferenceExact
<1> QED
  BY <1>1, <1>2, <1>3, <1>5, Zenon DEF Gain

\* A device that lasted is measured right, whether its counters went round or
\* not: what it gained is less than the modulus.
LEMMA RateExact ==
  ASSUME ticks <= MaxTicks, ticks \in Nat,
         NEW a, IsStanding(a), NEW b, IsStanding(b), Grown(a, b),
         NEW d \in DOMAIN a \cap DOMAIN b, a[d].gen = b[d].gen
  PROVE  RateOf(RowOf(a, d), RowOf(b, d)).busy = b[d].busy - a[d].busy
<1> DEFINE p == RowOf(a, d)
           q == RowOf(b, d)
           busy == b[d].busy - a[d].busy
           idle == b[d].idle - a[d].idle
           total == Gain((p.busy + p.idle) % Modulus, (q.busy + q.idle) % Modulus)
<1>1. a[d] \in Count /\ b[d] \in Count
  BY DEF IsStanding
<1>2. /\ a[d].busy \in Nat /\ a[d].idle \in Nat /\ b[d].busy \in Nat /\ b[d].idle \in Nat
  BY <1>1 DEF Count
<1>3. /\ a[d].busy <= b[d].busy /\ a[d].idle <= b[d].idle
      /\ (b[d].busy - a[d].busy) + (b[d].idle - a[d].idle) <= ticks
  BY DEF Grown
<1>4. /\ p.busy = a[d].busy % Modulus /\ p.idle = a[d].idle % Modulus
      /\ q.busy = b[d].busy % Modulus /\ q.idle = b[d].idle % Modulus
  BY DEF RowOf
<1>5. busy \in Nat /\ idle \in Nat /\ busy + idle <= MaxTicks
  BY <1>2, <1>3, Parameters
<1>6. busy \in 0 .. Modulus - 1 /\ busy + idle \in 0 .. Modulus - 1
  <2> HIDE DEF busy, idle
  <2> QED
    BY <1>5, Parameters
<1>7. Gain(p.busy, q.busy) = busy /\ total = busy + idle
  <2>2. /\ a[d].busy \in Int /\ a[d].idle \in Int /\ b[d].busy \in Int /\ b[d].idle \in Int
    BY <1>2
  <2>3. /\ Gain(a[d].busy % Modulus, b[d].busy % Modulus) = busy
        /\ Gain(((a[d].busy % Modulus) + (a[d].idle % Modulus)) % Modulus,
                ((b[d].busy % Modulus) + (b[d].idle % Modulus)) % Modulus) = busy + idle
    BY <1>6, <2>2, GainsExact
  <2> HIDE DEF busy, idle, p, q
  <2> QED
    BY <1>4, <2>3
<1>9. RateOf(p, q).busy = IF IsCpu /\ total = 0 THEN 0 ELSE Gain(p.busy, q.busy)
  BY DEF RateOf
<1>10. total = 0 => busy = 0
  <2> HIDE DEF busy, idle, total
  <2> QED
    BY <1>5, <1>7
<1> QED
  BY <1>7, <1>9, <1>10

\* The properties are in the invariant.
LEMMA SamplerInvShows == SamplerInv => RatesInv /\ SurvivorsExact
<1> SUFFICES ASSUME SamplerInv PROVE RatesInv /\ SurvivorsExact
  OBVIOUS
<1>0. RatesTypeOK
  BY DEF SamplerInv
<1>1. CASE pc # "done"
  BY <1>0, <1>1 DEF RatesInv, NoStrangers, SurvivorsExact
<1>2. CASE pc = "done"
  <2> DEFINE a == truth.first
             b == truth.second
             D == DOMAIN a \cap DOMAIN b
  <2>1. /\ IsStanding(a) /\ IsStanding(b) /\ Grown(a, b)
        /\ rates = IF kind = "cores" THEN RatesByPosition(RowsOf(a), RowsOf(b))
                   ELSE RatesByName(RowsOf(a), RowsOf(b))
    BY <1>2 DEF SamplerInv
  <2>2. ticks \in Nat /\ ticks <= MaxTicks
    BY <1>0, Parameters DEF RatesTypeOK
  <2>3. (kind = "cores" => DOMAIN a = DOMAIN b) => Measures(rates, a, b, D)
    BY <2>1, ByNameMeasures, ByPositionMeasures
  <2> HIDE DEF a, b
  <2>4. ASSUME Measures(rates, a, b, D), NEW k \in DOMAIN rates
        PROVE  /\ rates[k].name \in D
               /\ rates[k] = RateOf(RowOf(a, rates[k].name), RowOf(b, rates[k].name))
    <3>1. PICK d \in D : rates[k] = RateOf(RowOf(a, d), RowOf(b, d))
      BY <2>4 DEF Measures
    <3>2. RowOf(a, d) \in Row /\ RowOf(b, d) \in Row
      BY <2>1, RowType
    <3>3. rates[k].name = d
      BY <3>1, <3>2, RateType DEF RowOf
    <3> QED
      BY <3>1, <3>3
  <2>5. NoStrangers
    BY <2>3, <2>4 DEF NoStrangers, a, b
  <2>6. SurvivorsExact
    <3> SUFFICES ASSUME kind = "cores" => DOMAIN a = DOMAIN b, NEW d \in Survivors
        PROVE  /\ Cardinality({i \in DOMAIN rates : rates[i].name = d}) = 1
               /\ \A i \in DOMAIN rates : rates[i].name = d => rates[i].busy = Gained(d)
      BY DEF SurvivorsExact, a, b
    <3>1. d \in D /\ a[d].gen = b[d].gen /\ Gained(d) = b[d].busy - a[d].busy
      BY DEF Survivors, Gained, a, b
    <3>2. Measures(rates, a, b, D)
      BY <2>3
    <3>3. PICK k \in DOMAIN rates : rates[k].name = d
      BY <3>1, <3>2 DEF Measures
    <3>4. {i \in DOMAIN rates : rates[i].name = d} = {k}
      BY <3>2, <3>3 DEF Measures
    <3>5. RateOf(RowOf(a, d), RowOf(b, d)).busy = Gained(d)
      BY <2>1, <2>2, <3>1, RateExact
    <3>6. \A i \in DOMAIN rates : rates[i].name = d => rates[i].busy = Gained(d)
      BY <2>4, <3>2, <3>5
    <3> QED
      BY <3>4, <3>6, FS_Singleton
  <2> QED
    BY <1>0, <2>5, <2>6 DEF RatesInv
<1> QED
  BY <1>1, <1>2

\* Before anything is read there is nothing to be wrong about.
LEMMA SamplerInit == RatesInit => SamplerInv
<1> SUFFICES ASSUME RatesInit PROVE SamplerInv
  OBVIOUS
<1>1. counter \in [Counted -> Count]
  <2>1. ASSUME NEW x \in [gen : {0}, busy : InitialCounts, idle : {0}] PROVE x \in Count
    <3>1. InitialCounts \subseteq Nat
      BY RatesAssumption
    <3>2. x = [gen |-> x.gen, busy |-> x.busy, idle |-> x.idle]
      OBVIOUS
    <3>3. x.gen = 0 /\ x.busy \in Nat /\ x.idle = 0
      BY <3>1
    <3> QED
      BY <3>2, <3>3 DEF Count
  <2>2. counter \in [Counted -> [gen : {0}, busy : InitialCounts, idle : {0}]]
    BY DEF RatesInit
  <2> QED
    BY <2>1, <2>2
<1>2. /\ online \subseteq Counted /\ ticks \in 0 .. MaxTicks /\ kind \in Kinds /\ pc = "first"
      /\ first \in Seq(Row) /\ rates \in Seq(RateRow) /\ DOMAIN truth = {"first", "second"}
  BY Parameters DEF RatesInit
<1> QED
  BY <1>1, <1>2 DEF SamplerInv, RatesTypeOK

\* The devices that are listed have counters.
LEMMA StandingIsOne ==
  ASSUME RatesTypeOK
  PROVE  /\ IsStanding(Standing) /\ DOMAIN Standing = online
         /\ \A d \in online : Standing[d] = counter[d]
BY DEF RatesTypeOK, IsStanding, Standing

\* What the kernel does to one device: it counts once more, or is another.
LEMMA GrownOn ==
  ASSUME SamplerInv, NEW a, IsStanding(a), Grown(a, counter), NEW c \in Counted,
         NEW x \in Count, counter' = [counter EXCEPT ![c] = x],
         ticks' \in Nat, ticks <= ticks',
         \/ x.gen > counter[c].gen
         \/ /\ x.gen = counter[c].gen
            /\ counter[c].busy <= x.busy /\ counter[c].idle <= x.idle
            /\ (x.busy - counter[c].busy) + (x.idle - counter[c].idle) <= ticks' - ticks
  PROVE  Grown(a, counter)'
<1>1. counter \in [Counted -> Count] /\ ticks \in Nat
  BY Parameters DEF SamplerInv, RatesTypeOK
<1>2. DOMAIN counter' = DOMAIN counter
  BY <1>1
<1>3. ASSUME NEW d \in DOMAIN a \cap DOMAIN counter
      PROVE  /\ a[d].gen <= counter'[d].gen
             /\ a[d].gen = counter'[d].gen =>
                  /\ a[d].busy <= counter'[d].busy
                  /\ a[d].idle <= counter'[d].idle
                  /\ (counter'[d].busy - a[d].busy) + (counter'[d].idle - a[d].idle) <= ticks'
  <2>1. /\ a[d].gen \in Nat /\ a[d].busy \in Nat /\ a[d].idle \in Nat
        /\ counter[d].gen \in Nat /\ counter[d].busy \in Nat /\ counter[d].idle \in Nat
    <3>1. a[d] \in Count /\ counter[d] \in Count
      BY <1>1 DEF IsStanding
    <3> QED
      BY <3>1 DEF Count
  <2>2. /\ a[d].gen <= counter[d].gen
        /\ a[d].gen = counter[d].gen =>
             /\ a[d].busy <= counter[d].busy
             /\ a[d].idle <= counter[d].idle
             /\ (counter[d].busy - a[d].busy) + (counter[d].idle - a[d].idle) <= ticks
    BY DEF Grown
  <2>3. CASE d # c
    <3>1. counter'[d] = counter[d]
      BY <1>1, <2>3
    <3> QED
      BY <1>1, <2>1, <2>2, <3>1
  <2>4. CASE d = c
    <3>1. counter'[d] = x
      BY <1>1, <2>4
    <3>2. x.gen \in Nat /\ x.busy \in Nat /\ x.idle \in Nat
      BY DEF Count
    <3>3. CASE x.gen > counter[d].gen
      <4>1. a[d].gen < x.gen
        BY <2>1, <2>2, <3>2, <3>3
      <4> QED
        BY <2>1, <3>1, <3>2, <4>1
    <3>4. CASE /\ x.gen = counter[d].gen
               /\ counter[d].busy <= x.busy /\ counter[d].idle <= x.idle
               /\ (x.busy - counter[d].busy) + (x.idle - counter[d].idle) <= ticks' - ticks
      BY <1>1, <2>1, <2>2, <3>1, <3>2, <3>4
    <3> QED
      BY <2>4, <3>3, <3>4
  <2> QED
    BY <2>3, <2>4
<1> QED
  BY <1>2, <1>3 DEF Grown

\* The kernel never runs when there is a result; before, the counters grow.
LEMMA KernelKeepsRates ==
  ASSUME SamplerInv, Kernel
  PROVE  SamplerInv'
<1>0. PICK c \in Counted : Work(c) \/ Unplug(c) \/ Plug(c)
  BY DEF Kernel
<1>1. /\ pc \notin {"done", "failed"}
      /\ UNCHANGED <<kind, pc, first, rates, truth>>
  BY <1>0 DEF Kernel, Work, Unplug, Plug, samplerVars
<1>2. /\ online \subseteq Counted /\ counter \in [Counted -> Count] /\ ticks \in 0 .. MaxTicks
      /\ ticks \in Nat /\ MaxTicks \in Nat
  BY Parameters DEF SamplerInv, RatesTypeOK
<1>3. counter[c] \in Count /\ Counted' = Counted
  BY <1>1, <1>2 DEF Counted, IsTotal
<1>4. counter[c].gen \in Nat /\ counter[c].busy \in Nat /\ counter[c].idle \in Nat
  BY <1>3 DEF Count
<1>5. online' \subseteq Counted
  BY <1>0, <1>2 DEF Work, Unplug, Plug
<1>6. /\ ticks' \in 0 .. MaxTicks
      /\ \/ counter' = counter /\ ticks' = ticks
         \/ \E x \in Count :
              /\ counter' = [counter EXCEPT ![c] = x]
              /\ ticks' \in Nat /\ ticks <= ticks'
              /\ \/ x.gen > counter[c].gen
                 \/ /\ x.gen = counter[c].gen
                    /\ counter[c].busy <= x.busy /\ counter[c].idle <= x.idle
                    /\ (x.busy - counter[c].busy) + (x.idle - counter[c].idle) <= ticks' - ticks
  <2>1. CASE Work(c) /\ counter' = [counter EXCEPT ![c].busy = @ + 1]
    <3> DEFINE x == [counter[c] EXCEPT !.busy = @ + 1]
    <3>1. x \in Count /\ x.gen = counter[c].gen /\ x.busy = counter[c].busy + 1 /\ x.idle = counter[c].idle
      BY <1>3, <1>4 DEF Count
    <3>2. counter' = [counter EXCEPT ![c] = x]
      BY <2>1
    <3>3. ticks' = ticks + 1 /\ ticks < MaxTicks
      BY <2>1 DEF Work
    <3> HIDE DEF x
    <3>4. ticks' \in 0 .. MaxTicks /\ ticks' \in Nat /\ ticks <= ticks' /\ ticks' - ticks = 1
      BY <1>2, <3>3
    <3>5. /\ counter[c].busy <= x.busy /\ counter[c].idle <= x.idle
          /\ (x.busy - counter[c].busy) + (x.idle - counter[c].idle) <= ticks' - ticks
      BY <1>4, <3>1, <3>4
    <3> QED
      BY <3>1, <3>2, <3>4, <3>5
  <2>2. CASE Work(c) /\ counter' = [counter EXCEPT ![c].idle = @ + 1]
    <3> DEFINE x == [counter[c] EXCEPT !.idle = @ + 1]
    <3>1. x \in Count /\ x.gen = counter[c].gen /\ x.busy = counter[c].busy /\ x.idle = counter[c].idle + 1
      BY <1>3, <1>4 DEF Count
    <3>2. counter' = [counter EXCEPT ![c] = x]
      BY <2>2
    <3>3. ticks' = ticks + 1 /\ ticks < MaxTicks
      BY <2>2 DEF Work
    <3> HIDE DEF x
    <3>4. ticks' \in 0 .. MaxTicks /\ ticks' \in Nat /\ ticks <= ticks' /\ ticks' - ticks = 1
      BY <1>2, <3>3
    <3>5. /\ counter[c].busy <= x.busy /\ counter[c].idle <= x.idle
          /\ (x.busy - counter[c].busy) + (x.idle - counter[c].idle) <= ticks' - ticks
      BY <1>4, <3>1, <3>4
    <3> QED
      BY <3>1, <3>2, <3>4, <3>5
  <2>3. CASE Plug(c) /\ counter' = [counter EXCEPT ![c] = [gen |-> @.gen + 1, busy |-> 0, idle |-> 0]]
    <3> DEFINE x == [gen |-> counter[c].gen + 1, busy |-> 0, idle |-> 0]
    <3>1. x \in Count /\ x.gen > counter[c].gen
      BY <1>4 DEF Count
    <3>2. counter' = [counter EXCEPT ![c] = x]
      BY <2>3
    <3>3. ticks' = ticks
      BY <2>3 DEF Plug
    <3> HIDE DEF x
    <3>4. ticks' \in 0 .. MaxTicks /\ ticks' \in Nat /\ ticks <= ticks'
      BY <1>2, <3>3
    <3> QED
      BY <3>1, <3>2, <3>4
  <2>4. CASE counter' = counter /\ ticks' = ticks
    BY <1>2, <2>4
  <2> QED
    BY <1>0, <2>1, <2>2, <2>3, <2>4 DEF Work, Unplug, Plug
<1>7. counter' \in [Counted -> Count]
  BY <1>2, <1>6
<1>8. RatesTypeOK'
  BY <1>1, <1>3, <1>5, <1>6, <1>7 DEF SamplerInv, RatesTypeOK
<1>9. PICK a : a = truth.first
  OBVIOUS
<1>10. pc \in {"asleep", "second"} => Grown(a, counter)'
  <2> SUFFICES ASSUME pc \in {"asleep", "second"} PROVE Grown(a, counter)'
    OBVIOUS
  <2>1. IsStanding(a) /\ Grown(a, counter)
    BY <1>9 DEF SamplerInv
  <2>2. CASE counter' = counter /\ ticks' = ticks
    BY <2>1, <2>2 DEF Grown
  <2>3. CASE \E x \in Count :
              /\ counter' = [counter EXCEPT ![c] = x]
              /\ ticks' \in Nat /\ ticks <= ticks'
              /\ \/ x.gen > counter[c].gen
                 \/ /\ x.gen = counter[c].gen
                    /\ counter[c].busy <= x.busy /\ counter[c].idle <= x.idle
                    /\ (x.busy - counter[c].busy) + (x.idle - counter[c].idle) <= ticks' - ticks
    BY <2>1, <2>3, GrownOn
  <2> QED
    BY <1>6, <2>2, <2>3
<1>11. Grown(truth.first, counter)' <=> Grown(a, counter)'
  BY <1>1, <1>9 DEF Grown
<1>12. /\ DOMAIN truth' = {"first", "second"}
       /\ pc' \in {"asleep", "second", "done"} =>
            IsStanding(truth.first)' /\ first' = RowsOf(truth.first)'
  BY <1>1, <1>3 DEF SamplerInv, IsStanding, RowsOf
<1> QED
  BY <1>1, <1>8, <1>10, <1>11, <1>12 DEF SamplerInv

\* The steps of the sampler: what it reads is what stands there.
LEMMA SamplerKeepsRates ==
  ASSUME SamplerInv, Sampler
  PROVE  SamplerInv'
<1>0. Counted' = Counted
  BY DEF Sampler, ReadFirst, Wake, ReadSecond, ReadFails, kernelVars, Counted, IsTotal
<1>1. RatesTypeOK /\ DOMAIN truth = {"first", "second"}
  BY DEF SamplerInv
<1>2. UNCHANGED <<online, counter, ticks, kind>>
  BY DEF Sampler, ReadFirst, Wake, ReadSecond, ReadFails, kernelVars
<1>3. PICK a : a = truth.first
  OBVIOUS
<1>4. PICK st : st = Standing
  OBVIOUS
<1>5. IsStanding(st) /\ DOMAIN st = online /\ \A d \in online : st[d] = counter[d]
  BY <1>1, <1>4, StandingIsOne
<1>6. \A s : IsStanding(s)' <=> IsStanding(s)
  BY <1>0 DEF IsStanding
<1>7. \A s : RowsOf(s)' = RowsOf(s)
  BY DEF RowsOf
<1>8. \A s, t : Grown(s, t)' <=> Grown(s, t)
  BY <1>2 DEF Grown
<1>9. CASE ReadFails
  <2>1. pc' = "failed" /\ UNCHANGED <<first, rates, truth>>
    BY <1>9 DEF ReadFails
  <2> QED
    BY <1>0, <1>1, <1>2, <2>1 DEF SamplerInv, RatesTypeOK
<1>10. CASE ReadFirst
  <2>1. /\ pc' = "asleep" /\ first' = RowsOf(st) /\ rates' = rates
        /\ truth' = [truth EXCEPT !.first = st]
    BY <1>4, <1>10 DEF ReadFirst, Rows
  <2>2. truth'.first = st /\ DOMAIN truth' = {"first", "second"}
    BY <1>1, <2>1
  <2>3. Grown(st, counter)
    <3>1. \A d \in DOMAIN st : st[d] = counter[d] /\ st[d] \in Count
      BY <1>5 DEF IsStanding
    <3>2. ticks \in Nat
      BY <1>1, Parameters DEF RatesTypeOK
    <3> QED
      BY <3>1, <3>2 DEF Grown, Count
  <2>4. first' \in Seq(Row)
    BY <1>5, <2>1, RowsOfStanding
  <2>5. RatesTypeOK'
    BY <1>0, <1>1, <1>2, <2>1, <2>4 DEF RatesTypeOK
  <2>6. Grown(truth.first, counter)'
    BY <1>2, <2>2, <2>3 DEF Grown
  <2>7. IsStanding(truth.first)' /\ first' = RowsOf(truth.first)'
    BY <1>0, <1>5, <2>1, <2>2 DEF IsStanding, RowsOf
  <2> QED
    BY <2>1, <2>2, <2>5, <2>6, <2>7 DEF SamplerInv
<1>11. CASE Wake
  <2>1. pc = "asleep" /\ pc' = "second" /\ UNCHANGED <<first, rates, truth>>
    BY <1>11 DEF Wake
  <2>2. RatesTypeOK'
    BY <1>0, <1>1, <1>2, <2>1 DEF RatesTypeOK
  <2>3. IsStanding(truth.first) /\ first = RowsOf(truth.first) /\ Grown(truth.first, counter)
    BY <2>1 DEF SamplerInv
  <2>4. IsStanding(truth.first)' /\ first' = RowsOf(truth.first)' /\ Grown(truth.first, counter)'
    BY <1>0, <1>2, <2>1, <2>3 DEF IsStanding, RowsOf, Grown
  <2> QED
    BY <1>1, <2>1, <2>2, <2>4 DEF SamplerInv
<1>12. CASE ReadSecond
  <2>1. /\ pc = "second" /\ pc' = "done" /\ first' = first
        /\ truth' = [truth EXCEPT !.second = st]
        /\ rates' = IF kind = "cores" THEN RatesByPosition(first, RowsOf(st))
                    ELSE RatesByName(first, RowsOf(st))
    BY <1>4, <1>12 DEF ReadSecond, Rows
  <2>2. truth'.first = a /\ truth'.second = st /\ DOMAIN truth' = {"first", "second"}
    BY <1>1, <1>3, <2>1
  <2>3. IsStanding(a) /\ first = RowsOf(a) /\ Grown(a, counter)
    BY <1>3, <2>1 DEF SamplerInv
  <2>4. Grown(a, st)
    <3>1. \A d \in DOMAIN st : d \in DOMAIN counter /\ st[d] = counter[d]
      BY <1>1, <1>5 DEF RatesTypeOK
    <3> QED
      BY <2>3, <3>1 DEF Grown
  <2>5. first' \in Seq(Row) /\ rates' \in Seq(RateRow)
    <3>1. first \in Seq(Row)
      BY <1>1 DEF RatesTypeOK
    <3>2. RatesByPosition(RowsOf(a), RowsOf(st)) \in Seq(RateRow)
      BY <1>5, <2>3, ByPositionMeasures
    <3>3. RatesByName(RowsOf(a), RowsOf(st)) \in Seq(RateRow)
      BY <1>5, <2>3, ByNameMeasures
    <3> QED
      BY <2>1, <2>3, <3>1, <3>2, <3>3
  <2>6. RatesTypeOK'
    BY <1>0, <1>1, <1>2, <2>1, <2>5 DEF RatesTypeOK
  <2>7. /\ IsStanding(truth.first)' /\ IsStanding(truth.second)'
        /\ first' = RowsOf(truth.first)'
    BY <1>0, <1>5, <2>1, <2>2, <2>3 DEF IsStanding, RowsOf
  <2>8. Grown(truth.first, truth.second)'
    BY <1>2, <2>2, <2>4 DEF Grown
  <2>9. rates' = (IF kind = "cores" THEN RatesByPosition(first, RowsOf(truth.second))
                  ELSE RatesByName(first, RowsOf(truth.second)))'
    <3>1. RowsOf(truth.second)' = RowsOf(st)
      BY <2>2 DEF RowsOf
    <3>2. \A s, t : RatesByPosition(s, t)' = RatesByPosition(s, t)
      BY <1>2 DEF RatesByPosition, RateOf, IsCpu
    <3>3. \A s, t : RatesByName(s, t)' = RatesByName(s, t)
      BY <1>2 DEF RatesByName, RateOf, IsCpu
    <3> QED
      BY <1>2, <2>1, <3>1, <3>2, <3>3
  <2> QED
    BY <2>1, <2>2, <2>6, <2>7, <2>8, <2>9 DEF SamplerInv
<1> QED
  BY <1>9, <1>10, <1>11, <1>12 DEF Sampler

\* A stutter keeps everything.
LEMMA StutterKeepsRates == SamplerInv /\ UNCHANGED ratesVars => SamplerInv'
<1> SUFFICES ASSUME SamplerInv, UNCHANGED ratesVars PROVE SamplerInv'
  OBVIOUS
<1>1. UNCHANGED <<online, counter, ticks, kind, pc, first, rates, truth>>
  BY DEF ratesVars
<1>2. Counted' = Counted
  BY <1>1 DEF Counted, IsTotal
<1>3. /\ \A s : IsStanding(s)' <=> IsStanding(s)
      /\ \A s : RowsOf(s)' = RowsOf(s)
      /\ \A s, t : Grown(s, t)' <=> Grown(s, t)
      /\ \A s, t : RatesByPosition(s, t)' = RatesByPosition(s, t)
      /\ \A s, t : RatesByName(s, t)' = RatesByName(s, t)
  BY <1>1, <1>2 DEF IsStanding, RowsOf, Grown, RatesByPosition, RatesByName, RateOf, IsCpu
<1> QED
  BY <1>1, <1>2, <1>3 DEF SamplerInv, RatesTypeOK

\* At every moment of a sampler's call, what has been read is what stood
\* there, and the counters have grown since by less than the modulus.
THEOREM SamplerInvariance == RatesSpec => []SamplerInv
<1>1. RatesInit => SamplerInv
  BY SamplerInit
<1>2. SamplerInv /\ [RatesNext]_ratesVars => SamplerInv'
  BY KernelKeepsRates, SamplerKeepsRates, StutterKeepsRates DEF RatesNext
<1> QED
  BY <1>1, <1>2, PTL DEF RatesSpec

\* Every variable of a sampler keeps its type, and no device is measured that
\* one of the reads did not list (system.cpp:306-307, network.cpp:301-302).
THEOREM NoStrangerMeasured == RatesSpec => []RatesInv
BY SamplerInvShows, SamplerInvariance, PTL

\* A device that lasts through the window has one row, and the row says what
\* the device did, whatever its counters held and whoever came and went
\* (system.cpp:183-199, 229-256, 285-318, network.cpp:280-313).
THEOREM SurvivorsMeasuredExactly == RatesSpec => []SurvivorsExact
BY SamplerInvShows, SamplerInvariance, PTL
=============================================================================
