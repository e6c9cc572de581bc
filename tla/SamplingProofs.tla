-------------------------- MODULE SamplingProofs --------------------------
(***************************************************************************)
(* Theorems about module Sampling, for every set of PIDs and tables, every *)
(* bound on births and ticks, any number of CPUs and every set of calls:   *)
(* the type invariant, with the sign of a rate; that a process which stays *)
(* is measured over its sleep at least and its call at most; and that top  *)
(* ranks, filters and names those right who stay.                          *)
(***************************************************************************)
EXTENDS Sampling, ProcTableProofs, FiniteSetTheorems

(***************************************************************************)
(* The steps of a call: those behind it, and the one that makes the rows.  *)
(***************************************************************************)
Behind(step) ==
  \E j \in DOMAIN Steps(req) : Steps(req)[j] = step /\ (j < at \/ result = "ok")
Measures == IF req.of = "mem" THEN "first" ELSE "second"
Before(step) == at # 0 /\ ~Behind(step) /\ ~Doing(step)

(***************************************************************************)
(* The shape of a call: what a step has not looked at has no row yet, and  *)
(* there is one row for a PID.                                             *)
(***************************************************************************)
ShapeOK ==
  /\ at # 0 => result = "none"
  /\ open # Nothing =>
       /\ req.of = "io" /\ open.pid \in Pids \ todo /\ open.born \in 1 .. births
       /\ Doing("first") \/ Doing("second")
  /\ Doing("second") => todo \subseteq DOMAIN base /\ (open # Nothing => open.pid \in DOMAIN base)
  /\ Before(Measures) => rows = {}
  /\ Doing(Measures) => \A r \in rows : r.pid \notin todo \cup {open.pid}
  /\ Doing("filter") => \A p \in todo : \E r \in rows : r.pid = p
  /\ \A r, s \in rows : r.pid = s.pid => r = s
  /\ IsFiniteSet(rows)
  /\ at # 0 => Len(system) = IF req.of # "cpu" \/ at <= 2 THEN 0 ELSE IF at <= 5 THEN 1 ELSE 2
  /\ Before("rank") \/ Doing("rank") => names = << >>

(***************************************************************************)
(* Counters of a process only grow, and a birth is given out once: as long *)
(* as the process that was read has its PID, the value read is not above   *)
(* the one it has, and it is 0 if io could not be read.                    *)
(***************************************************************************)
BaseHonest ==
  \A p \in DOMAIN base :
    /\ base[p].born \in 1 .. births
    /\ base[p].born = table[p].born =>
         /\ base[p].used <= used[p]
         /\ req.of = "io" /\ table[p].access # "full" => base[p].used = 0
RowsHonest == \A r \in rows : r.second \in 1 .. births

(***************************************************************************)
(* Of a process that stays, everything that was read is its own, and was   *)
(* read between the begin and the sleep, or behind it.                     *)
(***************************************************************************)
Lasts(p) == p \in lived /\ Measurable(p)
IsOwn(p) == table[p].access = "full"
Asked(p) == Lasts(p) /\ req.pid \in {0, p}
Rowed(p) == \E r \in rows : r.pid = p

MarksKept == \A p \in lived : mark.begin[p] <= used[p] /\ mark.wake[p] <= used[p]
OpenKept ==
  open # Nothing /\ open.pid \in lived =>
    open.born = table[open.pid].born /\ open.own = IsOwn(open.pid)
BaseKept ==
  \A p \in DOMAIN base : Lasts(p) =>
    /\ base[p].born = table[p].born
    /\ mark.begin[p] <= base[p].used /\ base[p].used <= used[p]
    /\ Doing("sleep") \/ Behind("sleep") => base[p].used <= mark.sleep[p]
RowsKept ==
  \A r \in rows : r.pid \in lived =>
    /\ r.own = IsOwn(r.pid)
    /\ Measurable(r.pid) => r.first = table[r.pid].born /\ r.second = table[r.pid].born
    /\ Measurable(r.pid) /\ req.of # "mem" =>
         /\ mark.wake[r.pid] - mark.sleep[r.pid] <= r.delta
         /\ r.delta <= used[r.pid] - mark.begin[r.pid]

\* Nobody who stays is lost on the way.
InPlace(p) ==
  /\ at # 0 /\ (req.pid = p \/ Behind("list")) => p \in pids
  /\ Doing("first") => p \in todo \/ open.pid = p \/ p \in DOMAIN base
  /\ Behind("first") => p \in DOMAIN base
  /\ Doing(Measures) => p \in todo \/ open.pid = p \/ Rowed(p)
  /\ Behind(Measures) /\ (req.top => Wanted(p)) => Rowed(p)
AllPresent == \A p \in Pids : Asked(p) => InPlace(p)

(***************************************************************************)
(* Top: of those who stay, only who passes the filter is ranked; the       *)
(* lines are the upper end of the ranking, and named in order.             *)
(***************************************************************************)
FilterOK ==
  \A r \in rows : r.pid \in lived =>
    /\ Doing("filter") => r.pid \in todo \/ Wanted(r.pid)
    /\ Behind("filter") => Wanted(r.pid)
RankOK ==
  Behind("rank") =>
    /\ \A i \in DOMAIN lines : lines[i] \in rows
    /\ \A r \in rows :
         \/ \E i \in DOMAIN lines : lines[i] = r
         \/ Len(lines) = req.count /\ \A i \in DOMAIN lines : Rate(lines[i]) >= Rate(r)
NamesOK ==
  /\ Behind("rank") => \A i \in DOMAIN names :
       Lasts(lines[i].pid) => names[i] = table[lines[i].pid].born
  /\ Behind("name") => Len(names) = Len(lines)

MarkType == mark \in [begin : [Pids -> Nat], sleep : [Pids -> Nat], wake : [Pids -> Nat]]
TableOK == LivedAlive /\ ParentsAlive /\ BirthsBounded

CallInv ==
  /\ TypeOK /\ MarkType /\ TableOK
  /\ ShapeOK /\ BaseHonest /\ RowsHonest /\ NegativeOnlyIfGone
  /\ MarksKept /\ OpenKept /\ BaseKept /\ RowsKept /\ AllPresent
  /\ FilterOK /\ RankOK /\ NamesOK

-----------------------------------------------------------------------------
(* The steps of the calls there are. *)

StepNames == {"list", "first", "system", "sleep", "second", "filter", "rank", "name"}

\* The steps of the ranking behind those of the window.
LEMMA OneBehindTheOther ==
  ASSUME NEW s \in Seq(StepNames), NEW t \in Seq(StepNames)
  PROVE  /\ s \o t \in Seq(StepNames) 
         /\ Len(s) \in Nat /\ Len(t) \in Nat
         /\ Len(s \o t) = Len(s) + Len(t)
         /\ DOMAIN (s \o t) = 1 .. Len(s) + Len(t)
         /\ \A i \in 1 .. Len(s) : (s \o t)[i] = s[i]
         /\ \A i \in 1 .. Len(t) : (s \o t)[Len(s) + i] = t[i]
<1>1. Len(s) \in Nat /\ Len(t) \in Nat
  BY LenProperties
<1>2. /\ s \o t \in Seq(StepNames) /\ Len(s \o t) = Len(s) + Len(t)
      /\ \A i \in 1 .. Len(s) + Len(t) :
           (s \o t)[i] = IF i <= Len(s) THEN s[i] ELSE t[i - Len(s)]
  BY ConcatProperties
<1>3. DOMAIN (s \o t) = 1 .. Len(s) + Len(t)
  BY <1>2, LenProperties
<1>4. ASSUME NEW i \in 1 .. Len(t) PROVE (s \o t)[Len(s) + i] = t[i]
  BY <1>1, <1>2
<1> QED
  BY <1>1, <1>2, <1>3, <1>4

\* What is behind a step of each kind.
Has(r, i, step) == \E j \in DOMAIN Steps(r) : j < i /\ Steps(r)[j] = step

InOrder(r, i) ==
  LET step == Steps(r)[i] IN
  /\ step = "list" => i = 1 /\ r.pid = 0
  /\ step = "first" =>
       /\ r.pid = 0 => Has(r, i, "list")
       /\ ~Has(r, i, "first") /\ ~Has(r, i, "sleep") /\ ~Has(r, i, "second")
       /\ ~Has(r, i, "filter") /\ ~Has(r, i, "rank")
  /\ step = "system" => r.of = "cpu" /\ i \in {2, 5} /\ ~Has(r, i, "filter") /\ ~Has(r, i, "rank")
  /\ r.of = "cpu" /\ i \in {2, 5} => step = "system"
  /\ step = "sleep" =>
       /\ r.of # "mem" /\ Has(r, i, "first") /\ ~Has(r, i, "sleep") /\ ~Has(r, i, "second")
       /\ ~Has(r, i, "filter") /\ ~Has(r, i, "rank")
  /\ step = "second" =>
       /\ r.of # "mem" /\ Has(r, i, "first") /\ Has(r, i, "sleep") /\ ~Has(r, i, "second")
       /\ ~Has(r, i, "filter") /\ ~Has(r, i, "rank")
  /\ step = "filter" =>
       /\ r.top /\ Has(r, i, "first") /\ (r.of # "mem" => Has(r, i, "second"))
       /\ ~Has(r, i, "filter") /\ ~Has(r, i, "rank")
  /\ step = "rank" =>
       /\ r.top /\ Has(r, i, "first") /\ (r.of # "mem" => Has(r, i, "second"))
       /\ Has(r, i, "filter") /\ ~Has(r, i, "rank") /\ ~Has(r, i, "name")
  /\ step = "name" =>
       /\ r.top /\ Has(r, i, "first") /\ (r.of # "mem" => Has(r, i, "second"))
       /\ Has(r, i, "filter") /\ Has(r, i, "rank") /\ ~Has(r, i, "name")


\* The steps of every call come in order: a list is read first, each read is
\* made once and on its side of the sleep, and top filters, ranks and names
\* what was measured, in this order.
LEMMA StepOrder ==
  ASSUME NEW r \in Requests
  PROVE  /\ Steps(r) \in Seq(StepNames)
         /\ DOMAIN Steps(r) = 1 .. Len(Steps(r)) /\ Len(Steps(r)) \in Nat \ {0}
         /\ \A i \in DOMAIN Steps(r) : Steps(r)[i] \in StepNames /\ InOrder(r, i)
         /\ Steps(r)[1] = IF r.pid = 0 THEN "list" ELSE "first"
         /\ \E i \in DOMAIN Steps(r) : Steps(r)[i] = "first"
         /\ r.of # "mem" => \E i \in DOMAIN Steps(r) : Steps(r)[i] = "second"
         /\ r.top => /\ \E i \in DOMAIN Steps(r) : Steps(r)[i] = "filter"
                     /\ \E i \in DOMAIN Steps(r) : Steps(r)[i] = "rank"
                     /\ \E i \in DOMAIN Steps(r) : Steps(r)[i] = "name"
         /\ r.pid = 0 => \E i \in DOMAIN Steps(r) : Steps(r)[i] = "list"
<1>1. r.of \in {"cpu", "io", "mem"} /\ (r.top => r.pid = 0) /\ (r.of = "mem" => r.top)
  BY SamplingAssumption DEF AllRequests
<1> DEFINE w == Window(r)
           k == Ranking(r)
           u == Steps(r)
<1>2. u = w \o k
  BY DEF Steps
<1>3. k = IF r.top THEN <<"filter", "rank", "name">> ELSE << >>
  BY <1>1 DEF Ranking
<1>4. CASE r.of = "mem"
  <2>1. w = <<"list", "first">>
    BY <1>1, <1>4 DEF Window
  <2> HIDE DEF w, k, u
  <2>2. /\ w \in Seq(StepNames) /\ Len(w) = 2 /\ w[1] = "list" /\ w[2] = "first"
    BY <2>1 DEF StepNames
  <2>3. /\ k \in Seq(StepNames) /\ Len(k) = 3
        /\ k[1] = "filter" /\ k[2] = "rank" /\ k[3] = "name"
    BY <1>1, <1>3, <1>4 DEF StepNames
  <2>4. /\ u \in Seq(StepNames) /\ DOMAIN u = 1 .. Len(w) + Len(k) /\ Len(u) = Len(w) + Len(k)
        /\ \A i \in 1 .. Len(w) : u[i] = w[i]
        /\ \A i \in 1 .. Len(k) : u[Len(w) + i] = k[i]
    BY <1>2, <2>2, <2>3, OneBehindTheOther
  <2>5. /\ u \in Seq(StepNames) /\ DOMAIN u = 1 .. 5 /\ Len(u) = 5 /\ u[1] = "list"
        /\ u[2] = "first" /\ u[3] = "filter" /\ u[4] = "rank" /\ u[5] = "name"
    BY <2>2, <2>3, <2>4
  <2> QED
    BY <1>1, <1>4, <2>5 DEF InOrder, Has, StepNames, u
<1>5. CASE r.of = "io" /\ r.pid # 0
  <2>1. w = <<"first", "sleep", "second">>
    BY <1>1, <1>5 DEF Window
  <2> HIDE DEF w, k, u
  <2>2. /\ w \in Seq(StepNames) /\ Len(w) = 3 /\ w[1] = "first" /\ w[2] = "sleep"
        /\ w[3] = "second"
    BY <2>1 DEF StepNames
  <2>3. k \in Seq(StepNames) /\ Len(k) = 0
    BY <1>1, <1>3, <1>5
  <2>4. /\ u \in Seq(StepNames) /\ DOMAIN u = 1 .. Len(w) + Len(k) /\ Len(u) = Len(w) + Len(k)
        /\ \A i \in 1 .. Len(w) : u[i] = w[i]
        /\ \A i \in 1 .. Len(k) : u[Len(w) + i] = k[i]
    BY <1>2, <2>2, <2>3, OneBehindTheOther
  <2>5. /\ u \in Seq(StepNames) /\ DOMAIN u = 1 .. 3 /\ Len(u) = 3 /\ u[1] = "first"
        /\ u[2] = "sleep" /\ u[3] = "second"
    BY <2>2, <2>3, <2>4
  <2> QED
    BY <1>1, <1>5, <2>5 DEF InOrder, Has, StepNames, u
<1>6. CASE r.of = "io" /\ r.pid = 0 /\ ~r.top
  <2>1. w = <<"list", "first", "sleep", "second">>
    BY <1>1, <1>6 DEF Window
  <2> HIDE DEF w, k, u
  <2>2. /\ w \in Seq(StepNames) /\ Len(w) = 4 /\ w[1] = "list" /\ w[2] = "first"
        /\ w[3] = "sleep" /\ w[4] = "second"
    BY <2>1 DEF StepNames
  <2>3. k \in Seq(StepNames) /\ Len(k) = 0
    BY <1>1, <1>3, <1>6
  <2>4. /\ u \in Seq(StepNames) /\ DOMAIN u = 1 .. Len(w) + Len(k) /\ Len(u) = Len(w) + Len(k)
        /\ \A i \in 1 .. Len(w) : u[i] = w[i]
        /\ \A i \in 1 .. Len(k) : u[Len(w) + i] = k[i]
    BY <1>2, <2>2, <2>3, OneBehindTheOther
  <2>5. /\ u \in Seq(StepNames) /\ DOMAIN u = 1 .. 4 /\ Len(u) = 4 /\ u[1] = "list"
        /\ u[2] = "first" /\ u[3] = "sleep" /\ u[4] = "second"
    BY <2>2, <2>3, <2>4
  <2> QED
    BY <1>1, <1>6, <2>5 DEF InOrder, Has, StepNames, u
<1>7. CASE r.of = "io" /\ r.pid = 0 /\ r.top
  <2>1. w = <<"list", "first", "sleep", "second">>
    BY <1>1, <1>7 DEF Window
  <2> HIDE DEF w, k, u
  <2>2. /\ w \in Seq(StepNames) /\ Len(w) = 4 /\ w[1] = "list" /\ w[2] = "first"
        /\ w[3] = "sleep" /\ w[4] = "second"
    BY <2>1 DEF StepNames
  <2>3. /\ k \in Seq(StepNames) /\ Len(k) = 3
        /\ k[1] = "filter" /\ k[2] = "rank" /\ k[3] = "name"
    BY <1>1, <1>3, <1>7 DEF StepNames
  <2>4. /\ u \in Seq(StepNames) /\ DOMAIN u = 1 .. Len(w) + Len(k) /\ Len(u) = Len(w) + Len(k)
        /\ \A i \in 1 .. Len(w) : u[i] = w[i]
        /\ \A i \in 1 .. Len(k) : u[Len(w) + i] = k[i]
    BY <1>2, <2>2, <2>3, OneBehindTheOther
  <2>5. /\ u \in Seq(StepNames) /\ DOMAIN u = 1 .. 7 /\ Len(u) = 7 /\ u[1] = "list"
        /\ u[2] = "first" /\ u[3] = "sleep" /\ u[4] = "second" /\ u[5] = "filter"
        /\ u[6] = "rank" /\ u[7] = "name"
    BY <2>2, <2>3, <2>4
  <2> QED
    BY <1>1, <1>7, <2>5 DEF InOrder, Has, StepNames, u
<1>8. CASE r.of = "cpu" /\ r.pid # 0
  <2>1. w = <<"first", "system", "sleep", "second", "system">>
    BY <1>1, <1>8 DEF Window
  <2> HIDE DEF w, k, u
  <2>2. /\ w \in Seq(StepNames) /\ Len(w) = 5 /\ w[1] = "first" /\ w[2] = "system"
        /\ w[3] = "sleep" /\ w[4] = "second" /\ w[5] = "system"
    BY <2>1 DEF StepNames
  <2>3. k \in Seq(StepNames) /\ Len(k) = 0
    BY <1>1, <1>3, <1>8
  <2>4. /\ u \in Seq(StepNames) /\ DOMAIN u = 1 .. Len(w) + Len(k) /\ Len(u) = Len(w) + Len(k)
        /\ \A i \in 1 .. Len(w) : u[i] = w[i]
        /\ \A i \in 1 .. Len(k) : u[Len(w) + i] = k[i]
    BY <1>2, <2>2, <2>3, OneBehindTheOther
  <2>5. /\ u \in Seq(StepNames) /\ DOMAIN u = 1 .. 5 /\ Len(u) = 5 /\ u[1] = "first"
        /\ u[2] = "system" /\ u[3] = "sleep" /\ u[4] = "second" /\ u[5] = "system"
    BY <2>2, <2>3, <2>4
  <2> QED
    BY <1>1, <1>8, <2>5 DEF InOrder, Has, StepNames, u
<1>9. CASE r.of = "cpu" /\ r.pid = 0 /\ ~r.top
  <2>1. w = <<"list", "system", "first", "sleep", "system", "second">>
    BY <1>1, <1>9 DEF Window
  <2> HIDE DEF w, k, u
  <2>2. /\ w \in Seq(StepNames) /\ Len(w) = 6 /\ w[1] = "list" /\ w[2] = "system"
        /\ w[3] = "first" /\ w[4] = "sleep" /\ w[5] = "system" /\ w[6] = "second"
    BY <2>1 DEF StepNames
  <2>3. k \in Seq(StepNames) /\ Len(k) = 0
    BY <1>1, <1>3, <1>9
  <2>4. /\ u \in Seq(StepNames) /\ DOMAIN u = 1 .. Len(w) + Len(k) /\ Len(u) = Len(w) + Len(k)
        /\ \A i \in 1 .. Len(w) : u[i] = w[i]
        /\ \A i \in 1 .. Len(k) : u[Len(w) + i] = k[i]
    BY <1>2, <2>2, <2>3, OneBehindTheOther
  <2>5. /\ u \in Seq(StepNames) /\ DOMAIN u = 1 .. 6 /\ Len(u) = 6 /\ u[1] = "list"
        /\ u[2] = "system" /\ u[3] = "first" /\ u[4] = "sleep" /\ u[5] = "system"
        /\ u[6] = "second"
    BY <2>2, <2>3, <2>4
  <2> QED
    BY <1>1, <1>9, <2>5 DEF InOrder, Has, StepNames, u
<1>10. CASE r.of = "cpu" /\ r.pid = 0 /\ r.top
  <2>1. w = <<"list", "system", "first", "sleep", "system", "second">>
    BY <1>1, <1>10 DEF Window
  <2> HIDE DEF w, k, u
  <2>2. /\ w \in Seq(StepNames) /\ Len(w) = 6 /\ w[1] = "list" /\ w[2] = "system"
        /\ w[3] = "first" /\ w[4] = "sleep" /\ w[5] = "system" /\ w[6] = "second"
    BY <2>1 DEF StepNames
  <2>3. /\ k \in Seq(StepNames) /\ Len(k) = 3
        /\ k[1] = "filter" /\ k[2] = "rank" /\ k[3] = "name"
    BY <1>1, <1>3, <1>10 DEF StepNames
  <2>4. /\ u \in Seq(StepNames) /\ DOMAIN u = 1 .. Len(w) + Len(k) /\ Len(u) = Len(w) + Len(k)
        /\ \A i \in 1 .. Len(w) : u[i] = w[i]
        /\ \A i \in 1 .. Len(k) : u[Len(w) + i] = k[i]
    BY <1>2, <2>2, <2>3, OneBehindTheOther
  <2>5. /\ u \in Seq(StepNames) /\ DOMAIN u = 1 .. 9 /\ Len(u) = 9 /\ u[1] = "list"
        /\ u[2] = "system" /\ u[3] = "first" /\ u[4] = "sleep" /\ u[5] = "system"
        /\ u[6] = "second" /\ u[7] = "filter" /\ u[8] = "rank" /\ u[9] = "name"
    BY <2>2, <2>3, <2>4
  <2> QED
    BY <1>1, <1>10, <2>5 DEF InOrder, Has, StepNames, u
<1> QED
  BY <1>1, <1>4, <1>5, <1>6, <1>7, <1>8, <1>9, <1>10

-----------------------------------------------------------------------------
\* No call: nothing is behind it, and it does nothing.
LEMMA NoCall ==
  ASSUME req \in Requests, at = 0, result # "ok"
  PROVE  \A step : ~Behind(step) /\ ~Doing(step) /\ ~Before(step)
BY StepOrder DEF Behind, Doing, Before

\* No call has begun: the invariant holds.
LEMMA InitCall == Init => CallInv
<1> SUFFICES ASSUME Init PROVE CallInv
  OBVIOUS
<1> USE ProcTableAssumption, SamplingAssumption
<1>1. ProcTypeOK /\ TableOK
  BY InitTable DEF Init, TableOK
<1>2. /\ at = 0 /\ result = "none" /\ lived = {} /\ open = Nothing /\ rows = {}
      /\ base = << >> /\ lines = << >> /\ names = << >> /\ system = << >>
      /\ pids = {} /\ todo = {} /\ clock = 0 /\ mark = NoMark
  BY DEF Init, ProcInit
<1>3. req \in Requests
  BY DEF Init
<1>4. used \in [Pids -> Nat]
  BY DEF Init
<1>5. \A step : ~Behind(step) /\ ~Doing(step) /\ ~Before(step)
  BY <1>2, <1>3, NoCall
<1>6. DOMAIN base = {} /\ DOMAIN names = {} /\ Len(system) = 0 /\ Len(names) = 0 /\ Len(lines) = 0
  BY <1>2
<1>7. Len(Steps(req)) \in Nat
  BY <1>3, StepOrder
<1>8. TypeOK
  BY <1>1, <1>2, <1>3, <1>4, <1>6, <1>7 DEF TypeOK
<1>9. MarkType
  BY <1>2, <1>4 DEF MarkType, NoMark
<1>10. IsFiniteSet(rows)
  BY <1>2, FS_EmptySet
<1>11. ShapeOK
  BY <1>2, <1>5, <1>10 DEF ShapeOK
<1>12. BaseHonest /\ RowsHonest /\ NegativeOnlyIfGone /\ MarksKept /\ OpenKept /\ BaseKept /\ RowsKept
  BY <1>2, <1>6 DEF BaseHonest, RowsHonest, NegativeOnlyIfGone, MarksKept, OpenKept, BaseKept, RowsKept
<1>13. AllPresent /\ FilterOK /\ RankOK /\ NamesOK
  BY <1>2, <1>5 DEF AllPresent, Asked, Lasts, FilterOK, RankOK, NamesOK
<1> QED
  BY <1>1, <1>8, <1>9, <1>11, <1>12, <1>13 DEF CallInv

-----------------------------------------------------------------------------
(* The kernel. *)

\* What a step of the kernel may change: counters of processes that stay
\* only grow, and a birth is given out once.
KernelMoves ==
  /\ births \in Nat /\ births' \in Nat /\ births <= births'
  /\ lived' \subseteq lived
  /\ \A p \in lived' : table'[p].born = table[p].born
  /\ \A p \in Pids : table'[p].born \in {table[p].born, 0} \/ table'[p].born > births
  /\ \A p \in Pids : table'[p].born = table[p].born /\ table[p].born # 0 =>
       table'[p].access = table[p].access /\ used[p] <= used'[p]

\* A process that is born or exits moves no counter of another.
LEMMA ForkOrExit ==
  ASSUME CallInv, Kernel, used' \in [Pids -> Nat],
         \A p \in Pids : used'[p] = used[p] \/ table[p].born = 0 \/ table'[p].born = 0
  PROVE  ProcTypeOK' /\ TableOK' /\ KernelMoves
<1> USE DEF CallInv, TypeOK, TableOK
<1>1. ProcTypeOK' /\ ProcTypeOK
  BY KernelType
<1>2. /\ lived' \subseteq lived /\ LivedAlive' /\ ParentsAlive'
      /\ \A p \in lived' : table'[p].born = table[p].born
  BY KernelKeeps
<1>3. /\ births' \in {births, births + 1}
      /\ \A p \in Pids :
           \/ table'[p].born \in {table[p].born, 0}
           \/ table'[p].born = births + 1 /\ births' = births + 1
  BY KernelBirths
<1>4. births \in Nat /\ births' \in Nat
  BY <1>1 DEF ProcTypeOK
<1>5. BirthsBounded'
  <2> SUFFICES ASSUME NEW p \in Pids PROVE table'[p].born <= births'
    BY DEF BirthsBounded
  <2>1. table[p].born <= births
    BY DEF BirthsBounded
  <2>2. table[p].born \in Nat
    BY <1>1 DEF ProcTypeOK, Processes
  <2>3. births' = births \/ births' = births + 1
    BY <1>3
  <2>4. \/ table'[p].born = table[p].born \/ table'[p].born = 0
        \/ table'[p].born = births + 1 /\ births' = births + 1
    BY <1>3
  <2> QED
    BY <1>4, <2>1, <2>2, <2>3, <2>4
<1>6. ASSUME NEW p \in Pids, table'[p].born = table[p].born, table[p].born # 0
      PROVE  table'[p].access = table[p].access /\ used[p] <= used'[p]
  <2>1. table'[p].access = table[p].access
    BY <1>1, <1>6, KernelSameProcess
  <2>2. used'[p] = used[p] /\ used[p] \in Nat
    BY <1>6
  <2> QED
    BY <2>1, <2>2
<1>7. \A p \in Pids : table'[p].born \in {table[p].born, 0} \/ table'[p].born > births
  BY <1>3, <1>4
<1> QED
  BY <1>1, <1>2, <1>3, <1>4, <1>5, <1>6, <1>7 DEF KernelMoves

\* The kernel's steps leave the call alone, and move counters upwards only.
LEMMA KernelsStep ==
  ASSUME CallInv, Kernels
  PROVE  /\ ProcTypeOK' /\ TableOK' /\ KernelMoves
         /\ used' \in [Pids -> Nat] /\ clock' \in Nat /\ UNCHANGED callVars
<1> USE SamplingAssumption DEF CallInv, TypeOK
<1>1. ASSUME NEW running, KernelTicks(running)
      PROVE  /\ ProcTypeOK' /\ TableOK' /\ KernelMoves
             /\ used' \in [Pids -> Nat] /\ clock' \in Nat /\ UNCHANGED callVars
  <2>1. UNCHANGED <<procVars, callVars>> /\ clock' \in Nat
    BY <1>1 DEF KernelTicks
  <2>2. UNCHANGED <<table, births, lived, settled, views>>
    BY <2>1 DEF procVars
  <2>3. used' = [p \in Pids |-> IF p \in running THEN used[p] + 1 ELSE used[p]]
    BY <1>1 DEF KernelTicks
  <2>4. used' \in [Pids -> Nat] /\ \A p \in Pids : used[p] <= used'[p]
    BY <2>3
  <2>5. ProcTypeOK' /\ TableOK'
    BY <2>2 DEF ProcTypeOK, TableOK, LivedAlive, ParentsAlive, BirthsBounded, Alive
  <2>6. births \in Nat
    BY DEF ProcTypeOK
  <2>7. KernelMoves
    BY <2>2, <2>4, <2>6 DEF KernelMoves
  <2> QED
    BY <2>1, <2>4, <2>5, <2>7
<1>2. ASSUME NEW parent \in Pids, NEW child \in Pids, NEW a \in AccessModes,
             KernelForks(parent, child, a)
      PROVE  /\ ProcTypeOK' /\ TableOK' /\ KernelMoves
             /\ used' \in [Pids -> Nat] /\ clock' \in Nat /\ UNCHANGED callVars
  <2>1. Kernel
    BY <1>2 DEF KernelForks, Kernel
  <2>2. used' = [used EXCEPT ![child] = 0] /\ table[child].born = 0 /\ UNCHANGED <<clock, callVars>>
    BY <1>2 DEF KernelForks, Fork, Alive
  <2>3. used' \in [Pids -> Nat] /\ \A p \in Pids : used'[p] = used[p] \/ table[p].born = 0
    BY <2>2
  <2> QED
    BY <2>1, <2>2, <2>3, ForkOrExit
<1>3. ASSUME NEW x \in Pids, KernelReaps(x)
      PROVE  /\ ProcTypeOK' /\ TableOK' /\ KernelMoves
             /\ used' \in [Pids -> Nat] /\ clock' \in Nat /\ UNCHANGED callVars
  <2>1. Kernel
    BY <1>3 DEF KernelReaps, Kernel
  <2>2. used' = [used EXCEPT ![x] = 0] /\ UNCHANGED <<clock, callVars>>
    BY <1>3 DEF KernelReaps
  <2>3. table'[x].born = 0
    BY <1>3 DEF KernelReaps, Exit, NoProcess
  <2>4. used' \in [Pids -> Nat] /\ \A p \in Pids : used'[p] = used[p] \/ table'[p].born = 0
    BY <2>2, <2>3
  <2> QED
    BY <2>1, <2>2, <2>4, ForkOrExit
<1> QED
  BY <1>1, <1>2, <1>3 DEF Kernels

\* Whoever stays is the same, and its counters have not fallen.
LEMMA Stays ==
  ASSUME CallInv, ProcTypeOK', TableOK', KernelMoves, NEW p \in lived'
  PROVE  /\ p \in lived /\ p \in Pids
         /\ table'[p].born = table[p].born /\ table'[p].access = table[p].access
         /\ table[p].born # 0
         /\ used[p] <= used'[p]
BY DEF CallInv, TypeOK, ProcTypeOK, KernelMoves, TableOK, LivedAlive, Alive

\* What a call has read stays right while processes run, fork and exit.
LEMMA KernelStepInv == ASSUME CallInv, Kernels PROVE CallInv'
<1>1. /\ ProcTypeOK' /\ TableOK' /\ KernelMoves
      /\ used' \in [Pids -> Nat] /\ clock' \in Nat /\ UNCHANGED callVars
  BY KernelsStep
<1>2. UNCHANGED <<req, at, pids, todo, open, base, system, rows, lines, names, result, mark>>
  BY <1>1 DEF callVars
<1>3. TypeOK /\ MarkType
  BY DEF CallInv
<1>4. TypeOK' /\ MarkType'
  BY <1>1, <1>2, <1>3 DEF TypeOK, MarkType
<1>5. \A step : Behind(step)' = Behind(step) /\ Doing(step)' = Doing(step) /\ Before(step)' = Before(step)
  BY <1>2 DEF Behind, Doing, Before
<1>6. \A p \in lived' : /\ p \in lived /\ p \in Pids
                       /\ table'[p].born = table[p].born /\ table'[p].access = table[p].access
                       /\ table[p].born # 0 /\ used[p] <= used'[p]
  BY <1>1, Stays
<1>7. \A p : p \in lived' => (Measurable(p)' <=> Measurable(p)) /\ (Wanted(p)' <=> Wanted(p))
                             /\ (IsOwn(p)' <=> IsOwn(p))
  BY <1>2, <1>6 DEF Measurable, Wanted, IsOwn
<1>8. Measures' = Measures
  BY <1>2 DEF Measures
<1>9. births \in Nat /\ births' \in Nat /\ births <= births'
  BY <1>1 DEF KernelMoves
<1>10. ShapeOK'
  BY <1>2, <1>5, <1>8, <1>9 DEF CallInv, ShapeOK
<1>11. ASSUME NEW p \in Pids, NEW b \in 1 .. births, table'[p].born = b
       PROVE  table[p].born = b /\ table'[p].access = table[p].access /\ used[p] <= used'[p]
  <2>1. table'[p].born = table[p].born
    BY <1>1, <1>9, <1>11 DEF KernelMoves
  <2> QED
    BY <1>1, <1>11, <2>1 DEF KernelMoves
<1>12. BaseHonest'
  <2> SUFFICES ASSUME NEW p \in DOMAIN base
               PROVE  /\ base[p].born \in 1 .. births'
                      /\ base[p].born = table'[p].born =>
                           /\ base[p].used <= used'[p]
                           /\ req.of = "io" /\ table'[p].access # "full" => base[p].used = 0
    BY <1>2 DEF BaseHonest
  <2>1. base[p].born \in 1 .. births /\ p \in Pids /\ base[p].used \in Nat
    BY <1>3 DEF CallInv, BaseHonest, TypeOK
  <2>2. base[p].born \in 1 .. births'
    BY <1>9, <2>1
  <2>3. ASSUME base[p].born = table'[p].born
        PROVE  /\ base[p].used <= used'[p]
               /\ req.of = "io" /\ table'[p].access # "full" => base[p].used = 0
    <3>1. table[p].born = base[p].born /\ table'[p].access = table[p].access /\ used[p] <= used'[p]
      BY <1>11, <2>1, <2>3
    <3>2. /\ base[p].used <= used[p]
          /\ req.of = "io" /\ table[p].access # "full" => base[p].used = 0
      BY <3>1 DEF CallInv, BaseHonest
    <3>3. used[p] \in Nat /\ used'[p] \in Nat
      BY <1>1, <1>3, <2>1 DEF TypeOK
    <3> QED
      BY <2>1, <3>1, <3>2, <3>3
  <2> QED
    BY <2>2, <2>3
<1>13. RowsHonest'
  BY <1>2, <1>9 DEF CallInv, RowsHonest
<1>14. NegativeOnlyIfGone'
  <2> SUFFICES ASSUME NEW r \in rows, r.delta < 0, r.first = r.second
               PROVE  req.of = "io" /\ <<r.pid, r.second>> # <<r.pid, table'[r.pid].born>>
    BY <1>2 DEF NegativeOnlyIfGone, Present
  <2>1. req.of = "io" /\ <<r.pid, r.second>> # <<r.pid, table[r.pid].born>>
    BY DEF CallInv, NegativeOnlyIfGone, Present
  <2>2. r.second \in 1 .. births /\ r.pid \in Pids
    BY <1>3 DEF CallInv, RowsHonest, TypeOK, Row
  <2>3. r.second # table[r.pid].born
    BY <2>1
  <2>4. r.second # table'[r.pid].born
    BY <1>11, <2>2, <2>3
  <2> QED
    BY <2>1, <2>4
<1>15. MarksKept'
  <2> SUFFICES ASSUME NEW p \in lived' PROVE mark.begin[p] <= used'[p] /\ mark.wake[p] <= used'[p]
    BY <1>2 DEF MarksKept
  <2>1. p \in lived /\ p \in Pids /\ used[p] <= used'[p]
    BY <1>6
  <2>2. mark.begin[p] <= used[p] /\ mark.wake[p] <= used[p]
    BY <2>1 DEF CallInv, MarksKept
  <2>3. mark.begin[p] \in Nat /\ mark.wake[p] \in Nat /\ used[p] \in Nat /\ used'[p] \in Nat
    BY <1>1, <1>3, <2>1 DEF MarkType, TypeOK
  <2> QED
    BY <2>1, <2>2, <2>3
<1>16. OpenKept'
  <2> SUFFICES ASSUME open # Nothing, open.pid \in lived'
               PROVE  open.born = table'[open.pid].born /\ open.own = IsOwn(open.pid)'
    BY <1>2 DEF OpenKept
  <2>1. /\ open.pid \in lived /\ table'[open.pid].born = table[open.pid].born
        /\ table'[open.pid].access = table[open.pid].access
    BY <1>6
  <2>2. open.born = table[open.pid].born /\ open.own = IsOwn(open.pid)
    BY <2>1 DEF CallInv, OpenKept
  <2> QED
    BY <1>2, <2>1, <2>2 DEF IsOwn
<1>17. BaseKept'
  <2> SUFFICES ASSUME NEW p \in DOMAIN base, p \in lived', Measurable(p)'
               PROVE  /\ base[p].born = table'[p].born
                      /\ mark.begin[p] <= base[p].used /\ base[p].used <= used'[p]
                      /\ Doing("sleep")' \/ Behind("sleep")' => base[p].used <= mark.sleep[p]
    BY <1>2 DEF BaseKept, Lasts
  <2>1. /\ p \in lived /\ p \in Pids /\ Measurable(p) /\ used[p] <= used'[p]
        /\ table'[p].born = table[p].born
    BY <1>6, <1>7
  <2>2. /\ base[p].born = table[p].born
        /\ mark.begin[p] <= base[p].used /\ base[p].used <= used[p]
        /\ Doing("sleep") \/ Behind("sleep") => base[p].used <= mark.sleep[p]
    BY <2>1 DEF CallInv, BaseKept, Lasts
  <2>3. base[p].used \in Nat /\ used[p] \in Nat /\ used'[p] \in Nat
    BY <1>1, <1>3, <2>1 DEF TypeOK
  <2> QED
    BY <1>5, <2>1, <2>2, <2>3
<1>18. RowsKept'
  <2> SUFFICES ASSUME NEW r \in rows, r.pid \in lived'
               PROVE  /\ r.own = IsOwn(r.pid)'
                      /\ Measurable(r.pid)' =>
                           r.first = table'[r.pid].born /\ r.second = table'[r.pid].born
                      /\ Measurable(r.pid)' /\ req.of # "mem" =>
                           /\ mark.wake[r.pid] - mark.sleep[r.pid] <= r.delta
                           /\ r.delta <= used'[r.pid] - mark.begin[r.pid]
    BY <1>2 DEF RowsKept
  <2> DEFINE p == r.pid
  <2>1. /\ p \in lived /\ p \in Pids /\ (Measurable(p)' <=> Measurable(p))
        /\ IsOwn(p)' = IsOwn(p)
        /\ used[p] <= used'[p] /\ table'[p].born = table[p].born
    BY <1>6, <1>7 DEF IsOwn
  <2>2. /\ r.own = IsOwn(p)
        /\ Measurable(p) => r.first = table[p].born /\ r.second = table[p].born
        /\ Measurable(p) /\ req.of # "mem" =>
             /\ mark.wake[p] - mark.sleep[p] <= r.delta
             /\ r.delta <= used[p] - mark.begin[p]
    BY <2>1 DEF CallInv, RowsKept
  <2>3. used[p] \in Nat /\ used'[p] \in Nat /\ mark.begin[p] \in Nat /\ r.delta \in Int
    BY <1>1, <1>3, <2>1 DEF TypeOK, Row, MarkType
  <2> HIDE DEF p
  <2>4. r.delta <= used[p] - mark.begin[p] => r.delta <= used'[p] - mark.begin[p]
    BY <2>1, <2>3
  <2> QED
    BY <2>1, <2>2, <2>4 DEF p
<1>19. AllPresent'
  BY <1>2, <1>5, <1>6, <1>7, <1>8 DEF CallInv, AllPresent, Asked, Lasts, InPlace, Rowed
<1>20. FilterOK'
  BY <1>2, <1>5, <1>6, <1>7 DEF CallInv, FilterOK
<1>21. RankOK'
  BY <1>2, <1>5 DEF CallInv, RankOK, Rate, Total
<1>22. NamesOK'
  BY <1>2, <1>5, <1>6, <1>7 DEF CallInv, NamesOK, Lasts
<1> QED
  BY <1>1, <1>4, <1>10, <1>12, <1>13, <1>14, <1>15, <1>16, <1>17, <1>18, <1>19, <1>20, <1>21,
     <1>22 DEF CallInv

-----------------------------------------------------------------------------
(* A call begins, fails, and goes from one step to the next. *)

\* In a call, what is behind is what comes first on its list of steps.
LEMMA AtStep ==
  ASSUME req \in Requests, at \in 1 .. Len(Steps(req)), result = "none"
  PROVE  /\ at \in DOMAIN Steps(req) /\ InOrder(req, at)
         /\ \A step : Behind(step) <=> Has(req, at, step)
         /\ \A step : Doing(step) <=> Steps(req)[at] = step
         /\ \A step : Before(step) <=> ~Behind(step) /\ ~Doing(step)
BY StepOrder DEF Behind, Has, Doing, Before

\* A call begins with nothing read.
LEMMA BeginStepInv == ASSUME CallInv, NEW r \in Requests, Begin(r) PROVE CallInv'
<1> USE ProcTableAssumption, SamplingAssumption
<1>1. /\ req' = r /\ at' = 1 /\ result' = "none" /\ open' = Nothing
      /\ base' = << >> /\ system' = << >> /\ rows' = {} /\ lines' = << >> /\ names' = << >>
      /\ pids' = (IF r.pid = 0 THEN {} ELSE {r.pid}) /\ todo' = pids' /\ mark' = NoMark
      /\ Mark /\ UNCHANGED <<table, births, used, clock>>
  BY DEF Begin
<1>2. TypeOK /\ TableOK /\ ProcTypeOK
  BY DEF CallInv, TypeOK
<1>3. ProcTypeOK' /\ LivedAlive' /\ lived' = AlivePids'
  BY <1>1, <1>2, MarkTable
<1>4. TableOK'
  BY <1>1, <1>2, <1>3 DEF TableOK, ParentsAlive, BirthsBounded, Alive
<1>5. r.pid \in Pids \cup {0}
  BY DEF AllRequests
<1>6. /\ Len(Steps(r)) \in Nat \ {0} /\ Steps(r)[1] = IF r.pid = 0 THEN "list" ELSE "first"
  BY StepOrder
<1>7. req' \in Requests /\ at' \in 1 .. Len(Steps(req'))
  BY <1>1, <1>6
<1>8. DOMAIN base' = {} /\ DOMAIN names' = {} /\ Len(system') = 0 /\ Len(names') = 0 /\ Len(lines') = 0
  BY <1>1
<1>9. TypeOK'
  BY <1>1, <1>2, <1>3, <1>5, <1>7, <1>8 DEF TypeOK
<1>10. MarkType'
  BY <1>1, <1>2 DEF MarkType, NoMark, TypeOK
<1>11. \A step : ~Behind(step)'
  BY <1>1, <1>6, StepOrder DEF Behind
<1>12. \A step : Doing(step)' <=> step = IF r.pid = 0 THEN "list" ELSE "first"
  BY <1>1, <1>6 DEF Doing
<1>13. r.of = "mem" => r.pid = 0
  OBVIOUS
<1>14. IsFiniteSet(rows')
  BY <1>1, FS_EmptySet
<1>15. ShapeOK'
  BY <1>1, <1>8, <1>11, <1>12, <1>14 DEF ShapeOK, Measures, Before
<1>16. \A p \in lived' : p \in Pids /\ used[p] \in Nat
  BY <1>2, <1>3 DEF AlivePids, TypeOK
<1>17. MarksKept'
  BY <1>1, <1>16 DEF MarksKept, NoMark
<1>18. BaseHonest' /\ RowsHonest' /\ NegativeOnlyIfGone' /\ OpenKept' /\ BaseKept' /\ RowsKept'
  BY <1>1, <1>8 DEF BaseHonest, RowsHonest, NegativeOnlyIfGone, OpenKept, BaseKept, RowsKept
<1>19. AllPresent'
  <2> SUFFICES ASSUME NEW p \in Pids, r.pid \in {0, p} PROVE InPlace(p)'
    BY <1>1 DEF AllPresent, Asked
  <2>1. r.pid # 0 => p \in pids' /\ p \in todo'
    BY <1>1
  <2>2. r.pid = 0 => r.pid # p
    OBVIOUS
  <2> QED
    BY <1>1, <1>11, <1>12, <1>13, <2>1, <2>2 DEF InPlace, Measures
<1>20. FilterOK' /\ RankOK' /\ NamesOK'
  BY <1>1, <1>11 DEF FilterOK, RankOK, NamesOK
<1> QED
  BY <1>4, <1>9, <1>10, <1>15, <1>17, <1>18, <1>19, <1>20 DEF CallInv

\* A call that fails promises nothing.
LEMMA FailStepInv == ASSUME CallInv, at # 0, open = Nothing, Fail PROVE CallInv'
<1>1. /\ at' = 0 /\ result' = "error"
      /\ UNCHANGED <<kernelVars, req, pids, todo, open, base, system, rows, lines, names, mark>>
  BY DEF Fail
<1>2. UNCHANGED <<procVars, used, clock>>
  BY <1>1 DEF kernelVars
<1>3. UNCHANGED <<table, births, lived, settled, views>>
  BY <1>2 DEF procVars
<1>4. TypeOK /\ MarkType /\ TableOK /\ req \in Requests
  BY DEF CallInv, TypeOK
<1>5. Len(Steps(req)) \in Nat
  BY <1>4, StepOrder
<1>6. TypeOK' /\ MarkType'
  BY <1>1, <1>2, <1>3, <1>4, <1>5 DEF TypeOK, MarkType, ProcTypeOK
<1>7. TableOK'
  BY <1>3, <1>4 DEF TableOK, LivedAlive, ParentsAlive, BirthsBounded, Alive
<1>8. \A step : ~Behind(step)' /\ ~Doing(step)' /\ ~Before(step)'
  <2>1. req' \in Requests /\ at' = 0 /\ result' # "ok"
    BY <1>1, <1>4
  <2> QED
    BY <2>1, StepOrder DEF Behind, Doing, Before
<1>9. ShapeOK'
  BY <1>1, <1>8 DEF CallInv, ShapeOK
<1>10. BaseHonest' /\ RowsHonest' /\ NegativeOnlyIfGone' /\ MarksKept'
  BY <1>1, <1>2, <1>3 DEF CallInv, BaseHonest, RowsHonest, NegativeOnlyIfGone, MarksKept, Present
<1>11. OpenKept' /\ BaseKept' /\ RowsKept'
  BY <1>1, <1>2, <1>3, <1>8
  DEF CallInv, OpenKept, BaseKept, RowsKept, Lasts, Measurable, IsOwn
<1>12. AllPresent' /\ FilterOK' /\ RankOK' /\ NamesOK'
  BY <1>1, <1>8 DEF AllPresent, InPlace, FilterOK, RankOK, NamesOK
<1> QED
  BY <1>6, <1>7, <1>9, <1>10, <1>11, <1>12 DEF CallInv

\* From one step to the next: what was done is behind, the next has its PIDs, and
\* a sleep is marked where it begins and where it ends.
LEMMA GoesOn ==
  ASSUME CallInv, at # 0, NEW asked, Goto(asked)
  PROVE  /\ UNCHANGED <<table, births, lived, settled, views, used, clock, req, open>> /\ open = Nothing
         /\ Doing("first") \/ Doing("second") \/ Doing("filter") => todo = {}
         /\ at' \in 0 .. Len(Steps(req)) /\ result' \in {"none", "ok"}
         /\ at' = 0 => result' = "ok" /\ todo' = {} /\ mark' = mark
         /\ at' # 0 => at' = at + 1 /\ result' = "none"
         /\ at' # 0 => todo' = TodoFor(Steps(req)[at'], asked)
         /\ at' # 0 => mark' = [mark EXCEPT !.sleep = IF Doing("sleep")' THEN used ELSE @,
                                           !.wake = IF Doing("sleep") THEN used ELSE @]
         /\ \A step : Behind(step)' <=> Behind(step) \/ Doing(step)
<1>1. req \in Requests /\ at \in 0 .. Len(Steps(req)) /\ result = "none"
  BY DEF CallInv, TypeOK, ShapeOK
<1>2. /\ Len(Steps(req)) \in Nat \ {0} /\ DOMAIN Steps(req) = 1 .. Len(Steps(req))
      /\ at \in 1 .. Len(Steps(req))
  BY <1>1, StepOrder
<1>3. /\ UNCHANGED <<table, births, lived, settled, views, used, clock, req, open>> /\ open = Nothing
      /\ Doing("first") \/ Doing("second") \/ Doing("filter") => todo = {}
  BY DEF Goto, kernelVars, procVars
<1>4. CASE at = Len(Steps(req))
  <2>1. at' = 0 /\ result' = "ok" /\ todo' = {} /\ mark' = mark
    BY <1>4 DEF Goto
  <2>2. \A step : Behind(step)' <=> Behind(step) \/ Doing(step)
    BY <1>1, <1>2, <1>3, <1>4, <2>1 DEF Behind, Doing
  <2> QED
    BY <1>2, <1>3, <2>1, <2>2
<1>5. CASE at # Len(Steps(req))
  <2>1. /\ at' = at + 1 /\ result' = result
        /\ todo' = TodoFor(Steps(req)[at + 1], asked)
        /\ mark' = [mark EXCEPT !.sleep = IF Steps(req)[at + 1] = "sleep" THEN used ELSE @,
                                !.wake = IF Doing("sleep") THEN used ELSE @]
    BY <1>5 DEF Goto
  <2>2. at' \in 1 .. Len(Steps(req)) /\ at' # 0
    BY <1>2, <1>5, <2>1
  <2>3. Doing("sleep")' <=> Steps(req)[at + 1] = "sleep"
    BY <1>3, <2>1, <2>2 DEF Doing
  <2>4. \A step : Behind(step)' <=> Behind(step) \/ Doing(step)
    BY <1>1, <1>2, <1>3, <2>1, <2>2 DEF Behind, Doing
  <2>5. mark' = [mark EXCEPT !.sleep = IF Doing("sleep")' THEN used ELSE @,
                             !.wake = IF Doing("sleep") THEN used ELSE @]
    BY <2>1, <2>3
  <2>6. todo' = TodoFor(Steps(req)[at'], asked)
    BY <2>1
  <2> QED
    BY <1>1, <1>3, <2>1, <2>2, <2>4, <2>5, <2>6
<1> QED
  BY <1>4, <1>5

-----------------------------------------------------------------------------
(***************************************************************************)
(* What the steps that go on to the next have in common.  A step that has  *)
(* looked at all it had to leaves nobody out; what it adds is stated by    *)
(* the premises.                                                           *)
(***************************************************************************)
LEMMA GoneOn ==
  ASSUME CallInv, at # 0, Goto(pids'), pids' \subseteq Pids, UNCHANGED <<base, rows>>,
         Doing("list") => AlivePids \subseteq pids',
         ~Doing("list") => pids' = pids,
         system' \in Seq(Nat), Len(system') <= 2,
         at' # 0 =>
           Len(system') = IF req.of # "cpu" \/ at' <= 2 THEN 0 ELSE IF at' <= 5 THEN 1 ELSE 2,
         lines' \in Seq(Row), names' \in Seq(Nat), Len(names') <= Len(lines'),
         Before("rank")' \/ Doing("rank")' => names' = << >>,
         RankOK', NamesOK'
  PROVE  CallInv'
<1>1. /\ UNCHANGED <<table, births, lived, settled, views, used, clock, req, open>> /\ open = Nothing
      /\ Doing("first") \/ Doing("second") \/ Doing("filter") => todo = {}
      /\ at' \in 0 .. Len(Steps(req)) /\ result' \in {"none", "ok"}
      /\ at' = 0 => result' = "ok" /\ todo' = {} /\ mark' = mark
      /\ at' # 0 => at' = at + 1 /\ result' = "none"
      /\ at' # 0 => todo' = TodoFor(Steps(req)[at'], pids')
      /\ at' # 0 => mark' = [mark EXCEPT !.sleep = IF Doing("sleep")' THEN used ELSE @,
                                        !.wake = IF Doing("sleep") THEN used ELSE @]
      /\ \A step : Behind(step)' <=> Behind(step) \/ Doing(step)
  BY GoesOn
<1>2. TypeOK /\ MarkType /\ TableOK /\ ProcTypeOK /\ req \in Requests
  BY DEF CallInv, TypeOK
<1>3. /\ at \in 1 .. Len(Steps(req)) /\ result = "none"
      /\ \A step : Doing(step) => ~Before(step)
  BY <1>2 DEF CallInv, ShapeOK, TypeOK, Before
<1>4. at' = 0 => \A step : ~Doing(step)' /\ ~Before(step)'
  BY DEF Doing, Before
<1>5. at' # 0 => /\ at' \in DOMAIN Steps(req) /\ InOrder(req, at')
                 /\ \A step : Behind(step)' <=> Has(req, at', step)
                 /\ \A step : Doing(step)' <=> Steps(req)[at'] = step
                 /\ \A step : Before(step)' <=> ~Behind(step)' /\ ~Doing(step)'
  <2> SUFFICES ASSUME at' # 0
               PROVE  /\ at' \in DOMAIN Steps(req) /\ InOrder(req, at')
                      /\ \A step : Behind(step)' <=> Has(req, at', step)
                      /\ \A step : Doing(step)' <=> Steps(req)[at'] = step
                      /\ \A step : Before(step)' <=> ~Behind(step)' /\ ~Doing(step)'
    OBVIOUS
  <2>1. req' \in Requests /\ at' \in 1 .. Len(Steps(req')) /\ result' = "none" /\ req' = req
    BY <1>1, <1>2
  <2> QED
    BY <2>1, StepOrder DEF Behind, Has, Doing, Before
<1>6. /\ Behind("first")' /\ Doing("first")' => FALSE
      /\ Behind("sleep")' /\ Doing("sleep")' => FALSE
      /\ Behind("second")' /\ (Doing("second")' \/ Doing("sleep")') => FALSE
      /\ Doing("second")' => Behind("first")'
      /\ Behind("filter")' /\ Doing("filter")' => FALSE
      /\ Doing("first")' => (req.pid = 0 => Behind("list")')
      /\ Doing("second")' \/ Doing("sleep")' => req.of # "mem"
  BY <1>4, <1>5 DEF InOrder
<1>7. /\ \A step : Behind(step) <=> Has(req, at, step)
      /\ \A step : Doing(step) <=> Steps(req)[at] = step
      /\ \A step : Before(step) <=> ~Behind(step) /\ ~Doing(step)
      /\ InOrder(req, at)
  BY <1>2, <1>3, AtStep
<1>8. Doing("sleep") => Before("second")
  BY <1>7 DEF InOrder
<1>9. /\ Doing("first")' => todo' = pids'
      /\ Doing("second")' => todo' = DOMAIN base
      /\ Doing("filter")' => todo' = {r.pid : r \in rows}
      /\ todo' \subseteq Pids
  <2>1. CASE at' = 0
    BY <1>1, <1>4, <2>1
  <2>2. CASE at' # 0
    <3>1. todo' = TodoFor(Steps(req)[at'], pids')
      BY <1>1, <2>2
    <3>2. DOMAIN base \subseteq Pids /\ {r.pid : r \in rows} \subseteq Pids
      BY <1>2 DEF TypeOK, Row
    <3> QED
      BY <1>5, <2>2, <3>1, <3>2 DEF TodoFor
  <2> QED
    BY <2>1, <2>2
<1>10. MarkType' /\ mark'.begin = mark.begin
       /\ mark'.sleep = (IF Doing("sleep")' THEN used ELSE mark.sleep)
       /\ mark'.wake \in {used, mark.wake} /\ (~Doing("sleep") => mark'.wake = mark.wake)
  <2>1. CASE at' = 0
    BY <1>1, <1>2, <1>4, <2>1 DEF MarkType
  <2>2. CASE at' # 0
    <3>1. mark' = [mark EXCEPT !.sleep = IF Doing("sleep")' THEN used ELSE @,
                               !.wake = IF Doing("sleep") THEN used ELSE @]
      BY <1>1, <2>2
    <3>2. used \in [Pids -> Nat]
      BY <1>2 DEF TypeOK
    <3> QED
      BY <1>2, <3>1, <3>2 DEF MarkType
  <2> QED
    BY <2>1, <2>2
<1>11. TypeOK'
  BY <1>1, <1>2, <1>9 DEF TypeOK, ProcTypeOK
<1>12. TableOK'
  BY <1>1, <1>2 DEF TableOK, LivedAlive, ParentsAlive, BirthsBounded, Alive
<1>13. Measures' = Measures /\ Measures \in {"first", "second"}
  BY <1>1 DEF Measures
<1>14. Before(Measures)' \/ Doing(Measures)' => Before(Measures)
  BY <1>1, <1>4, <1>5, <1>6, <1>7, <1>13
<1>15. ShapeOK'
  <2>1. IsFiniteSet(rows) /\ (\A r, s \in rows : r.pid = s.pid => r = s) /\ (Before(Measures) => rows = {})
    BY DEF CallInv, ShapeOK
  <2> QED
    BY <1>1, <1>9, <1>13, <1>14, <2>1 DEF ShapeOK
<1>16. BaseHonest' /\ RowsHonest' /\ NegativeOnlyIfGone' /\ OpenKept'
  BY <1>1 DEF CallInv, BaseHonest, RowsHonest, NegativeOnlyIfGone, Present, OpenKept
<1>17. MarksKept'
  <2> SUFFICES ASSUME NEW p \in lived PROVE mark'.begin[p] <= used[p] /\ mark'.wake[p] <= used[p]
    BY <1>1 DEF MarksKept
  <2>1. mark.begin[p] <= used[p] /\ mark.wake[p] <= used[p]
    BY DEF CallInv, MarksKept
  <2>2. used[p] \in Nat
    BY <1>2 DEF TypeOK, ProcTypeOK
  <2> QED
    BY <1>10, <2>1, <2>2
<1>18. BaseKept'
  <2> SUFFICES ASSUME NEW p \in DOMAIN base, Lasts(p)
               PROVE  /\ base[p].born = table[p].born
                      /\ mark'.begin[p] <= base[p].used /\ base[p].used <= used[p]
                      /\ Doing("sleep")' \/ Behind("sleep")' => base[p].used <= mark'.sleep[p]
    BY <1>1 DEF BaseKept, Lasts, Measurable
  <2>1. /\ base[p].born = table[p].born
        /\ mark.begin[p] <= base[p].used /\ base[p].used <= used[p]
        /\ Doing("sleep") \/ Behind("sleep") => base[p].used <= mark.sleep[p]
    BY DEF CallInv, BaseKept
  <2>2. CASE Doing("sleep")'
    BY <1>10, <2>1, <2>2
  <2>3. CASE ~Doing("sleep")'
    <3>1. mark'.sleep = mark.sleep /\ (Behind("sleep")' => Behind("sleep") \/ Doing("sleep"))
      BY <1>1, <1>10, <2>3
    <3> QED
      BY <1>10, <2>1, <2>3, <3>1
  <2> QED
    BY <2>2, <2>3
<1>19. RowsKept'
  <2> SUFFICES ASSUME NEW r \in rows, r.pid \in lived
               PROVE  /\ r.own = IsOwn(r.pid)
                      /\ Measurable(r.pid) =>
                           r.first = table[r.pid].born /\ r.second = table[r.pid].born
                      /\ Measurable(r.pid) /\ req.of # "mem" =>
                           /\ mark'.wake[r.pid] - mark'.sleep[r.pid] <= r.delta
                           /\ r.delta <= used[r.pid] - mark'.begin[r.pid]
    BY <1>1 DEF RowsKept, IsOwn, Measurable
  <2>1. /\ r.own = IsOwn(r.pid)
        /\ Measurable(r.pid) => r.first = table[r.pid].born /\ r.second = table[r.pid].born
        /\ Measurable(r.pid) /\ req.of # "mem" =>
             /\ mark.wake[r.pid] - mark.sleep[r.pid] <= r.delta
             /\ r.delta <= used[r.pid] - mark.begin[r.pid]
    BY DEF CallInv, RowsKept
  <2>2. ASSUME req.of # "mem" PROVE mark'.wake = mark.wake /\ mark'.sleep = mark.sleep
    <3>1. ~Before("second")
      BY <2>2 DEF CallInv, ShapeOK, Measures
    <3>2. Behind("second") \/ Doing("second")
      BY <1>7, <3>1
    <3>3. ~Doing("sleep") /\ ~Doing("sleep")'
      BY <1>1, <1>6, <1>8, <3>1, <3>2
    <3> QED
      BY <1>10, <3>3
  <2> QED
    BY <1>10, <2>1, <2>2
<1>20. AllPresent'
  <2> SUFFICES ASSUME NEW p \in Pids, Asked(p) PROVE InPlace(p)'
    BY <1>1 DEF AllPresent, Asked, Lasts, Measurable
  <2>1. InPlace(p) /\ p \in lived /\ req.pid \in {0, p}
    BY DEF CallInv, AllPresent, Asked, Lasts
  <2>2. p # 0 /\ open.pid = 0
    BY <1>1, ProcTableAssumption DEF Nothing
  <2>3. at' # 0 /\ (req.pid = p \/ Behind("list")') => p \in pids'
    <3>1. CASE Doing("list")
      <4>1. p \in AlivePids
        BY <1>2, <2>1 DEF TableOK, LivedAlive, AlivePids
      <4> QED
        BY <3>1, <4>1
    <3>2. CASE ~Doing("list")
      BY <1>1, <2>1, <3>2 DEF InPlace
    <3> QED
      BY <3>1, <3>2
  <2>4. Behind("first")' => p \in DOMAIN base
    BY <1>1, <2>1, <2>2 DEF InPlace
  <2>5. Behind(Measures)' /\ (req.top => Wanted(p)) => Rowed(p)
    BY <1>1, <1>13, <2>1, <2>2 DEF InPlace
  <2>6. Doing("first")' => p \in todo'
    BY <1>4, <1>6, <1>9, <2>1, <2>3
  <2>7. Doing("second")' => p \in todo'
    BY <1>6, <1>9, <2>4
  <2>8. Wanted(p)' = Wanted(p) /\ Rowed(p)' = Rowed(p)
    BY <1>1 DEF Wanted, Rowed
  <2> QED
    BY <1>1, <1>13, <2>3, <2>4, <2>5, <2>6, <2>7, <2>8 DEF InPlace
<1>21. FilterOK'
  <2> SUFFICES ASSUME NEW r \in rows, r.pid \in lived
               PROVE  /\ Doing("filter")' => r.pid \in todo'
                      /\ Behind("filter")' => Wanted(r.pid)
    BY <1>1 DEF FilterOK, Wanted
  <2>1. Doing("filter")' => r.pid \in todo'
    BY <1>9
  <2>2. Behind("filter") => Wanted(r.pid)
    BY DEF CallInv, FilterOK
  <2>3. Doing("filter") => Wanted(r.pid)
    BY <1>1 DEF CallInv, FilterOK
  <2> QED
    BY <1>1, <2>1, <2>2, <2>3
<1> QED
  BY <1>10, <1>11, <1>12, <1>15, <1>16, <1>17, <1>18, <1>19, <1>20, <1>21 DEF CallInv

\* The steps that change neither lines nor names.
LEMMA PlainStep ==
  ASSUME CallInv, at # 0, Goto(pids'), pids' \subseteq Pids,
         UNCHANGED <<base, rows, lines, names>>,
         Doing("list") => AlivePids \subseteq pids',
         ~Doing("list") => pids' = pids,
         ~Doing("rank"), ~Doing("name"),
         IF Doing("system") THEN system' = Append(system, clock) ELSE system' = system
  PROVE  CallInv'
<1>1. /\ UNCHANGED <<table, births, lived, settled, views, used, clock, req, open>>
      /\ at' \in 0 .. Len(Steps(req)) /\ result' \in {"none", "ok"}
      /\ at' # 0 => at' = at + 1
      /\ \A step : Behind(step)' <=> Behind(step) \/ Doing(step)
  BY GoesOn
<1>2. TypeOK /\ ShapeOK /\ RankOK /\ NamesOK /\ req \in Requests
  BY DEF CallInv, TypeOK
<1>3. at \in 1 .. Len(Steps(req)) /\ result = "none" /\ at \in Nat
  BY <1>2 DEF ShapeOK, TypeOK
<1>4. /\ \A step : Behind(step) <=> Has(req, at, step)
      /\ \A step : Doing(step) <=> Steps(req)[at] = step
      /\ \A step : Before(step) <=> ~Behind(step) /\ ~Doing(step)
      /\ InOrder(req, at)
  BY <1>2, <1>3, AtStep
<1>5. Len(system) = IF req.of # "cpu" \/ at <= 2 THEN 0 ELSE IF at <= 5 THEN 1 ELSE 2
  BY <1>2 DEF ShapeOK
<1>6. system' \in Seq(Nat)
      /\ Len(system') = IF req.of # "cpu" \/ at + 1 <= 2 THEN 0 ELSE IF at + 1 <= 5 THEN 1 ELSE 2
  <2>1. CASE Doing("system")
    <3>1. req.of = "cpu" /\ at \in {2, 5}
      BY <1>4, <2>1 DEF InOrder
    <3>2. system \in Seq(Nat) /\ clock \in Nat /\ system' = Append(system, clock)
      BY <1>2, <2>1 DEF TypeOK
    <3>3. system' \in Seq(Nat) /\ Len(system') = Len(system) + 1
      BY <3>2, AppendProperties
    <3> QED
      BY <1>5, <3>1, <3>3
  <2>2. CASE ~Doing("system")
    <3>1. req.of = "cpu" => at \notin {2, 5}
      BY <1>4, <2>2 DEF InOrder
    <3> QED
      BY <1>2, <1>3, <1>5, <2>2, <3>1 DEF TypeOK
  <2> QED
    BY <2>1, <2>2
<1>7. Len(system') <= 2
  BY <1>6
<1>8. /\ at' # 0 =>
         Len(system') = IF req.of # "cpu" \/ at' <= 2 THEN 0 ELSE IF at' <= 5 THEN 1 ELSE 2
      /\ (Behind("rank")' <=> Behind("rank")) /\ (Behind("name")' <=> Behind("name"))
  BY <1>1, <1>6
<1>9. Behind("rank") => system' = system
  BY <1>4 DEF InOrder
<1>10. RankOK'
  BY <1>1, <1>2, <1>8, <1>9 DEF RankOK, Rate, Total
<1>11. NamesOK'
  BY <1>1, <1>2, <1>8 DEF NamesOK, Lasts, Measurable
<1>12. Before("rank")' \/ Doing("rank")' => names' = << >>
  <2> SUFFICES ASSUME Before("rank")' \/ Doing("rank")' PROVE names = << >>
    OBVIOUS
  <2>1. at' # 0
    BY DEF Before, Doing
  <2>2. ~Behind("rank")'
    <3>1. req' \in Requests /\ at' \in 1 .. Len(Steps(req')) /\ result' = "none"
      BY <1>1, <1>2, <2>1, GoesOn
    <3>2. Doing("rank")' => ~Behind("rank")'
      <4> SUFFICES ASSUME Doing("rank")' PROVE ~Behind("rank")'
        OBVIOUS
      <4>1. at' \in DOMAIN Steps(req') /\ Steps(req')[at'] = "rank"
        BY <3>1, StepOrder DEF Doing
      <4>2. ~Has(req', at', "rank")
        BY <3>1, <4>1, StepOrder DEF InOrder
      <4> QED
        BY <3>1, <4>2 DEF Behind, Has
    <3> QED
      BY <3>2 DEF Before
  <2>3. Before("rank")
    BY <1>4, <1>8, <2>2
  <2> QED
    BY <1>2, <2>3 DEF ShapeOK
<1>13. lines' \in Seq(Row) /\ names' \in Seq(Nat) /\ Len(names') <= Len(lines')
  BY <1>2 DEF TypeOK
<1> QED
  BY <1>6, <1>7, <1>8, <1>10, <1>11, <1>12, <1>13, GoneOn

\* What a step does not.
LEMMA OneStep ==
  ASSUME CallInv, NEW step, Doing(step)
  PROVE  /\ at # 0 /\ \A s : Doing(s) <=> s = step
         /\ step \notin {"first", "second"} => open = Nothing
BY DEF Doing, CallInv, ShapeOK

\* The list, the system's ticks, the sleep and the end of a round of reads.
LEMMA PlainStepsInv == ASSUME CallInv, List \/ ReadSystem \/ Wake \/ EndReads PROVE CallInv'
<1>1. pids \subseteq Pids /\ AlivePids \subseteq Pids
  BY DEF CallInv, TypeOK, AlivePids
<1>2. ASSUME List PROVE CallInv'
  <2>1. Doing("list")
    BY <1>2 DEF List
  <2>2. at # 0 /\ (\A s : Doing(s) <=> s = "list") /\ open = Nothing
    BY <2>1, OneStep
  <2>3. ASSUME Fail PROVE CallInv'
    BY <2>2, <2>3, FailStepInv
  <2>4. ASSUME pids' = AlivePids, Goto(AlivePids), UNCHANGED <<base, system, rows, lines, names>>
        PROVE  CallInv'
    <3>1. Goto(pids')
      BY <2>4
    <3> QED
      BY <1>1, <2>2, <2>4, <3>1, PlainStep
  <2> QED
    BY <1>2, <2>3, <2>4 DEF List
<1>3. ASSUME ReadSystem PROVE CallInv'
  <2>1. Doing("system")
    BY <1>3 DEF ReadSystem
  <2>2. at # 0 /\ (\A s : Doing(s) <=> s = "system") /\ open = Nothing
    BY <2>1, OneStep
  <2>3. ASSUME Fail PROVE CallInv'
    BY <2>2, <2>3, FailStepInv
  <2>4. ASSUME system' = Append(system, clock), Goto(pids), UNCHANGED <<pids, base, rows, lines, names>>
        PROVE  CallInv'
    <3>1. Goto(pids')
      BY <2>4
    <3> QED
      BY <1>1, <2>2, <2>4, <3>1, PlainStep
  <2> QED
    BY <1>3, <2>3, <2>4 DEF ReadSystem
<1>4. ASSUME NEW step, Doing(step), step \in {"sleep", "first", "second", "filter"},
             UNCHANGED <<pids, base, system, rows, lines, names>>, Goto(pids)
      PROVE  CallInv'
  <2>1. at # 0 /\ \A s : Doing(s) <=> s = step
    BY <1>4, OneStep
  <2>2. Goto(pids')
    BY <1>4
  <2>3. ~Doing("list") /\ ~Doing("rank") /\ ~Doing("name") /\ ~Doing("system")
    BY <1>4, <2>1
  <2> QED
    BY <1>1, <1>4, <2>1, <2>2, <2>3, PlainStep
<1>5. ASSUME Wake PROVE CallInv'
  BY <1>4, <1>5 DEF Wake
<1>6. ASSUME EndReads PROVE CallInv'
  BY <1>4, <1>6 DEF EndReads
<1> QED
  BY <1>2, <1>3, <1>5, <1>6

-----------------------------------------------------------------------------
(* What a read of a process adds. *)

\* What the details call has seen is of one process; the value is its, or 0
\* if it cannot be read; of a process that is gone it may be another's.
TrueRead(g, value) ==
  /\ g \in Glimpse /\ value \in Nat
  /\ g.born \in 1 .. births
  /\ g.pid \in lived => g.born = table[g.pid].born /\ g.own = IsOwn(g.pid)
  /\ req.of # "io" => g.born = table[g.pid].born
  /\ g.born = table[g.pid].born =>
       value = IF req.of = "io" /\ ~IsOwn(g.pid) THEN 0 ELSE used[g.pid]

NewRow(g, value) ==
  [pid |-> g.pid, own |-> g.own, second |-> g.born,
   first |-> IF Doing("second") THEN base[g.pid].born ELSE g.born,
   delta |-> IF Doing("second") THEN value - base[g.pid].used ELSE value]

\* What a read adds to the rows, and to what was read first.
LEMMA TakeRows ==
  ASSUME NEW g, NEW value, Take(g, value), Doing("first") \/ Doing("second"),
         Doing("first") <=> ~Doing("second"), Doing("second") => req.of # "mem"
  PROVE  /\ rows' = IF Doing(Measures) THEN rows \cup {NewRow(g, value)} ELSE rows
         /\ IF Doing("second") THEN base' = base
            ELSE /\ DOMAIN base' = {g.pid} \cup DOMAIN base
                 /\ base'[g.pid] = [born |-> g.born, used |-> value]
                 /\ \A q \in DOMAIN base : q # g.pid => base'[q] = base[q]
<1>1. CASE Doing("second")
  <2>1. NewRow(g, value) = [pid |-> g.pid, first |-> base[g.pid].born, second |-> g.born,
                            own |-> g.own, delta |-> value - base[g.pid].used]
    BY <1>1 DEF NewRow
  <2>2. Doing(Measures)
    BY <1>1 DEF Measures
  <2> QED
    BY <1>1, <2>1, <2>2 DEF Take
<1>2. CASE ~Doing("second")
  <2>1. NewRow(g, value) = [pid |-> g.pid, first |-> g.born, second |-> g.born,
                            own |-> g.own, delta |-> value]
    BY <1>2 DEF NewRow
  <2>2. Doing(Measures) <=> req.of = "mem"
    BY <1>2 DEF Measures
  <2>3. base' = [q \in DOMAIN base \cup {g.pid} |->
                   IF q = g.pid THEN [born |-> g.born, used |-> value] ELSE base[q]]
    BY <1>2 DEF Take
  <2>4. /\ DOMAIN base' = {g.pid} \cup DOMAIN base
        /\ base'[g.pid] = [born |-> g.born, used |-> value]
        /\ \A q \in DOMAIN base : q # g.pid => base'[q] = base[q]
    BY <2>3
  <2>5. rows' = IF Doing(Measures) THEN rows \cup {NewRow(g, value)} ELSE rows
    BY <1>2, <2>1, <2>2 DEF Take
  <2> QED
    BY <1>2, <2>4, <2>5
<1> QED
  BY <1>1, <1>2

\* A value that was truly read is taken in its place: a process that stays has
\* its first value from behind the begin, and its row from behind the sleep.
LEMMA TakeStepInv ==
  ASSUME CallInv, NEW g, NEW value, TrueRead(g, value), Take(g, value),
         Doing("first") \/ Doing("second"),
         Doing("second") => g.pid \in DOMAIN base,
         Doing(Measures) => \A r \in rows : r.pid # g.pid,
         open' = Nothing, todo' \subseteq todo, g.pid \notin todo',
         \A q \in Pids : q \in todo \/ open.pid = q => q \in todo' \/ q = g.pid,
         UNCHANGED <<kernelVars, req, at, pids, system, lines, names, result, mark>>
  PROVE  CallInv'
<1> DEFINE n == NewRow(g, value)
           p == g.pid
<1>1. UNCHANGED <<table, births, lived, settled, views, used, clock>>
  BY DEF kernelVars, procVars
<1>2. TypeOK /\ MarkType /\ TableOK /\ ProcTypeOK /\ req \in Requests
  BY DEF CallInv, TypeOK
<1>3. at \in 1 .. Len(Steps(req)) /\ result = "none"
  BY <1>2 DEF CallInv, ShapeOK, TypeOK, Doing
<1>4. /\ \A step : Behind(step) <=> Has(req, at, step)
      /\ \A step : Doing(step) <=> Steps(req)[at] = step
      /\ \A step : Before(step) <=> ~Behind(step) /\ ~Doing(step)
      /\ InOrder(req, at)
  BY <1>2, <1>3, AtStep
<1>5. \A step : Behind(step)' = Behind(step) /\ Doing(step)' = Doing(step) /\ Before(step)' = Before(step)
  BY DEF Behind, Doing, Before
<1>6. /\ Doing("first") <=> ~Doing("second")
      /\ ~Behind("first") \/ Doing("second")
      /\ Doing("second") => req.of # "mem" /\ Behind("sleep") /\ Behind("first") /\ ~Behind("second")
      /\ Doing("first") => ~Behind("sleep") /\ ~Behind("second") /\ ~Behind("first") /\ ~Doing("sleep")
      /\ ~Doing("filter") /\ ~Behind("filter") /\ ~Behind("rank")
  BY <1>4 DEF InOrder
<1>7. /\ rows' = IF Doing(Measures) THEN rows \cup {n} ELSE rows
      /\ IF Doing("second") THEN base' = base
         ELSE /\ DOMAIN base' = {p} \cup DOMAIN base
              /\ base'[p] = [born |-> g.born, used |-> value]
              /\ \A q \in DOMAIN base : q # p => base'[q] = base[q]
  BY <1>6, TakeRows
<1>8. Measures' = Measures /\ Measures \in {"first", "second"} /\ (Measures = "first" <=> req.of = "mem")
  BY DEF Measures
<1>9. /\ g \in Glimpse /\ value \in Nat /\ g.born \in 1 .. births /\ births \in Nat
      /\ p \in Pids /\ g.born \in Nat /\ g.own \in BOOLEAN
  BY <1>2 DEF TrueRead, Glimpse, ProcTypeOK
<1>10. p # 0 /\ Nothing.pid = 0
  BY <1>9, ProcTableAssumption DEF Nothing
<1>11. p \in lived => g.born = table[p].born /\ g.own = IsOwn(p)
  BY DEF TrueRead
<1>12. g.born = table[p].born => value = IF req.of = "io" /\ ~IsOwn(p) THEN 0 ELSE used[p]
  BY DEF TrueRead
<1>13. Lasts(p) => value = used[p] /\ g.born = table[p].born
  <2> SUFFICES ASSUME Lasts(p) PROVE value = used[p] /\ g.born = table[p].born
    OBVIOUS
  <2>1. g.born = table[p].born
    BY <1>11 DEF Lasts
  <2>2. req.of = "io" => IsOwn(p)
    BY DEF Lasts, Measurable, IsOwn
  <2> QED
    BY <1>12, <2>1, <2>2
<1>14. used[p] \in Nat
  BY <1>2, <1>9 DEF TypeOK
<1>15. Doing("second") => base[p].born \in Nat /\ base[p].used \in Nat
  BY <1>2 DEF TypeOK
<1>16. /\ n.pid = p /\ n.own = g.own /\ n.second = g.born
       /\ n.first = IF Doing("second") THEN base[p].born ELSE g.born
       /\ n.delta = IF Doing("second") THEN value - base[p].used ELSE value
  BY DEF NewRow
<1>17. n \in Row
  <2>1. n.first \in Nat /\ n.delta \in Int
    BY <1>9, <1>15, <1>16
  <2>2. n = [pid |-> n.pid, first |-> n.first, second |-> n.second, own |-> n.own, delta |-> n.delta]
    BY DEF NewRow
  <2> QED
    BY <1>9, <1>16, <2>1, <2>2 DEF Row
<1> HIDE DEF n
<1>18. TypeOK'
  <2>1. /\ DOMAIN base' \subseteq Pids
        /\ \A q \in DOMAIN base' : base'[q] \in [born : Nat, used : Nat]
    <3>1. [born |-> g.born, used |-> value] \in [born : Nat, used : Nat]
      BY <1>9
    <3>2. \A q \in DOMAIN base : q \in Pids /\ base[q] \in [born : Nat, used : Nat]
      BY <1>2 DEF TypeOK
    <3> QED
      BY <1>7, <1>9, <3>1, <3>2
  <2>2. rows' \subseteq Row
    BY <1>2, <1>7, <1>17 DEF TypeOK
  <2> QED
    BY <1>1, <1>2, <2>1, <2>2 DEF TypeOK, ProcTypeOK
<1>19. MarkType' /\ TableOK'
  BY <1>1, <1>2 DEF MarkType, TableOK, LivedAlive, ParentsAlive, BirthsBounded, Alive
<1>20. ShapeOK'
  <2>1. IsFiniteSet(rows')
    <3>1. IsFiniteSet(rows)
      BY DEF CallInv, ShapeOK
    <3> QED
      BY <1>7, <3>1, FS_AddElement
  <2>2. \A r, s \in rows' : r.pid = s.pid => r = s
    <3>1. \A r, s \in rows : r.pid = s.pid => r = s
      BY DEF CallInv, ShapeOK
    <3> QED
      BY <1>7, <1>16, <3>1
  <2>3. Doing(Measures) => \A r \in rows' : r.pid \notin todo' \cup {0}
    <3>1. Doing(Measures) => \A r \in rows : r.pid \notin todo
      BY DEF CallInv, ShapeOK
    <3>2. \A r \in rows' : r.pid # 0
      BY <1>18, ProcTableAssumption DEF TypeOK, Row
    <3> QED
      BY <1>7, <1>16, <3>1, <3>2
  <2>4. Before(Measures) => rows' = {}
    BY <1>4, <1>7 DEF CallInv, ShapeOK
  <2>5. Doing("second") => todo' \subseteq DOMAIN base'
    BY <1>7 DEF CallInv, ShapeOK
  <2> QED
    BY <1>5, <1>6, <1>8, <1>10, <2>1, <2>2, <2>3, <2>4, <2>5 DEF CallInv, ShapeOK
<1>21. BaseHonest'
  <2> SUFFICES ASSUME NEW q \in DOMAIN base'
               PROVE  /\ base'[q].born \in 1 .. births
                      /\ base'[q].born = table[q].born =>
                           /\ base'[q].used <= used[q]
                           /\ req.of = "io" /\ table[q].access # "full" => base'[q].used = 0
    BY <1>1 DEF BaseHonest
  <2>1. CASE q = p /\ ~Doing("second")
    <3>1. base'[q].born = g.born /\ base'[q].used = value
      BY <1>7, <2>1
    <3> QED
      BY <1>9, <1>12, <1>14, <2>1, <3>1 DEF IsOwn
  <2>2. CASE ~(q = p /\ ~Doing("second"))
    <3>1. q \in DOMAIN base /\ base'[q] = base[q]
      BY <1>7, <2>2
    <3> QED
      BY <3>1 DEF CallInv, BaseHonest
  <2> QED
    BY <2>1, <2>2
<1>22. RowsHonest'
  BY <1>1, <1>7, <1>9, <1>16 DEF CallInv, RowsHonest
<1>23. NegativeOnlyIfGone'
  <2> SUFFICES ASSUME NEW r \in rows', r.delta < 0, r.first = r.second
               PROVE  req.of = "io" /\ <<r.pid, r.second>> # <<r.pid, table[r.pid].born>>
    BY <1>1 DEF NegativeOnlyIfGone, Present
  <2>1. CASE r \in rows
    BY <2>1 DEF CallInv, NegativeOnlyIfGone, Present
  <2>2. CASE r = n
    <3>1. Doing("second") /\ value - base[p].used < 0
      BY <1>9, <1>16, <2>2
    <3>2. base[p].born = g.born
      BY <1>16, <2>2, <3>1
    <3>3. g.born # table[p].born
      <4> SUFFICES ASSUME g.born = table[p].born PROVE FALSE
        OBVIOUS
      <4>1. /\ base[p].used <= used[p]
            /\ req.of = "io" /\ table[p].access # "full" => base[p].used = 0
        BY <3>1, <3>2 DEF CallInv, BaseHonest
      <4>2. CASE req.of = "io" /\ ~IsOwn(p)
        BY <1>12, <1>15, <3>1, <4>1, <4>2 DEF IsOwn
      <4>3. CASE ~(req.of = "io" /\ ~IsOwn(p))
        BY <1>12, <1>14, <1>15, <3>1, <4>1, <4>3
      <4> QED
        BY <4>2, <4>3
    <3>4. req.of = "io"
      BY <3>3 DEF TrueRead
    <3> QED
      BY <1>16, <2>2, <3>3, <3>4
  <2> QED
    BY <1>7, <2>1, <2>2
<1>24. MarksKept'
  BY <1>1 DEF CallInv, MarksKept
<1>25. OpenKept'
  BY DEF OpenKept
<1>26. BaseKept'
  <2> SUFFICES ASSUME NEW q \in DOMAIN base', Lasts(q)
               PROVE  /\ base'[q].born = table[q].born
                      /\ mark.begin[q] <= base'[q].used /\ base'[q].used <= used[q]
                      /\ Doing("sleep") \/ Behind("sleep") => base'[q].used <= mark.sleep[q]
    BY <1>1, <1>5 DEF BaseKept, Lasts, Measurable
  <2>1. CASE q = p /\ ~Doing("second")
    <3>1. base'[q].born = g.born /\ base'[q].used = value
      BY <1>7, <2>1
    <3>2. value = used[p] /\ g.born = table[p].born
      BY <1>13, <2>1
    <3>3. mark.begin[p] <= used[p]
      BY <2>1 DEF CallInv, MarksKept, Lasts
    <3>4. ~Doing("sleep") /\ ~Behind("sleep")
      BY <1>6, <2>1
    <3> QED
      BY <1>14, <2>1, <3>1, <3>2, <3>3, <3>4
  <2>2. CASE ~(q = p /\ ~Doing("second"))
    <3>1. q \in DOMAIN base /\ base'[q] = base[q]
      BY <1>7, <2>2
    <3> QED
      BY <3>1 DEF CallInv, BaseKept
  <2> QED
    BY <2>1, <2>2
<1>27. RowsKept'
  <2> SUFFICES ASSUME NEW r \in rows', r.pid \in lived
               PROVE  /\ r.own = IsOwn(r.pid)
                      /\ Measurable(r.pid) =>
                           r.first = table[r.pid].born /\ r.second = table[r.pid].born
                      /\ Measurable(r.pid) /\ req.of # "mem" =>
                           /\ mark.wake[r.pid] - mark.sleep[r.pid] <= r.delta
                           /\ r.delta <= used[r.pid] - mark.begin[r.pid]
    BY <1>1 DEF RowsKept, Measurable, IsOwn
  <2>1. CASE r \in rows
    BY <2>1 DEF CallInv, RowsKept
  <2>2. CASE r = n /\ r \notin rows
    <3>1. Doing(Measures) /\ p \in lived
      BY <1>7, <1>16, <2>2
    <3>2. r.own = IsOwn(p)
      BY <1>11, <1>16, <2>2, <3>1
    <3>3. ASSUME Measurable(p), Doing("second")
          PROVE  base[p].born = table[p].born
                 /\ mark.begin[p] <= base[p].used /\ base[p].used <= mark.sleep[p]
                 /\ mark.wake[p] <= used[p]
      BY <1>6, <3>1, <3>3 DEF CallInv, BaseKept, MarksKept, Lasts
    <3>4. ASSUME Measurable(p)
          PROVE  r.first = table[p].born /\ r.second = table[p].born /\ value = used[p]
      BY <1>13, <1>16, <2>2, <3>1, <3>3, <3>4 DEF Lasts
    <3>5. ASSUME Measurable(p), req.of # "mem"
          PROVE  /\ mark.wake[p] - mark.sleep[p] <= r.delta
                 /\ r.delta <= used[p] - mark.begin[p]
      <4>1. Doing("second")
        BY <1>8, <3>1, <3>5
      <4>2. r.delta = used[p] - base[p].used
        BY <1>16, <2>2, <3>4, <3>5, <4>1
      <4>3. mark.wake[p] \in Nat /\ mark.sleep[p] \in Nat /\ mark.begin[p] \in Nat /\ base[p].used \in Nat
        BY <1>2, <1>9, <1>15, <4>1 DEF MarkType
      <4> QED
        BY <1>14, <3>3, <3>5, <4>1, <4>2, <4>3
    <3> QED
      BY <1>16, <2>2, <3>2, <3>4, <3>5
  <2> QED
    BY <1>7, <2>1, <2>2
<1>28. AllPresent'
  <2> SUFFICES ASSUME NEW q \in Pids, Asked(q) PROVE InPlace(q)'
    BY <1>1 DEF AllPresent, Asked, Lasts, Measurable
  <2>1. InPlace(q)
    BY DEF CallInv, AllPresent
  <2>2. Wanted(q)' = Wanted(q) /\ (Rowed(q) => Rowed(q)')
    BY <1>1, <1>7 DEF Wanted, Rowed
  <2>3. Doing(Measures) /\ q = p => Rowed(q)'
    BY <1>7, <1>16 DEF Rowed
  <2>4. q \in DOMAIN base => q \in DOMAIN base'
    BY <1>7
  <2>5. Doing("first") /\ q = p => q \in DOMAIN base'
    BY <1>6, <1>7
  <2> QED
    BY <1>5, <1>8, <2>1, <2>2, <2>3, <2>4, <2>5 DEF InPlace
<1>29. FilterOK' /\ RankOK'
  BY <1>5, <1>6 DEF FilterOK, RankOK
<1>30. NamesOK'
  BY <1>5, <1>6 DEF CallInv, NamesOK
<1> QED
  BY <1>18, <1>19, <1>20, <1>21, <1>22, <1>23, <1>24, <1>25, <1>26, <1>27, <1>28, <1>29, <1>30
  DEF CallInv

-----------------------------------------------------------------------------
(* The reads of a process: its stat, and its io. *)

\* A process that was looked at, and has to be read on or cannot be opened.
LEMMA LookedAt ==
  ASSUME CallInv, Doing("first") \/ Doing("second"), open = Nothing, NEW p \in todo,
         todo' = todo \ {p},
         UNCHANGED <<kernelVars, req, at, pids, base, rows, system, lines, names, result, mark>>,
         \/ open' = Nothing /\ ~Openable(p)
         \/ /\ open' = [pid |-> p, born |-> table[p].born, own |-> table[p].access = "full"]
            /\ Openable(p) /\ req.of = "io"
  PROVE  CallInv'
<1>1. UNCHANGED <<table, births, lived, settled, views, used, clock>>
  BY DEF kernelVars, procVars
<1>2. TypeOK /\ MarkType /\ TableOK /\ ProcTypeOK /\ req \in Requests /\ p \in Pids
  BY DEF CallInv, TypeOK
<1>3. \A step : Behind(step)' = Behind(step) /\ Doing(step)' = Doing(step) /\ Before(step)' = Before(step)
  BY DEF Behind, Doing, Before
<1>4. ~Doing("filter")
  BY DEF Doing
<1>5. table[p] \in Processes /\ table[p].born \in Nat /\ table[p].born <= births /\ births \in Nat
  BY <1>2 DEF ProcTypeOK, TableOK, BirthsBounded, Processes
<1>6. p # 0 /\ Nothing.pid = 0
  BY <1>2, ProcTableAssumption DEF Nothing
<1>7. open' # Nothing =>
        /\ open'.pid = p /\ open'.born = table[p].born /\ open'.own = (table[p].access = "full")
        /\ open' \in Glimpse /\ open'.born \in 1 .. births /\ req.of = "io"
  <2> SUFFICES ASSUME open' # Nothing
               PROVE  /\ open'.pid = p /\ open'.born = table[p].born
                      /\ open'.own = (table[p].access = "full")
                      /\ open' \in Glimpse /\ open'.born \in 1 .. births /\ req.of = "io"
    OBVIOUS
  <2>1. /\ open' = [pid |-> p, born |-> table[p].born, own |-> table[p].access = "full"]
        /\ table[p].born # 0 /\ req.of = "io"
    BY DEF Openable, Alive
  <2>2. table[p].born \in 1 .. births
    BY <1>5, <2>1
  <2>3. open'.pid = p /\ open'.born = table[p].born
    BY <2>1
  <2>4. open'.own = (table[p].access = "full")
    BY <2>1
  <2>5. open' \in Glimpse
    <3> DEFINE b == table[p].access = "full"
    <3>1. b \in BOOLEAN
      OBVIOUS
    <3> HIDE DEF b
    <3>2. [pid |-> p, born |-> table[p].born, own |-> b] \in Glimpse
      BY <1>2, <1>5, <3>1 DEF Glimpse
    <3> QED
      BY <2>1, <3>2 DEF b
  <2> QED
    BY <2>1, <2>2, <2>3, <2>4, <2>5
<1>8. TypeOK'
  BY <1>1, <1>2, <1>7 DEF TypeOK, ProcTypeOK
<1>9. MarkType' /\ TableOK'
  BY <1>1, <1>2 DEF MarkType, TableOK, LivedAlive, ParentsAlive, BirthsBounded, Alive
<1>10. Measures' = Measures
  BY DEF Measures
<1>11. open'.pid \in {0, p}
  BY <1>6, <1>7
<1>12. ShapeOK'
  BY <1>1, <1>2, <1>3, <1>4, <1>7, <1>10, <1>11 DEF CallInv, ShapeOK
<1>13. BaseHonest' /\ RowsHonest' /\ NegativeOnlyIfGone' /\ MarksKept'
  BY <1>1 DEF CallInv, BaseHonest, RowsHonest, NegativeOnlyIfGone, MarksKept, Present
<1>14. OpenKept'
  BY <1>1, <1>7 DEF OpenKept, IsOwn
<1>15. BaseKept' /\ RowsKept'
  BY <1>1, <1>3 DEF CallInv, BaseKept, RowsKept, Lasts, Measurable, IsOwn
<1>16. AllPresent'
  <2> SUFFICES ASSUME NEW q \in Pids, Asked(q) PROVE InPlace(q)'
    BY <1>1 DEF AllPresent, Asked, Lasts, Measurable
  <2>1. InPlace(q)
    BY DEF CallInv, AllPresent
  <2>2. Wanted(q)' = Wanted(q) /\ Rowed(q)' = Rowed(q)
    BY <1>1 DEF Wanted, Rowed
  <2>3. Openable(q)
    BY <1>2 DEF Asked, Lasts, Measurable, Openable, TableOK, LivedAlive
  <2>4. q \in todo => q \in todo' \/ open'.pid = q
    BY <2>3
  <2>5. open.pid # q
    BY <1>6, ProcTableAssumption
  <2> QED
    BY <1>3, <1>10, <2>1, <2>2, <2>4, <2>5 DEF InPlace
<1>17. FilterOK' /\ RankOK' /\ NamesOK'
  BY <1>1, <1>3, <1>4
  DEF CallInv, FilterOK, Wanted, RankOK, Rate, Total, NamesOK, Lasts, Measurable
<1> QED
  BY <1>8, <1>9, <1>12, <1>13, <1>14, <1>15, <1>16, <1>17 DEF CallInv

\* stat is read, or the process is gone and skipped, or the call fails.
LEMMA ReadStatStepInv == ASSUME CallInv, NEW p \in Pids, ReadStat(p) PROVE CallInv'
<1> DEFINE g == [pid |-> p, born |-> table[p].born, own |-> table[p].access = "full"]
<1>1. (Doing("first") \/ Doing("second")) /\ open = Nothing /\ p \in todo
  BY DEF ReadStat
<1>2. at # 0
  BY <1>1 DEF Doing
<1>3. CASE Openable(p) /\ req.of = "io"
  <2>1. /\ todo' = todo \ {p} /\ open' = g
        /\ UNCHANGED <<kernelVars, req, at, pids, base, rows, system, lines, names, result, mark>>
    BY <1>3 DEF ReadStat
  <2> QED
    BY <1>1, <1>3, <2>1, LookedAt
<1>4. CASE Openable(p) /\ req.of # "io"
  <2>1. /\ todo' = todo \ {p} /\ open' = open /\ Take(g, used[p])
        /\ UNCHANGED <<kernelVars, req, at, pids, system, lines, names, result, mark>>
    BY <1>4 DEF ReadStat
  <2>2. table[p].born \in Nat /\ table[p].born <= births /\ births \in Nat /\ used[p] \in Nat
    BY DEF CallInv, TypeOK, ProcTypeOK, TableOK, BirthsBounded, Processes
  <2>3. g.pid = p /\ g.born = table[p].born /\ g \in Glimpse /\ g.own = IsOwn(p)
    BY <2>2 DEF Glimpse, IsOwn
  <2> HIDE DEF g
  <2>4. g.born \in 1 .. births
    BY <1>4, <2>2, <2>3 DEF Openable, Alive
  <2>5. TrueRead(g, used[p])
    BY <1>4, <2>2, <2>3, <2>4 DEF TrueRead
  <2>6. /\ Doing("second") => g.pid \in DOMAIN base
        /\ Doing(Measures) => \A r \in rows : r.pid # g.pid
    BY <1>1, <2>3 DEF CallInv, ShapeOK
  <2>7. open' = Nothing /\ todo' \subseteq todo /\ g.pid \notin todo'
        /\ \A q \in Pids : q \in todo \/ open.pid = q => q \in todo' \/ q = g.pid
    BY <1>1, <2>1, <2>3, ProcTableAssumption DEF Nothing
  <2> QED
    BY <1>1, <2>1, <2>5, <2>6, <2>7, TakeStepInv
<1>5. CASE ~Openable(p) /\ req.pid # 0
  <2>1. Fail
    BY <1>5 DEF ReadStat
  <2> QED
    BY <1>1, <1>2, <2>1, FailStepInv
<1>6. CASE ~Openable(p) /\ req.pid = 0
  <2>1. /\ todo' = todo \ {p} /\ open' = open
        /\ UNCHANGED <<kernelVars, req, at, pids, base, rows, system, lines, names, result, mark>>
    BY <1>6 DEF ReadStat
  <2> QED
    BY <1>1, <1>6, <2>1, LookedAt
<1> QED
  BY <1>3, <1>4, <1>5, <1>6

\* io is read of whoever has the PID by now, which is the process if it stays.
LEMMA ReadIoStepInv == ASSUME CallInv, ReadIo PROVE CallInv'
<1> DEFINE p == open.pid
           value == IF Alive(p) /\ table[p].access = "full" THEN used[p] ELSE 0
<1>1. /\ open # Nothing /\ open' = Nothing /\ Take(open, value)
      /\ UNCHANGED <<kernelVars, req, at, pids, todo, system, lines, names, result, mark>>
  BY DEF ReadIo
<1>2. /\ req.of = "io" /\ p \in Pids \ todo /\ open.born \in 1 .. births
      /\ Doing("first") \/ Doing("second")
      /\ Doing("second") => p \in DOMAIN base
      /\ Doing(Measures) => \A r \in rows : r.pid # p
  BY <1>1 DEF CallInv, ShapeOK
<1>3. open \in Glimpse /\ used[p] \in Nat /\ births \in Nat
  BY <1>1, <1>2 DEF CallInv, TypeOK, ProcTypeOK
<1>4. value \in Nat /\ (open.born = table[p].born => value = IF IsOwn(p) THEN used[p] ELSE 0)
  BY <1>2, <1>3 DEF Alive, IsOwn
<1> HIDE DEF value
<1>5. TrueRead(open, value)
  BY <1>1, <1>2, <1>3, <1>4 DEF TrueRead, CallInv, OpenKept
<1>6. /\ todo' \subseteq todo /\ open.pid \notin todo'
      /\ \A q \in Pids : q \in todo \/ open.pid = q => q \in todo' \/ q = open.pid
  BY <1>1, <1>2
<1> QED
  BY <1>1, <1>2, <1>5, <1>6, TakeStepInv

-----------------------------------------------------------------------------
(* Top: the filter, the ranking and the names. *)

\* A row that is filtered out is that of the PID that was looked at, and of
\* a process that does not stay, or that the filter does not want.
LEMMA FilterRowStepInv == ASSUME CallInv, NEW p \in Pids, FilterRow(p) PROVE CallInv'
<1>1. /\ Doing("filter") /\ p \in todo /\ todo' = todo \ {p}
      /\ UNCHANGED <<kernelVars, req, at, pids, open, base, system, lines, names, result, mark>>
  BY DEF FilterRow
<1>2. UNCHANGED <<table, births, lived, settled, views, used, clock>>
  BY <1>1 DEF kernelVars, procVars
<1>3. TypeOK /\ MarkType /\ TableOK /\ ProcTypeOK /\ req \in Requests
  BY DEF CallInv, TypeOK
<1>4. at \in 1 .. Len(Steps(req)) /\ result = "none"
  BY <1>1, <1>3 DEF CallInv, ShapeOK, TypeOK, Doing
<1>5. \A step : Behind(step)' = Behind(step) /\ Doing(step)' = Doing(step) /\ Before(step)' = Before(step)
  BY <1>1 DEF Behind, Doing, Before
<1>6. Measures' = Measures /\ Measures \in {"first", "second"}
  BY <1>1 DEF Measures
<1>7. /\ InOrder(req, at) /\ Steps(req)[at] = "filter"
      /\ \A step : Behind(step) <=> Has(req, at, step)
      /\ \A step : Doing(step) <=> step = "filter"
  BY <1>1, <1>3, <1>4, AtStep
<1>8. req.top /\ Behind(Measures) /\ ~Before(Measures) /\ ~Doing(Measures) /\ ~Behind("filter") /\ ~Behind("rank")
  BY <1>6, <1>7 DEF InOrder, Before, Measures
<1> DEFINE row == RowOf(p)
           own == IF req.of = "mem" THEN row.own ELSE table[p].access = "full"
<1>9. row \in rows /\ row.pid = p
  <2>1. \E r \in rows : r.pid = p
    BY <1>1 DEF CallInv, ShapeOK
  <2> QED
    BY <2>1 DEF RowOf
<1>10. \A r \in rows : r.pid = p => r = row
  BY <1>9 DEF CallInv, ShapeOK
<1>11. rows' = IF ~req.own \/ own THEN rows ELSE rows \ {row}
  BY <1>1 DEF FilterRow
<1>12. p \in lived => (own <=> IsOwn(p))
  BY <1>9 DEF CallInv, RowsKept, IsOwn
<1> HIDE DEF row, own
<1>13. /\ rows' \subseteq rows
       /\ \A r \in rows : r.pid # p => r \in rows'
       /\ p \in lived /\ Wanted(p) => rows' = rows
       /\ p \in lived /\ ~Wanted(p) => \A r \in rows' : r.pid # p
  BY <1>9, <1>10, <1>11, <1>12 DEF Wanted, IsOwn
<1>14. TypeOK'
  BY <1>1, <1>2, <1>3, <1>13 DEF TypeOK, ProcTypeOK
<1>15. MarkType' /\ TableOK'
  BY <1>1, <1>2, <1>3 DEF MarkType, TableOK, LivedAlive, ParentsAlive, BirthsBounded, Alive
<1>16. ShapeOK'
  <2>1. IsFiniteSet(rows')
    BY <1>13, FS_Subset DEF CallInv, ShapeOK
  <2>2. \A q \in todo' : \E r \in rows' : r.pid = q
    BY <1>1, <1>13 DEF CallInv, ShapeOK
  <2> QED
    BY <1>1, <1>2, <1>5, <1>6, <1>7, <1>8, <1>13, <2>1, <2>2 DEF CallInv, ShapeOK
<1>17. BaseHonest' /\ RowsHonest' /\ NegativeOnlyIfGone' /\ MarksKept' /\ OpenKept'
  BY <1>1, <1>2, <1>13
  DEF CallInv, BaseHonest, RowsHonest, NegativeOnlyIfGone, MarksKept, Present, OpenKept, IsOwn
<1>18. BaseKept' /\ RowsKept'
  BY <1>1, <1>2, <1>5, <1>13 DEF CallInv, BaseKept, RowsKept, Lasts, Measurable, IsOwn
<1>19. AllPresent'
  <2> SUFFICES ASSUME NEW q \in Pids, Asked(q) PROVE InPlace(q)'
    BY <1>1, <1>2 DEF AllPresent, Asked, Lasts, Measurable
  <2>1. InPlace(q) /\ q \in lived
    BY DEF CallInv, AllPresent, Asked, Lasts
  <2>2. Wanted(q)' = Wanted(q)
    BY <1>1, <1>2 DEF Wanted
  <2>3. Wanted(q) /\ Rowed(q) => Rowed(q)'
    BY <1>13, <2>1 DEF Rowed
  <2> QED
    BY <1>1, <1>5, <1>6, <1>7, <1>8, <2>1, <2>2, <2>3 DEF InPlace
<1>20. FilterOK'
  <2> SUFFICES ASSUME NEW r \in rows', r.pid \in lived PROVE r.pid \in todo' \/ Wanted(r.pid)
    BY <1>1, <1>2, <1>5, <1>8 DEF FilterOK, Wanted
  <2>1. r.pid \in todo \/ Wanted(r.pid)
    BY <1>1, <1>13 DEF CallInv, FilterOK
  <2> QED
    BY <1>1, <1>13, <2>1
<1>21. RankOK' /\ NamesOK'
  BY <1>1, <1>2, <1>5, <1>8 DEF CallInv, RankOK, NamesOK
<1> QED
  BY <1>14, <1>15, <1>16, <1>17, <1>18, <1>19, <1>20, <1>21 DEF CallInv

\* Behind the window, the ticks of the system have been read.
LEMMA SystemRead ==
  ASSUME CallInv, Doing("rank") \/ Doing("name"), Goto(pids), system' = system
  PROVE  /\ system' \in Seq(Nat) /\ Len(system') <= 2
         /\ at' # 0 =>
              Len(system') = IF req.of # "cpu" \/ at' <= 2 THEN 0 ELSE IF at' <= 5 THEN 1 ELSE 2
<1>1. TypeOK /\ ShapeOK /\ req \in Requests /\ at # 0
  BY DEF CallInv, TypeOK, Doing
<1>2. at \in 1 .. Len(Steps(req)) /\ result = "none" /\ at \in Nat
  BY <1>1 DEF ShapeOK, TypeOK
<1>3. req.of = "cpu" => at \notin {2, 5}
  BY <1>1, <1>2, AtStep DEF InOrder
<1>4. Len(system) = IF req.of # "cpu" \/ at <= 2 THEN 0 ELSE IF at <= 5 THEN 1 ELSE 2
  BY <1>1 DEF ShapeOK
<1>5. at' # 0 => at' = at + 1
  BY <1>1, GoesOn
<1> QED
  BY <1>1, <1>2, <1>3, <1>4, <1>5 DEF TypeOK

UpperPart(s, count) == SubSeq(s, 1, Min({count, Len(s)}))

\* A sorting of the rows has every row, and the upper end of it is as long
\* as is asked for, or has them all.
LEMMA UpperEnd ==
  ASSUME NEW S, IsFiniteSet(S), S \subseteq Row, NEW s \in SetToSeqs(S), NEW count \in Nat,
         NEW top, top = UpperPart(s, count)
  PROVE  /\ DOMAIN s = 1 .. Len(s) /\ Len(s) \in Nat
         /\ \A r \in S : \E k \in DOMAIN s : s[k] = r
         /\ top \in Seq(Row) /\ DOMAIN top = 1 .. Len(top) /\ Len(top) \in Nat
         /\ \A i \in DOMAIN top : i \in DOMAIN s /\ top[i] = s[i] /\ top[i] \in S
         /\ Len(top) = count \/ Len(top) = Len(s)
<1> DEFINE N == Cardinality(S)
           D == 1 .. N
           n == Min({count, Len(s)})
<1>1. N \in Nat
  BY FS_CardinalityType
<1>2. s \in [D -> S] /\ \A i, j \in D : i # j => s[i] # s[j]
  BY DEF SetToSeqs
<1>3. IsFiniteSet(D) /\ Cardinality(D) = N
  BY <1>1, FS_Interval
<1>4. s \in Injection(D, S)
  BY <1>2 DEF Injection, IsInjective
<1>5. s \in Surjection(D, S)
  BY <1>3, <1>4, FS_Injection
<1>6. s \in Seq(S) /\ Len(s) = N /\ DOMAIN s = 1 .. N
  BY <1>1, <1>2
<1>7. n \in {count, N} /\ n <= count /\ n <= N
  <2>1. \E x \in {count, N} : \A y \in {count, N} : x <= y
    BY <1>1
  <2> QED
    BY <1>6, <2>1 DEF Min
<1>8. top = SubSeq(s, 1, n)
  BY DEF UpperPart
<1> HIDE DEF n, N
<1>9. n \in Nat
  BY <1>1, <1>7
<1>10. \A i \in 1 .. n : s[i] \in Row /\ s[i] \in S /\ i \in DOMAIN s
  BY <1>1, <1>2, <1>6, <1>7, <1>9
<1>11. /\ top \in Seq(Row) /\ Len(top) = IF 1 <= n THEN n - 1 + 1 ELSE 0
       /\ \A i \in 1 .. n - 1 + 1 : top[i] = s[1 + i - 1]
  <2>1. /\ SubSeq(s, 1, n) \in Seq(Row)
        /\ Len(SubSeq(s, 1, n)) = IF 1 <= n THEN n - 1 + 1 ELSE 0
        /\ \A i \in 1 .. n - 1 + 1 : SubSeq(s, 1, n)[i] = s[1 + i - 1]
    BY <1>9, <1>10, SubSeqProperties
  <2> QED
    BY <1>8, <2>1, Zenon
<1>12. n - 1 + 1 = n /\ \A i \in 1 .. n : 1 + i - 1 = i
  BY <1>9
<1>13. Len(top) = n
  <2>1. CASE n = 0
    BY <1>11, <2>1
  <2>2. CASE n # 0
    <3>1. 1 <= n
      BY <1>9, <2>2
    <3> QED
      BY <1>11, <1>12, <3>1
  <2> QED
    BY <2>1, <2>2
<1>14. top \in Seq(Row) /\ DOMAIN top = 1 .. n
  BY <1>11, <1>13, LenProperties
<1>15. \A i \in 1 .. n : top[i] = s[i]
  BY <1>11, <1>12
<1>16. \A r \in S : \E k \in DOMAIN s : s[k] = r
  BY <1>5, <1>6 DEF Surjection
<1>17. \A i \in DOMAIN top : i \in DOMAIN s /\ top[i] = s[i] /\ top[i] \in S
  BY <1>10, <1>14, <1>15
<1> QED
  BY <1>1, <1>6, <1>7, <1>9, <1>13, <1>14, <1>16, <1>17

\* What is ranked is sorted, and none that stays is lost.
LEMMA RankStepInv == ASSUME CallInv, Rank PROVE CallInv'
<1>1. /\ Doing("rank") /\ Goto(pids) /\ UNCHANGED <<pids, base, system, rows, names>>
  BY DEF Rank
<1>2. at # 0 /\ (\A s : Doing(s) <=> s = "rank") /\ open = Nothing
  BY <1>1, OneStep
<1>3. TypeOK /\ ShapeOK /\ req \in Requests /\ IsFiniteSet(rows) /\ rows \subseteq Row /\ names = << >>
  BY <1>1 DEF CallInv, TypeOK, ShapeOK
<1>4. at \in 1 .. Len(Steps(req)) /\ result = "none"
  BY <1>2, <1>3 DEF ShapeOK, TypeOK
<1>5. InOrder(req, at) /\ Steps(req)[at] = "rank" /\ \A step : Behind(step) <=> Has(req, at, step)
  BY <1>1, <1>3, <1>4, AtStep
<1>6. ~Behind("name") /\ ~Behind("rank")
  BY <1>5 DEF InOrder
<1>7. /\ UNCHANGED req /\ \A step : Behind(step)' <=> Behind(step) \/ Doing(step)
  BY <1>1, <1>2, GoesOn
<1>8. req.count \in Nat
  BY <1>3, SamplingAssumption DEF AllRequests
<1>9. PICK s \in SetToSeqs(rows) :
        /\ \A i, j \in DOMAIN s : i < j => Rate(s[i]) >= Rate(s[j])
        /\ lines' = SubSeq(s, 1, Min({req.count, Len(s)}))
  BY DEF Rank
<1>10. /\ DOMAIN s = 1 .. Len(s) /\ Len(s) \in Nat
       /\ \A r \in rows : \E k \in DOMAIN s : s[k] = r
       /\ lines' \in Seq(Row) /\ DOMAIN lines' = 1 .. Len(lines') /\ Len(lines') \in Nat
       /\ \A i \in DOMAIN lines' : i \in DOMAIN s /\ lines'[i] = s[i] /\ lines'[i] \in rows
       /\ Len(lines') = req.count \/ Len(lines') = Len(s)
  <2>1. lines' = UpperPart(s, req.count)
    BY <1>9 DEF UpperPart
  <2>2. rows \subseteq Row /\ IsFiniteSet(rows) /\ s \in SetToSeqs(rows) /\ req.count \in Nat
    BY <1>3, <1>8, <1>9
  <2> QED
    BY <2>1, <2>2, UpperEnd
<1>11. Len(s) \in Nat /\ Len(lines') \in Nat /\ (Len(lines') = req.count \/ Len(lines') = Len(s))
  BY <1>10
<1>12. \A k : k \in DOMAIN s <=> k \in 1 .. Len(s)
  BY <1>10
<1>13. \A k : k \in DOMAIN lines' <=> k \in 1 .. Len(lines')
  BY <1>10
<1>14. \A r : Rate(r)' = Rate(r)
  BY <1>1, <1>7 DEF Rate, Total
<1>15. ASSUME NEW r \in rows
       PROVE  \/ \E i \in DOMAIN lines' : lines'[i] = r
              \/ Len(lines') = req.count /\ \A i \in DOMAIN lines' : Rate(lines'[i]) >= Rate(r)
  <2>1. PICK k \in DOMAIN s : s[k] = r
    BY <1>10
  <2>2. CASE k \in DOMAIN lines'
    BY <1>10, <2>1, <2>2
  <2>3. CASE k \notin DOMAIN lines'
    <3>1. Len(lines') = req.count /\ k \in Nat /\ k > Len(lines')
      <4>1. k \in 1 .. Len(s) /\ k \notin 1 .. Len(lines')
        BY <1>12, <1>13, <2>1, <2>3
      <4> QED
        BY <1>11, <4>1
    <3>2. \A i \in DOMAIN lines' : i < k
      BY <1>11, <1>13, <3>1
    <3>3. \A i \in DOMAIN lines' : i < k /\ lines'[i] = s[i] /\ i \in DOMAIN s
      BY <1>10, <3>2
    <3>4. \A i \in DOMAIN lines' : Rate(lines'[i]) >= Rate(s[k])
      BY <1>9, <3>3
    <3> QED
      BY <2>1, <3>1, <3>4
  <2> QED
    BY <2>2, <2>3
<1>16. RankOK'
  BY <1>1, <1>7, <1>10, <1>14, <1>15 DEF RankOK
<1>17. DOMAIN names' = {} /\ Len(names') = 0
  BY <1>1, <1>3
<1>18. NamesOK'
  BY <1>2, <1>6, <1>7, <1>17 DEF NamesOK
<1>19. names' \in Seq(Nat) /\ Len(names') <= Len(lines') /\ pids \subseteq Pids
  <2>1. names' \in Seq(Nat) /\ pids \subseteq Pids
    BY <1>1, <1>3 DEF TypeOK
  <2>2. Len(names') <= Len(lines')
    BY <1>11, <1>17
  <2> QED
    BY <2>1, <2>2
<1>20. /\ system' \in Seq(Nat) /\ Len(system') <= 2
       /\ at' # 0 => Len(system') = IF req.of # "cpu" \/ at' <= 2 THEN 0 ELSE IF at' <= 5 THEN 1 ELSE 2
  BY <1>1, SystemRead
<1>21. Goto(pids') /\ ~Doing("list")
  BY <1>1, <1>2
<1> QED
  BY <1>1, <1>2, <1>3, <1>10, <1>16, <1>18, <1>19, <1>20, <1>21, GoneOn

\* A name that is read is that of the process that has the PID now; what
\* memory was measured of has it from the snapshot.
LEMMA NameLineStepInv == ASSUME CallInv, NameLine PROVE CallInv'
<1> DEFINE r == lines[Len(names) + 1]
           name == IF req.of = "mem" THEN r.second
                   ELSE IF Openable(r.pid) THEN table[r.pid].born ELSE 0
<1>1. /\ Doing("name") /\ Len(names) < Len(lines) /\ names' = Append(names, name)
      /\ UNCHANGED <<kernelVars, req, at, pids, todo, open, base, system, rows, lines, result, mark>>
  BY DEF NameLine
<1>2. UNCHANGED <<table, births, lived, settled, views, used, clock>>
  BY <1>1 DEF kernelVars, procVars
<1>3. TypeOK /\ MarkType /\ TableOK /\ ProcTypeOK /\ req \in Requests
  BY DEF CallInv, TypeOK
<1>4. at \in 1 .. Len(Steps(req)) /\ result = "none"
  BY <1>1, <1>3 DEF CallInv, ShapeOK, TypeOK, Doing
<1>5. \A step : Behind(step)' = Behind(step) /\ Doing(step)' = Doing(step) /\ Before(step)' = Before(step)
  BY <1>1 DEF Behind, Doing, Before
<1>6. /\ InOrder(req, at) /\ Steps(req)[at] = "name"
      /\ \A step : Behind(step) <=> Has(req, at, step)
      /\ \A step : Doing(step) <=> step = "name"
  BY <1>1, <1>3, <1>4, AtStep
<1>7. Behind("rank") /\ ~Behind("name") /\ ~Before("rank") /\ ~Doing("rank")
  BY <1>6 DEF InOrder, Before
<1>8. /\ Len(names) \in Nat /\ Len(lines) \in Nat /\ DOMAIN lines = 1 .. Len(lines)
      /\ names \in Seq(Nat) /\ lines \in Seq(Row)
  BY <1>3, LenProperties DEF TypeOK
<1>9. r \in rows /\ r \in Row /\ Len(names) + 1 \in DOMAIN lines
  BY <1>1, <1>3, <1>7, <1>8 DEF CallInv, RankOK, TypeOK
<1>10. name \in Nat
  <2>1. r.second \in Nat /\ r.pid \in Pids
    BY <1>9 DEF Row
  <2>2. table[r.pid].born \in Nat
    BY <1>3, <2>1 DEF ProcTypeOK, Processes
  <2> QED
    BY <2>1, <2>2
<1>11. Lasts(r.pid) => name = table[r.pid].born
  <2> SUFFICES ASSUME Lasts(r.pid) PROVE name = table[r.pid].born
    OBVIOUS
  <2>1. r.second = table[r.pid].born
    BY <1>9 DEF CallInv, RowsKept, Lasts
  <2>2. Openable(r.pid)
    BY <1>3 DEF Lasts, Measurable, Openable, TableOK, LivedAlive
  <2> QED
    BY <2>1, <2>2
<1> HIDE DEF r, name
<1>12. /\ names' \in Seq(Nat) /\ Len(names') = Len(names) + 1
       /\ \A i \in 1 .. Len(names) : names'[i] = names[i]
       /\ names'[Len(names) + 1] = name
  BY <1>1, <1>8, <1>10, AppendProperties
<1>13. Len(names') <= Len(lines)
  BY <1>1, <1>8, <1>12
<1>14. TypeOK'
  BY <1>1, <1>2, <1>3, <1>12, <1>13 DEF TypeOK, ProcTypeOK
<1>15. MarkType' /\ TableOK'
  BY <1>1, <1>2, <1>3 DEF MarkType, TableOK, LivedAlive, ParentsAlive, BirthsBounded, Alive
<1>16. Measures' = Measures
  BY <1>1 DEF Measures
<1>17. ShapeOK'
  BY <1>1, <1>2, <1>5, <1>7, <1>16 DEF CallInv, ShapeOK
<1>18. BaseHonest' /\ RowsHonest' /\ NegativeOnlyIfGone' /\ MarksKept' /\ OpenKept'
  BY <1>1, <1>2
  DEF CallInv, BaseHonest, RowsHonest, NegativeOnlyIfGone, MarksKept, Present, OpenKept, IsOwn
<1>19. BaseKept' /\ RowsKept'
  BY <1>1, <1>2, <1>5 DEF CallInv, BaseKept, RowsKept, Lasts, Measurable, IsOwn
<1>20. AllPresent'
  BY <1>1, <1>2, <1>5, <1>16
  DEF CallInv, AllPresent, Asked, Lasts, Measurable, InPlace, Wanted, Rowed
<1>21. FilterOK' /\ RankOK'
  BY <1>1, <1>2, <1>5 DEF CallInv, FilterOK, Wanted, RankOK, Rate, Total
<1>22. NamesOK'
  <2>1. \A p : Lasts(p)' = Lasts(p)
    BY <1>1, <1>2 DEF Lasts, Measurable
  <2>2. \A i \in DOMAIN names : Lasts(lines[i].pid) => names[i] = table[lines[i].pid].born
    BY <1>7 DEF CallInv, NamesOK
  <2>3. DOMAIN names = 1 .. Len(names) /\ DOMAIN names' = 1 .. Len(names) + 1
    BY <1>8, <1>12
  <2>4. ASSUME NEW i \in DOMAIN names', Lasts(lines[i].pid)
        PROVE  names'[i] = table[lines[i].pid].born
    <3>1. CASE i = Len(names) + 1
      BY <1>11, <1>12, <2>4, <3>1 DEF r
    <3>2. CASE i # Len(names) + 1
      <4>1. i \in DOMAIN names
        BY <1>8, <2>3, <3>2
      <4> QED
        BY <1>12, <2>2, <2>3, <2>4, <4>1
    <3> QED
      BY <3>1, <3>2
  <2> QED
    BY <1>1, <1>2, <1>5, <1>7, <2>1, <2>4 DEF NamesOK
<1> QED
  BY <1>14, <1>15, <1>17, <1>18, <1>19, <1>20, <1>21, <1>22 DEF CallInv

\* Every line has its name when the last was printed.
LEMMA EndNamesStepInv == ASSUME CallInv, EndNames PROVE CallInv'
<1>1. /\ Doing("name") /\ Len(names) = Len(lines) /\ Goto(pids)
      /\ UNCHANGED <<pids, base, system, rows, lines, names>>
  BY DEF EndNames
<1>2. at # 0 /\ (\A s : Doing(s) <=> s = "name") /\ open = Nothing
  BY <1>1, OneStep
<1>3. TypeOK /\ ShapeOK /\ req \in Requests
  BY DEF CallInv, TypeOK
<1>4. at \in 1 .. Len(Steps(req)) /\ result = "none"
  BY <1>2, <1>3 DEF ShapeOK, TypeOK
<1>5. InOrder(req, at) /\ Steps(req)[at] = "name" /\ \A step : Behind(step) <=> Has(req, at, step)
  BY <1>1, <1>3, <1>4, AtStep
<1>6. Behind("rank")
  BY <1>5 DEF InOrder
<1>7. /\ UNCHANGED <<req, table, lived>> /\ \A step : Behind(step)' <=> Behind(step) \/ Doing(step)
      /\ at' # 0 => result' = "none"
  BY <1>1, <1>2, GoesOn
<1>8. RankOK' /\ NamesOK'
  BY <1>1, <1>2, <1>6, <1>7 DEF CallInv, RankOK, NamesOK, Rate, Total, Lasts, Measurable
<1>9. Behind("rank")'
  BY <1>6, <1>7
<1>10. ~(Before("rank")' \/ Doing("rank")')
  <2>1. ~Before("rank")'
    BY <1>9 DEF Before
  <2>2. ~Doing("rank")'
    <3> SUFFICES ASSUME Doing("rank")' PROVE FALSE
      OBVIOUS
    <3>1. at' # 0 /\ Steps(req)[at'] = "rank"
      BY <1>7 DEF Doing
    <3>2. req' \in Requests /\ at' \in DOMAIN Steps(req') /\ result' = "none"
      BY <1>1, <1>2, <1>3, <1>7, <3>1, GoesOn, StepOrder
    <3>3. ~Has(req', at', "rank")
      BY <1>7, <3>1, <3>2, StepOrder DEF InOrder
    <3> QED
      BY <1>9, <3>2, <3>3 DEF Behind, Has
  <2> QED
    BY <2>1, <2>2
<1>11. /\ system' \in Seq(Nat) /\ Len(system') <= 2
       /\ at' # 0 => Len(system') = IF req.of # "cpu" \/ at' <= 2 THEN 0 ELSE IF at' <= 5 THEN 1 ELSE 2
  BY <1>1, SystemRead
<1>12. Goto(pids') /\ ~Doing("list") /\ pids \subseteq Pids
  BY <1>1, <1>2, <1>3 DEF TypeOK
<1>13. lines' \in Seq(Row) /\ names' \in Seq(Nat) /\ Len(names') <= Len(lines')
  BY <1>1, <1>3 DEF TypeOK
<1> QED
  BY <1>1, <1>2, <1>8, <1>10, <1>11, <1>12, <1>13, GoneOn

-----------------------------------------------------------------------------
(* The theorems. *)

\* What a call is about is kept by every step of the call and of the kernel.
LEMMA CallStepInv == ASSUME CallInv, [Next]_vars PROVE CallInv'
<1>1. CASE Kernels
  BY <1>1, KernelStepInv
<1>2. ASSUME NEW r \in Requests, Begin(r) PROVE CallInv'
  BY <1>2, BeginStepInv
<1>3. CASE List \/ ReadSystem \/ Wake \/ EndReads
  BY <1>3, PlainStepsInv
<1>4. ASSUME NEW p \in Pids, ReadStat(p) PROVE CallInv'
  BY <1>4, ReadStatStepInv
<1>5. ASSUME NEW p \in Pids, FilterRow(p) PROVE CallInv'
  BY <1>5, FilterRowStepInv
<1>6. CASE ReadIo
  BY <1>6, ReadIoStepInv
<1>7. CASE Rank
  BY <1>7, RankStepInv
<1>8. CASE NameLine
  BY <1>8, NameLineStepInv
<1>9. CASE EndNames
  BY <1>9, EndNamesStepInv
<1>10. CASE UNCHANGED vars
  <2>1. UNCHANGED <<table, births, lived, settled, views, used, clock, req, at, pids, todo, open, base,
                    system, rows, lines, names, result, mark>>
    BY <1>10 DEF vars, kernelVars, procVars, callVars
  <2>2. TypeOK' /\ MarkType' /\ TableOK'
    BY <2>1 DEF CallInv, TypeOK, ProcTypeOK, MarkType, TableOK, LivedAlive, ParentsAlive,
                BirthsBounded, Alive
  <2>3. \A step : Behind(step)' = Behind(step) /\ Doing(step)' = Doing(step) /\ Before(step)' = Before(step)
    BY <2>1 DEF Behind, Doing, Before
  <2>4. Measures' = Measures
    BY <2>1 DEF Measures
  <2>5. ShapeOK'
    BY <2>1, <2>3, <2>4 DEF CallInv, ShapeOK
  <2>6. BaseHonest' /\ RowsHonest' /\ NegativeOnlyIfGone' /\ MarksKept' /\ OpenKept'
    BY <2>1
    DEF CallInv, BaseHonest, RowsHonest, NegativeOnlyIfGone, MarksKept, Present, OpenKept, IsOwn
  <2>7. BaseKept' /\ RowsKept'
    BY <2>1, <2>3 DEF CallInv, BaseKept, RowsKept, Lasts, Measurable, IsOwn
  <2>8. AllPresent'
    BY <2>1, <2>3, <2>4
    DEF CallInv, AllPresent, Asked, Lasts, Measurable, InPlace, Wanted, Rowed
  <2>9. FilterOK' /\ RankOK' /\ NamesOK'
    BY <2>1, <2>3
    DEF CallInv, FilterOK, Wanted, RankOK, Rate, Total, NamesOK, Lasts, Measurable
  <2> QED
    BY <2>2, <2>5, <2>6, <2>7, <2>8, <2>9 DEF CallInv
<1> QED
  BY <1>1, <1>2, <1>3, <1>4, <1>5, <1>6, <1>7, <1>8, <1>9, <1>10 DEF Next, Call

\* Behind a call that succeeded are all of its steps.
LEMMA CallOver ==
  ASSUME CallInv, result = "ok"
  PROVE  /\ Behind("first") /\ Behind(Measures)
         /\ req.top => req.pid = 0 /\ Behind("filter") /\ Behind("rank") /\ Behind("name")
<1>1. req \in Requests
  BY DEF CallInv, TypeOK
<1>2. \A i \in DOMAIN Steps(req) : Behind(Steps(req)[i])
  BY DEF Behind
<1>3. Measures \in {"first", "second"} /\ (Measures = "second" => req.of # "mem")
  BY DEF Measures
<1>4. Behind("first") /\ (req.of # "mem" => Behind("second"))
  BY <1>1, <1>2, StepOrder
<1>5. req.top => Behind("filter") /\ Behind("rank") /\ Behind("name")
  BY <1>1, <1>2, StepOrder
<1> QED
  BY <1>1, <1>3, <1>4, <1>5, SamplingAssumption

\* In every call, whatever the kernel does meanwhile: the steps come in
\* their order, what was read of a process that stays is its own, and none
\* that stays is lost on the way (performance.cpp:116-240, main.cpp:516-654).
THEOREM CallInvariance == Spec => []CallInv
<1>1. Init => CallInv
  BY InitCall
<1>2. CallInv /\ [Next]_vars => CallInv'
  BY CallStepInv
<1> QED
  BY <1>1, <1>2, PTL DEF Spec

\* Every variable has its type, and a rate below zero is that of a PID which
\* was given to another process, or of a process that was gone before its io
\* file was read (performance.cpp:144-149, 176-184, 198-200, 227-229).
THEOREM SamplingInvariant == Spec => []SamplingInv
<1>1. CallInv => SamplingInv
  BY DEF CallInv, SamplingInv
<1> QED
  BY <1>1, CallInvariance, PTL

\* A process that lives through a call is measured, at least over the sleep
\* and at most over the call (performance.cpp:125-237).
THEOREM SurvivorsMeasuredAlways == Spec => []SurvivorsMeasured
<1>1. CallInv => SurvivorsMeasured
  <2> SUFFICES ASSUME CallInv, result = "ok", req.of # "mem", ~req.top,
                      NEW p \in lived, Measurable(p), req.pid \in {0, p}
               PROVE  \E r \in rows :
                        /\ r.pid = p /\ r.first = table[p].born /\ r.second = table[p].born
                        /\ mark.wake[p] - mark.sleep[p] <= r.delta
                        /\ r.delta <= used[p] - mark.begin[p]
    BY DEF SurvivorsMeasured
  <2>1. p \in Pids /\ Asked(p)
    BY DEF CallInv, TypeOK, ProcTypeOK, Asked, Lasts
  <2>2. Rowed(p)
    BY <2>1, CallOver DEF CallInv, AllPresent, InPlace
  <2>3. PICK r \in rows : r.pid = p
    BY <2>2 DEF Rowed
  <2> QED
    BY <2>3 DEF CallInv, RowsKept
<1> QED
  BY <1>1, CallInvariance, PTL

\* The busiest of those who stay are on top, each under its own name, and
\* none of them fails the filter (main.cpp:516-654).
THEOREM TopTellsTrue == Spec => []TopOfSurvivors
<1>1. CallInv => TopOfSurvivors
  <2> SUFFICES ASSUME CallInv, result = "ok", req.top PROVE TopOfSurvivors
    BY DEF TopOfSurvivors
  <2>1. /\ Behind(Measures) /\ req.pid = 0 /\ Behind("filter") /\ Behind("rank") /\ Behind("name")
    BY CallOver
  <2>2. lines \in Seq(Row) /\ names \in Seq(Nat) /\ Len(names) = Len(lines)
    BY <2>1 DEF CallInv, TypeOK, NamesOK
  <2>3. DOMAIN names = DOMAIN lines
    <3>1. DOMAIN names = 1 .. Len(names) /\ DOMAIN lines = 1 .. Len(lines)
      BY <2>2, LenProperties
    <3> QED
      BY <2>2, <3>1
  <2>4. ASSUME NEW p \in lived, Measurable(p), Wanted(p)
        PROVE  \E r \in rows :
                 /\ r.pid = p /\ r.first = table[p].born /\ r.second = table[p].born
                 /\ \/ \E i \in DOMAIN lines : lines[i] = r /\ names[i] = table[p].born
                    \/ /\ Len(lines) = req.count
                       /\ \A i \in DOMAIN lines : Rate(lines[i]) >= Rate(r)
    <3>1. p \in Pids /\ Asked(p) /\ Lasts(p)
      BY <2>1, <2>4 DEF CallInv, TypeOK, ProcTypeOK, Asked, Lasts
    <3>2. Rowed(p)
      BY <2>1, <2>4, <3>1 DEF CallInv, AllPresent, InPlace
    <3>3. PICK r \in rows : r.pid = p
      BY <3>2 DEF Rowed
    <3>4. r.first = table[p].born /\ r.second = table[p].born
      BY <2>4, <3>3 DEF CallInv, RowsKept
    <3>5. \/ \E i \in DOMAIN lines : lines[i] = r
          \/ Len(lines) = req.count /\ \A i \in DOMAIN lines : Rate(lines[i]) >= Rate(r)
      BY <2>1, <3>3 DEF CallInv, RankOK
    <3>6. \A i \in DOMAIN lines : lines[i] = r => names[i] = table[p].born
      BY <2>1, <2>3, <3>1, <3>3 DEF CallInv, NamesOK
    <3> QED
      BY <3>3, <3>4, <3>5, <3>6
  <2>5. \A i \in DOMAIN lines : lines[i].pid \in lived => Wanted(lines[i].pid)
    BY <2>1 DEF CallInv, RankOK, FilterOK
  <2> QED
    BY <2>4, <2>5 DEF TopOfSurvivors
<1> QED
  BY <1>1, CallInvariance, PTL
=============================================================================
