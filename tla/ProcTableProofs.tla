-------------------------- MODULE ProcTableProofs --------------------------
(***************************************************************************)
(* Lemmas about the kernel's process table, for every set of PIDs and      *)
(* every bound on births: what one step of the kernel may change.  Every   *)
(* call that reads /proc is interleaved with such steps.  Below them are   *)
(* the lemmas about data that the proofs of several calls cite.            *)
(***************************************************************************)
EXTENDS ProcTable, SequencesExt, SequenceTheorems, WellFoundedInduction, TLAPS

\* Survivors are alive, and so are parents.
LivedAlive == settled \subseteq lived /\ \A p \in lived : Alive(p)
ParentsAlive ==
  /\ Alive(InitPid)
  /\ \A p \in Pids : Alive(p) /\ table[p].ppid # 0 => Alive(table[p].ppid)

\* Births are bounded by the birth clock, and init is nobody's child.
BirthsBounded == \A p \in Pids : table[p].born <= births
InitRoot == table[InitPid].ppid \in {0, InitPid}

\* T has all that S has, and more.
Strictly(S, T) == S \subseteq T /\ S # T

-----------------------------------------------------------------------------
\* A view of a table is a set of PIDs with births.
LEMMA ViewType ==
  ASSUME NEW t \in [Pids -> Processes]
  PROVE  View(t) \subseteq Pids \X Nat
<1> SUFFICES ASSUME NEW p \in Pids PROVE t[p].born \in Nat
  BY DEF View
<1>1. t[p] \in Processes
  OBVIOUS
<1> QED
  BY <1>1 DEF Processes

\* Adoption leaves a process a process, and the same one.
LEMMA AdoptionType ==
  ASSUME NEW process \in Processes, NEW adopter \in Pids
  PROVE  /\ [process EXCEPT !.ppid = adopter] \in Processes
         /\ [process EXCEPT !.ppid = adopter].ppid = adopter
         /\ [process EXCEPT !.ppid = adopter].born = process.born
         /\ [process EXCEPT !.ppid = adopter].access = process.access
         /\ [process EXCEPT !.ppid = adopter].sock = process.sock
BY DEF Processes

\* Who adopts: init or a subreaper, and never the process that exits.
NewParents == {InitPid} \cup Subreapers

LEMMA AdoptersAre ==
  ASSUME NEW x \in Pids, x # InitPid
  PROVE  /\ Adopters(x) \subseteq NewParents \ {x}
         /\ Adopters(x) \subseteq Pids
         /\ \A a \in Adopters(x) : a = InitPid \/ Alive(a)
BY ProcTableAssumption DEF Adopters, NewParents

\* What an exit leaves: every process but the one that exits, as it was or
\* with another parent.
LEMMA ExitLeaves ==
  ASSUME ProcTypeOK, NEW x \in Pids, Exit(x)
  PROVE  \E a \in Adopters(x) :
           /\ a \in NewParents \ {x} /\ a \in Pids /\ (a = InitPid \/ Alive(a))
           /\ table'[x] = NoProcess
           /\ table' \in [Pids -> Processes]
           /\ \A p \in Pids : p # x =>
                /\ table'[p].born = table[p].born
                /\ table'[p].access = table[p].access
                /\ table'[p].sock = table[p].sock
                /\ table'[p].ppid = IF table[p].ppid = x THEN a ELSE table[p].ppid
                /\ table[p].ppid # x => table'[p] = table[p]
<1>1. x # InitPid /\ table \in [Pids -> Processes]
  BY DEF Exit, ProcTypeOK
<1>2. PICK a \in Adopters(x) :
        table' = [q \in Pids |->
                    IF q = x THEN NoProcess
                    ELSE IF table[q].ppid = x THEN [table[q] EXCEPT !.ppid = a] ELSE table[q]]
  BY DEF Exit
<1>3. a \in NewParents \ {x} /\ a \in Pids /\ (a = InitPid \/ Alive(a))
  BY <1>1, AdoptersAre
<1>4. table'[x] = NoProcess
  BY <1>2
<1>5. ASSUME NEW p \in Pids, p # x
      PROVE  /\ table'[p] \in Processes
             /\ table'[p].born = table[p].born
             /\ table'[p].access = table[p].access
             /\ table'[p].sock = table[p].sock
             /\ table'[p].ppid = IF table[p].ppid = x THEN a ELSE table[p].ppid
             /\ table[p].ppid # x => table'[p] = table[p]
  <2>1. table[p] \in Processes
    BY <1>1
  <2>2. CASE table[p].ppid = x
    <3>1. table'[p] = [table[p] EXCEPT !.ppid = a]
      BY <1>2, <1>5, <2>2
    <3> QED
      BY <1>3, <2>1, <2>2, <3>1, AdoptionType
  <2>3. CASE table[p].ppid # x
    <3>1. table'[p] = table[p]
      BY <1>2, <1>5, <2>3
    <3> QED
      BY <2>1, <2>3, <3>1
  <2> QED
    BY <2>2, <2>3
<1>6. table' \in [Pids -> Processes]
  <2>1. NoProcess \in Processes
    BY DEF NoProcess, Processes, Access
  <2>2. \A p \in Pids : table'[p] \in Processes
    BY <1>4, <1>5, <2>1
  <2>3. table' = [p \in Pids |-> table'[p]]
    BY <1>2
  <2> QED
    BY <2>2, <2>3
<1> QED
  BY <1>3, <1>4, <1>5, <1>6

\* The table keeps its type.
LEMMA KernelType ==
  ASSUME ProcTypeOK, Kernel
  PROVE  ProcTypeOK'
<1> USE ProcTableAssumption
<1>1. ASSUME NEW parent \in Pids, NEW child \in Pids, NEW a \in AccessModes,
             NEW s \in SockModes, Fork(parent, child, a, s)
      PROVE  ProcTypeOK'
  <2>1. [born |-> births + 1, ppid |-> parent, access |-> a, sock |-> s] \in Processes
    BY <1>1 DEF ProcTypeOK, Processes
  <2>2. table' \in [Pids -> Processes]
    <3>1. table \in [Pids -> Processes]
      BY DEF ProcTypeOK
    <3> QED
      BY <1>1, <2>1, <3>1 DEF Fork
  <2>3. View(table') \subseteq Pids \X Nat
    BY <2>2, ViewType
  <2>4. /\ births' = births + 1
        /\ views' = views \cup {View(table')}
        /\ lived' = lived /\ settled' = settled
    BY <1>1 DEF Fork
  <2>5. views' \subseteq SUBSET (Pids \X Nat)
    BY <2>3, <2>4 DEF ProcTypeOK
  <2> QED
    BY <2>2, <2>4, <2>5 DEF ProcTypeOK
<1>2. ASSUME NEW p \in Pids, Exit(p)
      PROVE  ProcTypeOK'
  <2>1. table' \in [Pids -> Processes]
    BY <1>2, ExitLeaves
  <2>2. View(table') \subseteq Pids \X Nat
    BY <2>1, ViewType
  <2>3. /\ births' = births
        /\ views' = views \cup {View(table')}
        /\ lived' \subseteq lived /\ settled' \subseteq settled
    BY <1>2 DEF Exit
  <2>4. views' \subseteq SUBSET (Pids \X Nat)
    BY <2>2, <2>3 DEF ProcTypeOK
  <2> QED
    BY <2>1, <2>3, <2>4 DEF ProcTypeOK
<1> QED
  BY <1>1, <1>2 DEF Kernel

\* Births only grow: a PID keeps its process, becomes free, or goes to a
\* process younger than all before.
LEMMA KernelBirths ==
  ASSUME ProcTypeOK, Kernel
  PROVE  /\ births' \in {births, births + 1}
         /\ \A p \in Pids :
              \/ table'[p].born \in {table[p].born, 0}
              \/ table'[p].born = births + 1 /\ births' = births + 1
<1>1. table \in [Pids -> Processes]
  BY DEF ProcTypeOK
<1>2. ASSUME NEW parent \in Pids, NEW child \in Pids, NEW a \in AccessModes,
             NEW s \in SockModes, Fork(parent, child, a, s)
      PROVE  /\ births' = births + 1
             /\ \A p \in Pids : table'[p].born \in {table[p].born, births + 1}
  BY <1>1, <1>2 DEF Fork
<1>3. ASSUME NEW p \in Pids, Exit(p)
      PROVE  /\ births' = births
             /\ \A q \in Pids : table'[q].born \in {table[q].born, 0}
  <2>1. births' = births
    BY <1>3 DEF Exit
  <2> QED
    BY <1>3, <2>1, ExitLeaves DEF NoProcess
<1> QED
  BY <1>2, <1>3 DEF Kernel

\* One step does not both reap a process and give its PID away: what is alive
\* before and after it is the same process, and changes its parent at most
\* for one who adopts.
LEMMA KernelSameProcess ==
  ASSUME ProcTypeOK, Kernel, NEW p \in Pids, table[p].born # 0, table'[p].born # 0
  PROVE  /\ table'[p].born = table[p].born
         /\ table'[p].access = table[p].access
         /\ table'[p].sock = table[p].sock
         /\ table'[p].ppid \in {table[p].ppid} \cup NewParents
<1>1. table \in [Pids -> Processes] /\ table[p] \in Processes
  BY DEF ProcTypeOK
<1>2. ASSUME NEW parent \in Pids, NEW child \in Pids, NEW a \in AccessModes,
             NEW s \in SockModes, Fork(parent, child, a, s)
      PROVE  table'[p] = table[p]
  <2>1. child # p
    BY <1>2 DEF Fork, Alive
  <2> QED
    BY <1>1, <1>2, <2>1 DEF Fork
<1>3. ASSUME NEW x \in Pids, Exit(x)
      PROVE  /\ table'[p].born = table[p].born
             /\ table'[p].access = table[p].access
             /\ table'[p].sock = table[p].sock
             /\ table'[p].ppid \in {table[p].ppid} \cup NewParents
  <2>1. x # p
    <3>1. x = p => table'[p] = NoProcess
      BY <1>3, ExitLeaves
    <3> QED
      BY <3>1 DEF NoProcess
  <2> QED
    BY <1>3, <2>1, ExitLeaves
<1> QED
  BY <1>2, <1>3 DEF Kernel

\* What one step of the kernel does to those it leaves alive.
LEMMA KernelKeeps ==
  ASSUME ProcTypeOK, LivedAlive, ParentsAlive, Kernel
  PROVE  /\ lived' \subseteq lived
         /\ \A p \in lived' :
              /\ table'[p].born = table[p].born
              /\ table'[p].access = table[p].access
              /\ table'[p].sock = table[p].sock
              /\ table'[p].ppid \in {table[p].ppid} \cup NewParents
         /\ settled' \subseteq settled
         /\ \A p \in settled' : table'[p].ppid = table[p].ppid
         /\ LivedAlive' /\ ParentsAlive'
         /\ views \subseteq views' /\ View(table') \in views'
<1> USE ProcTableAssumption
<1>1. /\ table \in [Pids -> Processes] /\ births \in Nat
      /\ lived \subseteq Pids /\ settled \subseteq Pids
  BY DEF ProcTypeOK
<1>2. ASSUME NEW parent \in Pids, NEW child \in Pids, NEW a \in AccessModes,
             NEW s \in SockModes, Fork(parent, child, a, s)
      PROVE  /\ lived' = lived /\ settled' = settled
             /\ settled \subseteq lived
             /\ \A p \in lived : table'[p] = table[p]
             /\ LivedAlive' /\ ParentsAlive'
             /\ views' = views \cup {View(table')}
  <2>1. /\ lived' = lived /\ settled' = settled /\ Alive(parent) /\ ~Alive(child)
        /\ views' = views \cup {View(table')}
        /\ table' = [table EXCEPT ![child] =
                       [born |-> births + 1, ppid |-> parent, access |-> a, sock |-> s]]
    BY <1>2 DEF Fork
  <2>2. /\ \A p \in Pids : p # child => table'[p] = table[p]
        /\ table'[child].born = births + 1 /\ table'[child].ppid = parent
    BY <1>1, <2>1
  <2>3. child \notin lived /\ child # parent /\ child # InitPid
    BY <2>1 DEF LivedAlive, ParentsAlive
  <2>4. \A p \in Pids : Alive(p) => Alive(p)'
    BY <2>1, <2>2 DEF Alive
  <2>5. LivedAlive'
    BY <1>1, <2>1, <2>4 DEF LivedAlive
  <2>6. ParentsAlive'
    <3>1. table'[InitPid].born # 0
      BY <2>4 DEF ParentsAlive, Alive
    <3>2. ASSUME NEW p \in Pids, table'[p].born # 0, table'[p].ppid # 0
          PROVE  table'[table'[p].ppid].born # 0
      <4>1. CASE p = child
        BY <2>1, <2>2, <2>4, <4>1 DEF Alive
      <4>2. CASE p # child
        <5>1. Alive(p) /\ table'[p].ppid = table[p].ppid
          BY <2>2, <3>2, <4>2 DEF Alive
        <5>2. table[p] \in Processes
          BY <1>1
        <5>3. table[p].ppid \in Pids /\ Alive(table[p].ppid)
          BY <3>2, <5>1, <5>2 DEF ParentsAlive, Processes
        <5> QED
          BY <2>1, <2>2, <5>1, <5>3 DEF Alive
      <4> QED
        BY <4>1, <4>2
    <3> QED
      BY <3>1, <3>2 DEF ParentsAlive, Alive
  <2>7. settled \subseteq lived
    BY DEF LivedAlive
  <2>8. \A p \in lived : table'[p] = table[p]
    BY <1>1, <2>2, <2>3
  <2> QED
    BY <2>1, <2>5, <2>6, <2>7, <2>8
<1>3. ASSUME NEW x \in Pids, Exit(x)
      PROVE  /\ lived' \subseteq lived
             /\ \A p \in lived' :
                  /\ table'[p].born = table[p].born
                  /\ table'[p].access = table[p].access
                  /\ table'[p].sock = table[p].sock
                  /\ table'[p].ppid \in {table[p].ppid} \cup NewParents
             /\ settled' \subseteq settled
             /\ \A p \in settled' : table'[p].ppid = table[p].ppid
             /\ LivedAlive' /\ ParentsAlive'
             /\ views' = views \cup {View(table')}
  <2>1. /\ lived' = lived \ {x} /\ x # InitPid
        /\ settled' = {q \in settled \ {x} : table[q].ppid # x}
        /\ views' = views \cup {View(table')}
    BY <1>3 DEF Exit
  <2>2. PICK a \in NewParents \ {x} :
          /\ a \in Pids /\ (a = InitPid \/ Alive(a))
          /\ table'[x] = NoProcess
          /\ \A p \in Pids : p # x =>
               /\ table'[p].born = table[p].born
               /\ table'[p].access = table[p].access
               /\ table'[p].sock = table[p].sock
               /\ table'[p].ppid = IF table[p].ppid = x THEN a ELSE table[p].ppid
    BY <1>3, ExitLeaves
  <2>3. \A p \in Pids : p # x =>
          /\ table'[p].born = table[p].born
          /\ table'[p].access = table[p].access
          /\ table'[p].sock = table[p].sock
          /\ table'[p].ppid = IF table[p].ppid = x THEN a ELSE table[p].ppid
    BY <2>2
  <2>4. \A p \in Pids : p # x => (Alive(p)' <=> Alive(p))
    BY <2>3 DEF Alive
  <2>5. LivedAlive'
    BY <1>1, <2>1, <2>4 DEF LivedAlive
  <2>6. ParentsAlive'
    <3>1. table'[InitPid].born # 0
      BY <2>1, <2>4 DEF ParentsAlive, Alive
    <3>2. ASSUME NEW p \in Pids, table'[p].born # 0, table'[p].ppid # 0
          PROVE  table'[table'[p].ppid].born # 0
      <4>1. p # x
        <5>1. table'[x] = NoProcess
          BY <2>2
        <5> QED
          BY <3>2, <5>1 DEF NoProcess
      <4>2. Alive(p) /\ table[p] \in Processes
        BY <1>1, <2>4, <3>2, <4>1 DEF Alive
      <4>3. CASE table[p].ppid = x
        <5>1. table'[p].ppid = a
          BY <2>3, <4>1, <4>3
        <5>2. Alive(a)
          BY <2>2 DEF ParentsAlive
        <5>3. table'[a].born # 0
          BY <2>2, <2>4, <5>2 DEF Alive
        <5> QED
          BY <5>1, <5>3
      <4>4. CASE table[p].ppid # x
        <5>1. table'[p].ppid = table[p].ppid
          BY <2>3, <4>1, <4>4
        <5>2. table[p].ppid \in Pids /\ Alive(table[p].ppid)
          BY <3>2, <4>2, <5>1 DEF ParentsAlive, Processes
        <5>3. table'[table[p].ppid].born # 0
          BY <2>4, <4>4, <5>2 DEF Alive
        <5> QED
          BY <5>1, <5>3 DEF Alive
      <4> QED
        BY <4>3, <4>4
    <3> QED
      BY <3>1, <3>2 DEF ParentsAlive, Alive
  <2> QED
    BY <1>1, <2>1, <2>3, <2>5, <2>6
<1>4. ASSUME NEW parent \in Pids, NEW child \in Pids, NEW a \in AccessModes,
             NEW s \in SockModes, Fork(parent, child, a, s)
      PROVE  /\ lived' \subseteq lived /\ settled' \subseteq settled
             /\ \A p \in settled' : table'[p].ppid = table[p].ppid
  BY <1>2, <1>4
<1> QED
  BY <1>2, <1>3, <1>4 DEF Kernel

\* Who was there when the call began and is alive still has lived throughout.
LEMMA KernelSurvivors ==
  ASSUME ProcTypeOK, Kernel, NEW p \in lived, table'[p].born # 0
  PROVE  p \in lived'
<1>1. ASSUME NEW parent \in Pids, NEW child \in Pids, NEW a \in AccessModes,
             NEW s \in SockModes, Fork(parent, child, a, s)
      PROVE  lived' = lived
  BY <1>1 DEF Fork
<1>2. ASSUME NEW x \in Pids, Exit(x)
      PROVE  lived' = lived \ {x} /\ table'[x].born = 0
  <2>1. table'[x] = NoProcess
    BY <1>2, ExitLeaves
  <2> QED
    BY <1>2, <2>1 DEF Exit, NoProcess
<1> QED
  BY <1>1, <1>2 DEF Kernel

\* The initial tables, and a call that begins.
LEMMA InitTable ==
  ASSUME ProcInit
  PROVE  ProcTypeOK /\ LivedAlive /\ ParentsAlive /\ BirthsBounded /\ InitRoot
<1> USE ProcTableAssumption
<1>1. ProcTypeOK /\ LivedAlive
  <2>1. table \in [Pids -> Processes] /\ births \in Nat
    <3>1. table \in [Pids -> Processes]
      BY DEF ProcInit
    <3>2. PICK youngest \in Pids : births = table[youngest].born
      BY DEF ProcInit
    <3> QED
      BY <3>1, <3>2 DEF Processes
  <2> QED
    BY <2>1 DEF ProcInit, ProcTypeOK, LivedAlive
<1>2. ParentsAlive /\ InitRoot
  BY DEF ProcInit, ParentsAlive, InitRoot, Alive
<1>3. BirthsBounded
  <2> SUFFICES ASSUME NEW p \in Pids PROVE table[p].born <= births
    BY DEF BirthsBounded
  <2> QED
    BY DEF ProcInit
<1> QED
  BY <1>1, <1>2, <1>3

\* Where a call begins, those alive are those who may survive it.
LEMMA MarkTable ==
  ASSUME ProcTypeOK, Mark, UNCHANGED <<table, births>>
  PROVE  /\ ProcTypeOK' /\ LivedAlive'
         /\ View(table') \in views' /\ lived' = AlivePids' /\ settled' = lived'
<1>1. View(table) \subseteq Pids \X Nat
  BY ViewType DEF ProcTypeOK
<1> QED
  BY <1>1 DEF Mark, AlivePids, Alive, LivedAlive, ProcTypeOK

\* Births stay bounded, init nobody's child, and every step changes the view:
\* a call during which there was one view was not interrupted by the kernel.
LEMMA KernelBounds ==
  ASSUME ProcTypeOK, BirthsBounded, InitRoot, ParentsAlive, Kernel
  PROVE  BirthsBounded' /\ InitRoot' /\ View(table') # View(table)
<1> USE ProcTableAssumption
<1>1. table \in [Pids -> Processes] /\ births \in Nat
  BY DEF ProcTypeOK
<1>2. \A p \in Pids : table[p].born \in Nat /\ table[p].born <= births
  BY <1>1 DEF BirthsBounded, Processes
<1>3. BirthsBounded'
  <2> SUFFICES ASSUME NEW p \in Pids PROVE table'[p].born <= births'
    BY DEF BirthsBounded
  <2> QED
    BY <1>1, <1>2, KernelBirths
<1>4. ASSUME NEW parent \in Pids, NEW child \in Pids, NEW a \in AccessModes,
             NEW s \in SockModes, Fork(parent, child, a, s)
      PROVE  InitRoot' /\ View(table') # View(table)
  <2>1. /\ table'[child].born = births + 1
        /\ \A p \in Pids : p # child => table'[p] = table[p]
    BY <1>1, <1>4 DEF Fork
  <2>2. child # InitPid
    BY <1>4 DEF Fork, ParentsAlive
  <2>3. <<child, births + 1>> \in View(table')
    BY <1>1, <2>1 DEF View
  <2>4. <<child, births + 1>> \notin View(table)
    BY <1>1, <1>2 DEF View
  <2> QED
    BY <2>1, <2>2, <2>3, <2>4 DEF InitRoot
<1>5. ASSUME NEW x \in Pids, Exit(x)
      PROVE  InitRoot' /\ View(table') # View(table)
  <2>1. x # InitPid /\ table[x].born # 0 /\ table'[x] = NoProcess
    BY <1>5, ExitLeaves DEF Exit, Alive
  <2>2. <<x, table[x].born>> \in View(table)
    BY <2>1 DEF View
  <2>3. <<x, table[x].born>> \notin View(table')
    BY <2>1 DEF View, NoProcess
  <2>4. table[InitPid].ppid # x
    BY <2>1 DEF InitRoot
  <2>5. table'[InitPid].ppid = table[InitPid].ppid
    BY <1>5, <2>1, <2>4, ExitLeaves
  <2>6. InitRoot'
    BY <2>5 DEF InitRoot
  <2> QED
    BY <2>2, <2>3, <2>6
<1> QED
  BY <1>3, <1>4, <1>5 DEF Kernel

-----------------------------------------------------------------------------
(***************************************************************************)
(* Lemmas about data that the proofs of several calls cite: the least of   *)
(* some numbers, and what the operations of a std::vector used as a stack  *)
(* or as a list of results leave where: push_back, pop_back, and appending *)
(* another.                                                                *)
(***************************************************************************)
\* A set of naturals that is not empty has a least element.
LEMMA LeastNumber ==
  ASSUME NEW S, S \subseteq Nat, S # {}
  PROVE  \E x \in S : \A y \in S : x <= y
<1>1. PICK x \in S : \A y \in S : ~(<<y, x>> \in OpToRel(<, Nat))
  BY NatLessThanWellFounded, WFMin
<1>2. \A y \in S : ~(y < x)
  BY <1>1 DEF OpToRel
<1> QED
  BY <1>2

\* push_back: one more element, at the end.
LEMMA Pushed ==
  ASSUME NEW S, NEW s \in Seq(S), NEW e \in S
  PROVE  /\ Append(s, e) \in Seq(S)
         /\ DOMAIN s = 1 .. Len(s) /\ Len(s) \in Nat
         /\ DOMAIN Append(s, e) = 1 .. Len(s) + 1
         /\ \A i \in DOMAIN s : i \in DOMAIN Append(s, e) /\ Append(s, e)[i] = s[i]
         /\ Len(s) + 1 \in DOMAIN Append(s, e) /\ Append(s, e)[Len(s) + 1] = e
         /\ \A i \in DOMAIN Append(s, e) : i \in DOMAIN s \/ i = Len(s) + 1
BY AppendProperties, LenProperties

\* Appending a vector: every element of either has its place, in order.
LEMMA Joined ==
  ASSUME NEW S, NEW s \in Seq(S), NEW t \in Seq(S)
  PROVE  /\ s \o t \in Seq(S)
         /\ DOMAIN s = 1 .. Len(s) /\ Len(s) \in Nat
         /\ DOMAIN t = 1 .. Len(t) /\ Len(t) \in Nat
         /\ \A i \in DOMAIN s : i \in DOMAIN (s \o t) /\ (s \o t)[i] = s[i]
         /\ \A k \in DOMAIN t : /\ Len(s) + k \in DOMAIN (s \o t)
                                /\ (s \o t)[Len(s) + k] = t[k]
         /\ \A i \in DOMAIN (s \o t) :
              i \in DOMAIN s \/ \E k \in DOMAIN t : i = Len(s) + k
<1>1. /\ Len(s) \in Nat /\ DOMAIN s = 1 .. Len(s)
      /\ Len(t) \in Nat /\ DOMAIN t = 1 .. Len(t)
  BY LenProperties
<1>2. /\ s \o t \in Seq(S) /\ DOMAIN (s \o t) = 1 .. Len(s) + Len(t)
      /\ \A i \in 1 .. Len(s) + Len(t) :
           (s \o t)[i] = IF i <= Len(s) THEN s[i] ELSE t[i - Len(s)]
  BY ConcatProperties, LenProperties
<1>3. \A k \in DOMAIN t : /\ Len(s) + k \in DOMAIN (s \o t)
                         /\ (s \o t)[Len(s) + k] = t[k]
  BY <1>1, <1>2
<1>4. ASSUME NEW i \in DOMAIN (s \o t), i \notin DOMAIN s
      PROVE  \E k \in DOMAIN t : i = Len(s) + k
  <2>1. i - Len(s) \in DOMAIN t /\ i = Len(s) + (i - Len(s))
    BY <1>1, <1>2, <1>4
  <2> QED
    BY <2>1
<1> QED
  BY <1>1, <1>2, <1>3, <1>4

\* back and pop_back: the last element goes, the others stay.
LEMMA Popped ==
  ASSUME NEW S, NEW s \in Seq(S), s # << >>
  PROVE  /\ Front(s) \in Seq(S) /\ Last(s) \in S /\ Len(Front(s)) < Len(s)
         /\ Len(s) \in DOMAIN s /\ s[Len(s)] = Last(s)
         /\ \A i \in DOMAIN Front(s) : i \in DOMAIN s /\ Front(s)[i] = s[i]
         /\ \A i \in DOMAIN s : s[i] = Last(s) \/ (i \in DOMAIN Front(s) /\ Front(s)[i] = s[i])
<1>1. /\ Len(s) \in Nat \ {0} /\ DOMAIN s = 1 .. Len(s)
      /\ \A i \in 1 .. Len(s) : s[i] \in S
  BY EmptySeq, LenProperties, ElementOfSeq
<1> DEFINE f == SubSeq(s, 1, Len(s) - 1)
<1>2. /\ f \in Seq(S) /\ Len(f) = Len(s) - 1
      /\ \A i \in 1 .. Len(s) - 1 : f[i] = s[i]
  BY <1>1, SubSeqProperties
<1>3. DOMAIN f = 1 .. Len(s) - 1
  <2> HIDE DEF f
  <2> QED
    BY <1>2, LenProperties
<1>4. Front(s) = f /\ Last(s) = s[Len(s)]
  BY DEF Front, Last
<1> HIDE DEF f
<1> QED
  BY <1>1, <1>2, <1>3, <1>4

\* The first element goes, the others move up.
LEMMA Shifted ==
  ASSUME NEW S, NEW s \in Seq(S), s # << >>
  PROVE  /\ Tail(s) \in Seq(S) /\ Head(s) \in S /\ Len(Tail(s)) < Len(s)
         /\ 1 \in DOMAIN s /\ s[1] = Head(s)
         /\ \A i \in DOMAIN Tail(s) :
              i \in Nat /\ i + 1 \in DOMAIN s /\ Tail(s)[i] = s[i + 1]
         /\ \A i \in DOMAIN s : i = 1 \/ (i - 1 \in DOMAIN Tail(s) /\ Tail(s)[i - 1] = s[i])
<1>1. Len(s) \in Nat \ {0} /\ DOMAIN s = 1 .. Len(s)
  BY EmptySeq, LenProperties
<1>2. /\ Head(s) \in S /\ Tail(s) \in Seq(S) /\ Len(Tail(s)) = Len(s) - 1
      /\ \A i \in 1 .. Len(Tail(s)) : Tail(s)[i] = s[i + 1]
  BY HeadTailProperties
<1>3. DOMAIN Tail(s) = 1 .. Len(s) - 1
  BY <1>2, LenProperties
<1>4. s[1] = Head(s)
  OBVIOUS
<1> QED
  BY <1>1, <1>2, <1>3, <1>4
=============================================================================
