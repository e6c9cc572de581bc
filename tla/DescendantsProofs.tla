------------------------ MODULE DescendantsProofs ------------------------
(***************************************************************************)
(* Theorems about module Descendants, for every set of PIDs, every bound   *)
(* on births, every set of roots, of subreapers and of initial tables: no  *)
(* process twice but by adoption, every row linked, the family that stays  *)
(* reported, an exact result when nothing moves, and no step that does not *)
(* bring the walk nearer to its end.                                       *)
(***************************************************************************)
EXTENDS Descendants, ProcTableProofs

Exploring == wpc \in {"exists", "open", "list", "read"}
Begun == wpc # "idle" \/ visited # {}
Descends == asked = "descendants" /\ Begun

(***************************************************************************)
(* The table, as in every call: survivors and parents are alive, births    *)
(* are bounded, init is nobody's child, the views are current.  The parent *)
(* of a process that stays where it is lives as long as the call does.     *)
(***************************************************************************)
TableOK ==
  /\ LivedAlive /\ ParentsAlive /\ BirthsBounded /\ InitRoot
  /\ \A p \in settled : table[p].ppid \in lived \cup {0}
  /\ Begun => View(table) \in views
  /\ Begun /\ Quiet => settled = AlivePids

(***************************************************************************)
(* The shape of the walk.  The root comes first: before it is explored     *)
(* nothing was found and nothing else is on the stack.                     *)
(***************************************************************************)
ShapeOK ==
  /\ wpc \in {"row", "parent"} => asked = "parent" /\ out = <<>>
  /\ wpc = "pop" \/ Exploring => asked = "descendants"
  /\ wpc \in {"idle", "row", "parent"} => stack = <<>>
  /\ wpc # "read" => children = <<>>
  /\ asked = "parent" => Len(out) <= 1
  /\ Exploring => current \in visited
  /\ Descends /\ root \notin visited =>
       out = <<>> /\ ~Exploring /\ stack # <<>> /\ \A i \in DOMAIN stack : stack[i] = root

\* What is on the stack, and what is explored, was found; the root is explored
\* first, and init only as the root.
FoundOK ==
  /\ \A i \in DOMAIN stack :
       stack[i] = root \/ \E j \in DOMAIN out : out[j].pid = stack[i]
  /\ Exploring =>
       /\ current = root \/ \E j \in DOMAIN out : out[j].pid = current
       /\ current \in {root, InitPid} => out = <<>>
  /\ asked = "descendants" => \A i \in DOMAIN out : out[i].pid # InitPid

(***************************************************************************)
(* When a process is found twice.  The PID explored now was not explored   *)
(* before, so a process found below it that has a row already has another  *)
(* parent since: it was adopted, and the PID explored now belongs to its   *)
(* adopter.  That is not the root and not init, which come first, when     *)
(* there are no rows.                                                      *)
(***************************************************************************)
RowOf(r) ==
  /\ r.born > 0 /\ r.born <= births
  /\ table[r.pid].born = r.born =>
       /\ table[r.pid].ppid \in {r.ppid} \cup NewParents
       /\ table[r.pid].access # "none"
       /\ r.pid \in settled => table[r.pid].ppid = r.ppid

SameProcess(r, t) == r.pid = t.pid /\ r.born = t.born
Adopted(r, t) == r.ppid # t.ppid /\ t.ppid \in Subreapers \ {root, InitPid}

OutRows ==
  asked = "descendants" => \A i \in DOMAIN out :
    RowOf(out[i]) /\ out[i].ppid \in visited /\ (Exploring => out[i].ppid # current)
ChildrenRows ==
  \A i \in DOMAIN children :
    /\ RowOf(children[i]) /\ children[i].ppid = current
    /\ children[i].pid \notin unread /\ children[i].pid # InitPid
OutRepeats ==
  \A i, j \in DOMAIN out : i < j /\ SameProcess(out[i], out[j]) => Adopted(out[i], out[j])
ChildrenDistinct ==
  \A i, j \in DOMAIN children : children[i].pid = children[j].pid => i = j
ChildrenRepeat ==
  \A i \in DOMAIN out, k \in DOMAIN children :
    SameProcess(out[i], children[k]) => Adopted(out[i], children[k])

RowsOK == OutRows /\ ChildrenRows /\ OutRepeats /\ ChildrenDistinct /\ ChildrenRepeat

LinkInv == TypeOK /\ TableOK /\ ShapeOK /\ FoundOK /\ RowsOK /\ RowsLinked

(***************************************************************************)
(* Why the family that stays is reported.  Of a readable survivor that was *)
(* explored, every child that stays is in a row; of the one explored now,  *)
(* it is unread or among the children; and what is found is explored or on *)
(* the stack.                                                              *)
(***************************************************************************)
Reported(rows, q) == \E i \in DOMAIN rows : rows[i].pid = q /\ rows[i].born = table[q].born
Kin(q, p) == q \in settled /\ q # p /\ Openable(q) /\ table[q].ppid = p
Stays(p) == p \in lived /\ Openable(p)

ExploredOK ==
  Descends => \A p \in visited : Stays(p) /\ ~(Exploring /\ p = current) =>
    \A q \in Pids : Kin(q, p) => Reported(out, q)
ExploringOK ==
  wpc = "read" /\ Stays(current) =>
    \A q \in Pids : Kin(q, current) => q \in unread \/ Reported(children, q)
PendingOK ==
  Descends => \A i \in DOMAIN out :
    out[i].pid \in visited \/ \E j \in DOMAIN stack : stack[j] = out[i].pid
ParentOK ==
  wpc = "parent" /\ root \in settled /\ Openable(root) =>
    current = table[root].ppid /\ current \notin {0, InitPid}

\* While nothing moves, rows are what the table says, and what was explored
\* was readable.
RowNow(r) ==
  /\ r.born = table[r.pid].born /\ r.ppid = table[r.pid].ppid
  /\ Openable(r.pid) /\ r.pid # r.ppid
StillOK ==
  Descends /\ Quiet =>
    /\ \A i \in DOMAIN out : RowNow(out[i])
    /\ \A i \in DOMAIN children : RowNow(children[i])
    /\ wpc \in {"list", "read"} \/ out # <<>> => Openable(root)

FamilyInv ==
  /\ LinkInv /\ ExploredOK /\ ExploringOK /\ PendingOK /\ ParentOK /\ StillOK
  /\ SettledParentReported

-----------------------------------------------------------------------------
\* No walk has begun: the invariant holds.
LEMMA InitFamily == Init => FamilyInv
<1> SUFFICES ASSUME Init PROVE FamilyInv
  OBVIOUS
<1> USE ProcTableAssumption, DescendantsAssumption
<1>1. /\ ProcTypeOK /\ LivedAlive /\ ParentsAlive /\ BirthsBounded /\ InitRoot
  BY InitTable DEF Init
<1>2. TypeOK /\ TableOK
  BY <1>1 DEF Init, ProcInit, TypeOK, TableOK, Begun
<1>3. ShapeOK /\ FoundOK /\ RowsOK /\ RowsLinked
  BY DEF Init, ShapeOK, Exploring, Descends, Begun, FoundOK, RowsOK, OutRows, ChildrenRows,
     OutRepeats, ChildrenDistinct, ChildrenRepeat, RowsLinked
<1>4. ExploredOK /\ ExploringOK /\ PendingOK /\ ParentOK /\ StillOK /\ SettledParentReported
  BY DEF Init, ExploredOK, ExploringOK, PendingOK, ParentOK, StillOK, Descends, Begun,
     SettledParentReported
<1> QED
  BY <1>2, <1>3, <1>4 DEF FamilyInv, LinkInv

\* A step of the walk leaves the table alone, and what is said of it.
LEMMA SameTable ==
  ASSUME TableOK, UNCHANGED procVars, Begun' => Begun
  PROVE  /\ TableOK'
         /\ table' = table /\ births' = births /\ lived' = lived /\ settled' = settled
         /\ Quiet' <=> Quiet
         /\ \A p : (Openable(p)' <=> Openable(p)) /\ (Stays(p)' <=> Stays(p))
         /\ \A p, q : Kin(q, p)' <=> Kin(q, p)
         /\ \A r : (RowOf(r)' <=> RowOf(r)) /\ (RowNow(r)' <=> RowNow(r))
<1>1. /\ table' = table /\ births' = births /\ lived' = lived
      /\ settled' = settled /\ views' = views
  BY DEF procVars
<1>2. (Quiet' <=> Quiet) /\ \A p : Openable(p)' <=> Openable(p)
  BY <1>1 DEF Quiet, Openable, Alive
<1>3. TableOK'
  BY <1>1, <1>2 DEF TableOK, LivedAlive, ParentsAlive, BirthsBounded, InitRoot, Alive, AlivePids
<1> QED
  BY <1>1, <1>2, <1>3 DEF Stays, Kin, RowOf, RowNow

\* A call begins.
LEMMA BeginTable ==
  ASSUME FamilyInv, Mark, UNCHANGED <<table, births>>
  PROVE  ProcTypeOK' /\ TableOK'
<1>1. /\ ProcTypeOK' /\ LivedAlive' /\ View(table') \in views'
      /\ lived' = AlivePids' /\ settled' = lived'
  BY MarkTable DEF FamilyInv, LinkInv, TypeOK
<1>2. /\ ParentsAlive' /\ BirthsBounded' /\ InitRoot'
      /\ table' \in [Pids -> Processes]
  BY <1>1 DEF FamilyInv, LinkInv, TableOK, ParentsAlive, BirthsBounded, InitRoot, Alive,
     ProcTypeOK
<1>3. \A p \in settled' : table'[p].ppid \in lived' \cup {0}
  <2> SUFFICES ASSUME NEW p \in settled', table'[p].ppid # 0
               PROVE  table'[p].ppid \in lived'
    OBVIOUS
  <2>1. p \in Pids /\ Alive(p)'
    BY <1>1 DEF AlivePids
  <2>2. table'[p].ppid \in Pids
    BY <1>2, <2>1 DEF Processes
  <2> QED
    BY <1>1, <1>2, <2>1, <2>2 DEF ParentsAlive, AlivePids
<1> QED
  BY <1>1, <1>2, <1>3 DEF TableOK

\* A walk begins with its root on the stack and nobody found.
LEMMA BeginStep ==
  ASSUME FamilyInv, NEW p \in Roots, Begin(p)
  PROVE  FamilyInv'
<1> USE ProcTableAssumption, DescendantsAssumption
<1>1. /\ wpc = "idle" /\ wpc' = "pop" /\ asked' = "descendants" /\ root' = p
      /\ stack' = <<p>> /\ visited' = {} /\ out' = <<>> /\ children' = <<>>
      /\ current' = p /\ unread' = unread
  BY DEF Begin, FamilyInv, LinkInv, ShapeOK
<1>2. ProcTypeOK' /\ TableOK'
  BY BeginTable DEF Begin
<1>3. TypeOK'
  BY <1>1, <1>2 DEF FamilyInv, LinkInv, TypeOK
<1>4. ShapeOK' /\ FoundOK' /\ RowsOK' /\ RowsLinked'
  BY <1>1 DEF ShapeOK, Exploring, Descends, Begun, FoundOK, RowsOK, OutRows, ChildrenRows,
     OutRepeats, ChildrenDistinct, ChildrenRepeat, RowsLinked
<1>5. /\ ExploredOK' /\ ExploringOK' /\ PendingOK' /\ ParentOK' /\ StillOK'
      /\ SettledParentReported'
  BY <1>1 DEF ExploredOK, ExploringOK, PendingOK, ParentOK, StillOK, SettledParentReported
<1> QED
  BY <1>2, <1>3, <1>4, <1>5 DEF FamilyInv, LinkInv

\* A search for the parent begins with nobody found.
LEMMA BeginParentStep ==
  ASSUME FamilyInv, NEW p \in Roots, BeginParent(p)
  PROVE  FamilyInv'
<1> USE ProcTableAssumption, DescendantsAssumption
<1>1. /\ wpc = "idle" /\ wpc' = "row" /\ asked' = "parent" /\ root' = p
      /\ stack' = <<>> /\ stack = <<>> /\ visited' = {} /\ out' = <<>>
      /\ children' = <<>> /\ children = <<>> /\ current' = p /\ unread' = unread
  BY DEF BeginParent, FamilyInv, LinkInv, ShapeOK
<1>2. ProcTypeOK' /\ TableOK'
  BY BeginTable DEF BeginParent
<1>3. TypeOK'
  BY <1>1, <1>2 DEF FamilyInv, LinkInv, TypeOK
<1>4. ShapeOK' /\ FoundOK' /\ RowsOK' /\ RowsLinked'
  BY <1>1 DEF ShapeOK, Exploring, Descends, FoundOK, RowsOK, OutRows, ChildrenRows,
     OutRepeats, ChildrenDistinct, ChildrenRepeat, RowsLinked
<1>5. /\ ExploredOK' /\ ExploringOK' /\ PendingOK' /\ ParentOK' /\ StillOK'
      /\ SettledParentReported'
  BY <1>1 DEF ExploredOK, ExploringOK, PendingOK, ParentOK, StillOK, Descends,
     SettledParentReported
<1> QED
  BY <1>2, <1>3, <1>4, <1>5 DEF FamilyInv, LinkInv

(***************************************************************************)
(* The kernel's steps.  The walk's variables stay, the table moves, and    *)
(* nothing is still any more.                                              *)
(***************************************************************************)
LEMMA KernelFamily ==
  ASSUME FamilyInv, Kernel, UNCHANGED walkVars
  PROVE  FamilyInv'
<1> USE ProcTableAssumption
<1>1. /\ wpc' = wpc /\ asked' = asked /\ root' = root /\ stack' = stack
      /\ visited' = visited /\ current' = current /\ unread' = unread
      /\ children' = children /\ out' = out
  BY DEF walkVars
<1>2. /\ ProcTypeOK /\ LivedAlive /\ ParentsAlive /\ BirthsBounded /\ InitRoot
      /\ Begun => View(table) \in views
      /\ out \in Seq(Rows) /\ children \in Seq(Rows)
      /\ root \in Pids /\ current \in Pids /\ lived \subseteq Pids /\ visited \subseteq Pids
      /\ births \in Nat /\ table \in [Pids -> Processes]
      /\ settled \subseteq lived
  BY DescendantsAssumption DEF FamilyInv, LinkInv, TypeOK, TableOK, ProcTypeOK, LivedAlive
<1>3. /\ ProcTypeOK' /\ LivedAlive' /\ ParentsAlive' /\ BirthsBounded' /\ InitRoot'
      /\ lived' \subseteq lived /\ settled' \subseteq settled /\ settled' \subseteq lived'
      /\ views \subseteq views' /\ View(table') \in views'
      /\ View(table') # View(table)
      /\ \A p \in settled' : table'[p].ppid = table[p].ppid
  <2>1. LivedAlive'
    BY <1>2, KernelKeeps
  <2>2. settled' \subseteq lived'
    BY <2>1 DEF LivedAlive
  <2> QED
    BY <1>2, <2>1, <2>2, KernelType, KernelKeeps, KernelBounds
<1>4. Begun' => Begun /\ ~Quiet'
  BY <1>1, <1>2, <1>3 DEF Begun, Quiet
\* The parent of a process that stays: it has not exited, so it lives on.
<1>5. ASSUME NEW p \in settled' PROVE table'[p].ppid \in lived' \cup {0}
  <2>1. p \in settled /\ p \in lived' /\ p \in Pids /\ table'[p].ppid = table[p].ppid
    BY <1>2, <1>3
  <2>2. table[p].ppid \in lived \cup {0}
    BY <2>1 DEF FamilyInv, LinkInv, TableOK
  <2>3. CASE table[p].ppid = 0
    BY <2>1, <2>3
  <2>4. CASE table[p].ppid # 0
    <3> DEFINE parent == table[p].ppid
    <3>1. table'[p].born # 0
      BY <1>3, <2>1 DEF LivedAlive, Alive
    <3>2. table'[parent].born # 0
      BY <1>3, <2>1, <2>4, <3>1 DEF ParentsAlive, Alive
    <3>3. parent \in lived
      BY <2>2, <2>4
    <3> HIDE DEF parent
    <3>4. parent \in lived'
      BY <1>2, <3>2, <3>3, KernelSurvivors
    <3> QED
      BY <2>1, <3>4 DEF parent
  <2> QED
    BY <2>3, <2>4
<1>6. TableOK' /\ TypeOK' /\ ShapeOK' /\ FoundOK'
  <2>1. TableOK'
    BY <1>3, <1>4, <1>5 DEF TableOK
  <2>2. TypeOK' /\ ShapeOK' /\ FoundOK'
    BY <1>1, <1>3 DEF FamilyInv, LinkInv, TypeOK, ShapeOK, FoundOK, Exploring, Descends, Begun
  <2> QED
    BY <2>1, <2>2
<1> DEFINE OpenThen(p) == table'[p].born # 0 /\ table'[p].access # "none"
           KinThen(q, p) == q \in settled' /\ q # p /\ OpenThen(q) /\ table'[q].ppid = p
           RowThen(r) == /\ r.born > 0 /\ r.born <= births'
                         /\ table'[r.pid].born = r.born =>
                              /\ table'[r.pid].ppid \in {r.ppid} \cup NewParents
                              /\ table'[r.pid].access # "none"
                              /\ r.pid \in settled' => table'[r.pid].ppid = r.ppid
           FoundThen(rows, q) ==
             \E i \in DOMAIN rows : rows[i].pid = q /\ rows[i].born = table'[q].born
<1>7. ASSUME NEW p \in lived'
      PROVE  /\ table'[p].born = table[p].born
             /\ OpenThen(p) <=> Openable(p)
  <2>1. table'[p].born = table[p].born /\ table'[p].access = table[p].access
    BY <1>2, KernelKeeps
  <2> QED
    BY <2>1 DEF Openable, Alive
<1>8. ASSUME NEW r \in Rows, RowOf(r)
      PROVE  RowThen(r)
  <2>1. r.pid \in Pids /\ r.born \in Nat /\ r.born > 0 /\ r.born <= births
    BY <1>8 DEF Rows, RowOf
  <2>2. births' \in Nat /\ births <= births'
    BY <1>2, KernelBirths
  <2>3. ASSUME table'[r.pid].born = r.born
        PROVE  /\ table'[r.pid].ppid \in {r.ppid} \cup NewParents
               /\ table'[r.pid].access # "none"
               /\ r.pid \in settled' => table'[r.pid].ppid = r.ppid
    <3>1. table[r.pid] \in Processes
      BY <1>2, <2>1
    <3>2. table[r.pid].born = r.born
      <4>1. /\ table[r.pid].born \in Nat
            /\ \/ table'[r.pid].born \in {table[r.pid].born, 0}
               \/ table'[r.pid].born = births + 1
        BY <1>2, <2>1, <3>1, KernelBirths DEF Processes
      <4> QED
        BY <1>2, <2>1, <2>3, <4>1
    <3>3. /\ table'[r.pid].access = table[r.pid].access
          /\ table'[r.pid].ppid \in {table[r.pid].ppid} \cup NewParents
      <4>1. table[r.pid].born # 0 /\ table'[r.pid].born # 0
        BY <2>1, <2>3, <3>2
      <4> QED
        BY <1>2, <2>1, <4>1, KernelSameProcess
    <3>4. /\ table[r.pid].ppid \in {r.ppid} \cup NewParents
          /\ table[r.pid].access # "none"
          /\ r.pid \in settled => table[r.pid].ppid = r.ppid
      BY <1>8, <3>2 DEF RowOf
    <3>5. r.pid \in settled' =>
            r.pid \in settled /\ table'[r.pid].ppid = table[r.pid].ppid
      BY <1>3
    <3> QED
      BY <3>3, <3>4, <3>5
  <2> QED
    BY <1>2, <2>1, <2>2, <2>3
<1>9. RowsOK' /\ RowsLinked'
  <2>1. /\ \A i \in DOMAIN out : out[i] \in Rows
        /\ \A i \in DOMAIN children : children[i] \in Rows
    BY <1>2, LenProperties, ElementOfSeq
  <2>2. OutRows'
    <3> SUFFICES ASSUME asked = "descendants", NEW i \in DOMAIN out
                 PROVE  RowThen(out[i]) /\ out[i].ppid \in visited
                        /\ (Exploring => out[i].ppid # current)
      BY <1>1 DEF OutRows, Exploring, RowOf
    <3> HIDE DEF RowThen
    <3> QED
      BY <1>8, <2>1 DEF FamilyInv, LinkInv, RowsOK, OutRows
  <2>3. ChildrenRows'
    <3> SUFFICES ASSUME NEW i \in DOMAIN children
                 PROVE  /\ RowThen(children[i]) /\ children[i].ppid = current
                        /\ children[i].pid \notin unread /\ children[i].pid # InitPid
      BY <1>1 DEF ChildrenRows, RowOf
    <3> HIDE DEF RowThen
    <3> QED
      BY <1>8, <2>1 DEF FamilyInv, LinkInv, RowsOK, ChildrenRows
  <2>4. OutRepeats' /\ ChildrenDistinct' /\ ChildrenRepeat' /\ RowsLinked'
    BY <1>1 DEF FamilyInv, LinkInv, RowsOK, OutRepeats, ChildrenDistinct, ChildrenRepeat,
       SameProcess, Adopted, RowsLinked
  <2> QED
    BY <2>2, <2>3, <2>4 DEF RowsOK
<1>10. ASSUME NEW p \in lived', OpenThen(p)
       PROVE  Stays(p) /\ \A q \in Pids : KinThen(q, p) => Kin(q, p)
  <2>1. Stays(p)
    BY <1>3, <1>7, <1>10 DEF Stays
  <2>2. ASSUME NEW q \in Pids, KinThen(q, p)
        PROVE  Kin(q, p)
    <3> HIDE DEF OpenThen
    <3> QED
      BY <1>3, <1>7, <1>10, <2>2 DEF Kin
  <2> QED
    BY <2>1, <2>2
<1>11. ASSUME NEW rows, NEW q \in lived', Reported(rows, q)
       PROVE  FoundThen(rows, q)
  BY <1>7, <1>11 DEF Reported
<1>12. ExploredOK'
  <2> SUFFICES ASSUME Descends, NEW p \in visited, p \in lived', OpenThen(p),
                      ~(Exploring /\ p = current), NEW q \in Pids, KinThen(q, p)
               PROVE  FoundThen(out, q)
    BY <1>1 DEF ExploredOK, Exploring, Reported, Stays, Kin, Openable, Alive, Descends, Begun
  <2>1. q \in lived'
    BY <1>3
  <2> HIDE DEF OpenThen, KinThen, FoundThen
  <2>2. Stays(p) /\ Kin(q, p)
    BY <1>10
  <2>3. Reported(out, q)
    BY <2>2 DEF FamilyInv, ExploredOK
  <2> QED
    BY <1>11, <2>1, <2>3
<1>13. ExploringOK'
  <2> SUFFICES ASSUME wpc = "read", current \in lived', OpenThen(current),
                      NEW q \in Pids, KinThen(q, current), q \notin unread
               PROVE  FoundThen(children, q)
    BY <1>1 DEF ExploringOK, Reported, Stays, Kin, Openable, Alive
  <2>1. q \in lived'
    BY <1>3
  <2> HIDE DEF OpenThen, KinThen, FoundThen
  <2>2. Stays(current) /\ Kin(q, current)
    BY <1>10
  <2>3. Reported(children, q)
    BY <2>2 DEF FamilyInv, ExploringOK
  <2> QED
    BY <1>11, <2>1, <2>3
<1>14. PendingOK' /\ StillOK'
  BY <1>1, <1>4 DEF FamilyInv, PendingOK, StillOK, Descends, Begun
<1>15. ASSUME root \in settled', OpenThen(root)
       PROVE  root \in settled /\ Openable(root) /\ table'[root].ppid = table[root].ppid
  <2> HIDE DEF OpenThen
  <2> QED
    BY <1>3, <1>7, <1>15
<1>16. ParentOK'
  <2> SUFFICES ASSUME wpc = "parent", root \in settled', OpenThen(root)
               PROVE  current = table'[root].ppid /\ current \notin {0, InitPid}
    BY <1>1 DEF ParentOK, Openable, Alive
  <2> HIDE DEF OpenThen
  <2> QED
    BY <1>15 DEF FamilyInv, ParentOK
<1>17. SettledParentReported'
  <2> DEFINE parent == table'[root].ppid
  <2> SUFFICES ASSUME wpc = "idle", asked = "parent", root \in settled', OpenThen(root)
               PROVE  IF parent \notin {0, InitPid} /\ OpenThen(parent)
                      THEN Len(out) = 1 /\ out[1].pid = parent
                           /\ out[1].born = table'[parent].born
                      ELSE out = <<>>
    BY <1>1 DEF SettledParentReported, Openable, Alive
  <2>1. /\ root \in settled /\ Openable(root) /\ parent = table[root].ppid
        /\ parent \in lived' \cup {0}
    <3> HIDE DEF OpenThen
    <3> QED
      BY <1>5, <1>15
  <2>2. IF parent \notin {0, InitPid} /\ Openable(parent)
        THEN Len(out) = 1 /\ out[1].pid = parent /\ out[1].born = table[parent].born
        ELSE out = <<>>
    BY <2>1 DEF FamilyInv, SettledParentReported
  <2>3. parent \notin {0, InitPid} =>
          table'[parent].born = table[parent].born /\ (OpenThen(parent) <=> Openable(parent))
    <3> HIDE DEF OpenThen, parent
    <3> QED
      BY <1>7, <2>1
  <2> HIDE DEF parent, OpenThen
  <2> QED
    BY <2>2, <2>3
<1> QED
  BY <1>6, <1>9, <1>12, <1>13, <1>14, <1>16, <1>17 DEF FamilyInv, LinkInv

(***************************************************************************)
(* The steps of the walk.  A PID is taken from the stack: if it is new it  *)
(* is explored, and no row found so far is under it.                       *)
(***************************************************************************)
LEMMA PopStep ==
  ASSUME FamilyInv, Pop
  PROVE  FamilyInv'
<1> USE ProcTableAssumption
<1>1. /\ wpc = "pop" /\ stack # <<>> /\ asked = "descendants" /\ children = <<>>
      /\ asked' = asked /\ root' = root /\ unread' = unread /\ children' = children
      /\ out' = out /\ stack' = Front(stack) /\ UNCHANGED procVars
      /\ Begun /\ Descends /\ ~Exploring
  BY DEF Pop, FamilyInv, LinkInv, ShapeOK, Exploring, Begun, Descends
<1>2. /\ TableOK' /\ table' = table /\ births' = births /\ lived' = lived
      /\ settled' = settled
      /\ (Quiet' <=> Quiet)
      /\ \A p : (Openable(p)' <=> Openable(p)) /\ (Stays(p)' <=> Stays(p))
      /\ \A p, q : Kin(q, p)' <=> Kin(q, p)
      /\ \A r : (RowOf(r)' <=> RowOf(r)) /\ (RowNow(r)' <=> RowNow(r))
  BY <1>1, SameTable DEF FamilyInv, LinkInv
<1>3. /\ stack \in Seq(Pids) /\ visited \subseteq Pids /\ current \in Pids
      /\ wpc' \in {"pop", "exists"} /\ ProcTypeOK' /\ Begun'
  BY <1>1 DEF FamilyInv, LinkInv, TypeOK, Pop, ProcTypeOK, procVars, Begun
<1>4. /\ Front(stack) \in Seq(Pids) /\ Last(stack) \in Pids
      /\ Len(stack) \in DOMAIN stack /\ stack[Len(stack)] = Last(stack)
      /\ \A i \in DOMAIN Front(stack) : i \in DOMAIN stack /\ Front(stack)[i] = stack[i]
      /\ \A i \in DOMAIN stack : stack[i] = Last(stack)
           \/ (i \in DOMAIN Front(stack) /\ Front(stack)[i] = stack[i])
  BY <1>1, <1>3, Popped
<1>5. visited' = visited \cup {Last(stack)}
  BY DEF Pop
<1>6. root \notin visited => Last(stack) = root /\ out = <<>>
  BY <1>1, <1>4 DEF FamilyInv, LinkInv, ShapeOK
<1>7. Exploring' => /\ current' = Last(stack) /\ Last(stack) \notin visited
  BY <1>1 DEF Pop, Exploring
<1>8. TypeOK'
  BY <1>1, <1>3, <1>4, <1>5, <1>7 DEF FamilyInv, LinkInv, TypeOK, Pop
<1>9. ShapeOK'
  BY <1>1, <1>3, <1>5, <1>6, <1>7 DEF ShapeOK, Exploring
<1>10. FoundOK'
  <2>1. \A i \in DOMAIN stack' :
          stack'[i] = root \/ \E j \in DOMAIN out : out[j].pid = stack'[i]
    BY <1>1, <1>4 DEF FamilyInv, LinkInv, FoundOK
  <2>2. Last(stack) = root \/ \E j \in DOMAIN out : out[j].pid = Last(stack)
    BY <1>4 DEF FamilyInv, LinkInv, FoundOK
  <2>3. \A i \in DOMAIN out : out[i].pid # InitPid
    BY <1>1 DEF FamilyInv, LinkInv, FoundOK
  <2>4. Exploring' /\ Last(stack) \in {root, InitPid} => out = <<>>
    BY <1>6, <1>7, <2>2, <2>3
  <2> QED
    BY <1>1, <1>7, <2>1, <2>2, <2>3, <2>4 DEF FoundOK
<1>11. RowsOK' /\ RowsLinked'
  <2>1. OutRows'
    <3> SUFFICES ASSUME NEW i \in DOMAIN out
                 PROVE  /\ RowOf(out[i]) /\ out[i].ppid \in visited'
                        /\ (Exploring' => out[i].ppid # current')
      BY <1>1, <1>2 DEF OutRows
    <3>1. RowOf(out[i]) /\ out[i].ppid \in visited
      BY <1>1 DEF FamilyInv, LinkInv, RowsOK, OutRows
    <3> QED
      BY <1>5, <1>7, <3>1
  <2>2. ChildrenRows' /\ OutRepeats' /\ ChildrenDistinct' /\ ChildrenRepeat' /\ RowsLinked'
    BY <1>1 DEF FamilyInv, LinkInv, RowsOK, ChildrenRows, OutRepeats, ChildrenDistinct,
       ChildrenRepeat, SameProcess, Adopted, RowsLinked
  <2> QED
    BY <2>1, <2>2 DEF RowsOK
<1>12. ExploredOK'
  <2> SUFFICES ASSUME NEW p \in visited', Stays(p), ~(Exploring' /\ p = current'),
                      NEW q \in Pids, Kin(q, p)
               PROVE  Reported(out, q)
    BY <1>1, <1>2 DEF ExploredOK, Reported
  <2>1. p \in visited
    BY <1>1, <1>5 DEF Pop, Exploring
  <2> QED
    BY <1>1, <2>1 DEF FamilyInv, ExploredOK
<1>13. PendingOK'
  <2> SUFFICES ASSUME NEW i \in DOMAIN out
               PROVE  out[i].pid \in visited' \/ \E j \in DOMAIN stack' : stack'[j] = out[i].pid
    BY <1>1 DEF PendingOK
  <2>1. out[i].pid \in visited \/ \E j \in DOMAIN stack : stack[j] = out[i].pid
    BY <1>1 DEF FamilyInv, PendingOK
  <2> QED
    BY <1>1, <1>4, <1>5, <2>1
<1>14. ExploringOK' /\ ParentOK' /\ StillOK' /\ SettledParentReported'
  BY <1>1, <1>2, <1>3 DEF FamilyInv, ExploringOK, ParentOK, StillOK, SettledParentReported
<1> QED
  BY <1>2, <1>8, <1>9, <1>10, <1>11, <1>12, <1>13, <1>14 DEF FamilyInv, LinkInv

\* A PID is given up without its children being read: it is not readable.
LEMMA ParentExistsStep ==
  ASSUME FamilyInv, ParentExists
  PROVE  FamilyInv'
<1>1. /\ wpc = "exists" /\ asked = "descendants" /\ children = <<>>
      /\ UNCHANGED <<asked, root, stack, visited, current, unread, children, out>>
      /\ wpc' = (IF Alive(current) THEN "open" ELSE "pop")
      /\ UNCHANGED procVars /\ Begun /\ Descends /\ Exploring
  BY DEF ParentExists, FamilyInv, LinkInv, ShapeOK, Exploring, Begun, Descends
<1>2. /\ TableOK' /\ table' = table /\ births' = births /\ lived' = lived
      /\ settled' = settled
      /\ (Quiet' <=> Quiet)
      /\ \A p : (Openable(p)' <=> Openable(p)) /\ (Stays(p)' <=> Stays(p))
      /\ \A p, q : Kin(q, p)' <=> Kin(q, p)
      /\ \A r : (RowOf(r)' <=> RowOf(r)) /\ (RowNow(r)' <=> RowNow(r))
  BY <1>1, SameTable DEF FamilyInv, LinkInv
<1>3. TypeOK' /\ ShapeOK' /\ FoundOK'
  BY <1>1 DEF FamilyInv, LinkInv, TypeOK, ProcTypeOK, procVars, ShapeOK, FoundOK, Exploring,
     Descends
<1>4. RowsOK' /\ RowsLinked'
  BY <1>1, <1>2 DEF FamilyInv, LinkInv, RowsOK, OutRows, ChildrenRows, OutRepeats,
     ChildrenDistinct, ChildrenRepeat, SameProcess, Adopted, RowsLinked
<1>5. ExploredOK'
  <2> SUFFICES ASSUME NEW p \in visited, Stays(p), ~(Exploring' /\ p = current),
                      NEW q \in Pids, Kin(q, p)
               PROVE  Reported(out, q)
    BY <1>1, <1>2 DEF ExploredOK, Reported
  <2>1. p # current
    BY <1>1 DEF Stays, Openable, Exploring
  <2> QED
    BY <1>1, <2>1 DEF FamilyInv, ExploredOK
<1>6. PendingOK' /\ ExploringOK' /\ ParentOK' /\ StillOK' /\ SettledParentReported'
  BY <1>1, <1>2 DEF FamilyInv, PendingOK, ExploringOK, ParentOK, StillOK, Descends,
     SettledParentReported
<1> QED
  BY <1>2, <1>3, <1>4, <1>5, <1>6 DEF FamilyInv, LinkInv

\* The parent's directory is opened, or the PID is given up.
LEMMA ParentOpenStep ==
  ASSUME FamilyInv, ParentOpen
  PROVE  FamilyInv'
<1>1. /\ wpc = "open" /\ asked = "descendants" /\ children = <<>>
      /\ UNCHANGED <<asked, root, stack, visited, current, unread, children, out>>
      /\ wpc' = (IF Openable(current) THEN "list" ELSE "pop")
      /\ UNCHANGED procVars /\ Begun /\ Descends /\ Exploring
  BY DEF ParentOpen, FamilyInv, LinkInv, ShapeOK, Exploring, Begun, Descends
<1>2. /\ TableOK' /\ table' = table /\ births' = births /\ lived' = lived
      /\ settled' = settled
      /\ (Quiet' <=> Quiet)
      /\ \A p : (Openable(p)' <=> Openable(p)) /\ (Stays(p)' <=> Stays(p))
      /\ \A p, q : Kin(q, p)' <=> Kin(q, p)
      /\ \A r : (RowOf(r)' <=> RowOf(r)) /\ (RowNow(r)' <=> RowNow(r))
  BY <1>1, SameTable DEF FamilyInv, LinkInv
<1>3. TypeOK' /\ ShapeOK' /\ FoundOK'
  BY <1>1 DEF FamilyInv, LinkInv, TypeOK, ProcTypeOK, procVars, ShapeOK, FoundOK, Exploring,
     Descends
<1>4. RowsOK' /\ RowsLinked'
  BY <1>1, <1>2 DEF FamilyInv, LinkInv, RowsOK, OutRows, ChildrenRows, OutRepeats,
     ChildrenDistinct, ChildrenRepeat, SameProcess, Adopted, RowsLinked, Exploring
<1>5. ExploredOK'
  <2> SUFFICES ASSUME NEW p \in visited, Stays(p), ~(Exploring' /\ p = current),
                      NEW q \in Pids, Kin(q, p)
               PROVE  Reported(out, q)
    BY <1>1, <1>2 DEF ExploredOK, Reported
  <2>1. p # current
    BY <1>1 DEF Stays, Exploring
  <2> QED
    BY <1>1, <2>1 DEF FamilyInv, ExploredOK
<1>6. StillOK'
  <2> SUFFICES ASSUME Quiet
               PROVE  /\ \A i \in DOMAIN out : RowNow(out[i])
                      /\ wpc' = "list" \/ out # <<>> => Openable(root)
    BY <1>1, <1>2 DEF StillOK
  <2>1. /\ \A i \in DOMAIN out : RowNow(out[i])
        /\ out # <<>> => Openable(root)
    BY <1>1 DEF FamilyInv, StillOK
  <2>2. current = root \/ out # <<>>
    BY <1>1 DEF FamilyInv, LinkInv, FoundOK
  <2> QED
    BY <1>1, <2>1, <2>2
<1>7. ExploringOK' /\ PendingOK' /\ ParentOK' /\ SettledParentReported'
  BY <1>1 DEF FamilyInv, ExploringOK, PendingOK, ParentOK, Descends, SettledParentReported
<1> QED
  BY <1>2, <1>3, <1>4, <1>5, <1>6, <1>7 DEF FamilyInv, LinkInv

\* The table is listed, entry by entry, and in the end every survivor is unread.
LEMMA ListStep ==
  ASSUME FamilyInv, ListEnd \/ \E q \in Pids : ListEntry(q)
  PROVE  FamilyInv'
<1>1. /\ wpc = "list" /\ asked = "descendants" /\ children = <<>>
      /\ UNCHANGED <<asked, root, stack, visited, current, children, out>>
      /\ wpc' \in {"list", "read"} /\ unread' \subseteq Pids
      /\ wpc' = "read" => lived \subseteq unread'
      /\ UNCHANGED procVars /\ Begun /\ Descends /\ Exploring
  BY DEF ListEnd, ListEntry, FamilyInv, LinkInv, TypeOK, ShapeOK, Exploring, Begun, Descends
<1>2. /\ TableOK' /\ table' = table /\ births' = births /\ lived' = lived
      /\ settled' = settled
      /\ (Quiet' <=> Quiet)
      /\ \A p : (Openable(p)' <=> Openable(p)) /\ (Stays(p)' <=> Stays(p))
      /\ \A p, q : Kin(q, p)' <=> Kin(q, p)
      /\ \A r : (RowOf(r)' <=> RowOf(r)) /\ (RowNow(r)' <=> RowNow(r))
  BY <1>1, SameTable DEF FamilyInv, LinkInv
<1>3. TypeOK' /\ ShapeOK' /\ FoundOK'
  BY <1>1 DEF FamilyInv, LinkInv, TypeOK, ProcTypeOK, procVars, ShapeOK, FoundOK, Exploring,
     Descends
<1>4. RowsOK' /\ RowsLinked'
  BY <1>1, <1>2 DEF FamilyInv, LinkInv, RowsOK, OutRows, ChildrenRows, OutRepeats,
     ChildrenDistinct, ChildrenRepeat, SameProcess, Adopted, RowsLinked, Exploring
<1>5. ExploringOK'
  <2> SUFFICES ASSUME wpc' = "read", NEW q \in Pids, Kin(q, current)
               PROVE  q \in unread'
    BY <1>1, <1>2 DEF ExploringOK
  <2>1. q \in lived
    BY DEF Kin, FamilyInv, LinkInv, TableOK, LivedAlive
  <2> QED
    BY <1>1, <2>1
<1>6. ExploredOK' /\ StillOK'
  BY <1>1, <1>2 DEF FamilyInv, ExploredOK, StillOK, Reported, Exploring, Descends, Begun
<1>7. PendingOK' /\ ParentOK' /\ SettledParentReported'
  BY <1>1 DEF FamilyInv, PendingOK, ParentOK, Descends, SettledParentReported
<1> QED
  BY <1>2, <1>3, <1>4, <1>5, <1>6, <1>7 DEF FamilyInv, LinkInv

\* A child is read.  If it has a row already, that row is below another PID than
\* the one explored, so the process was adopted, and the one explored is its
\* adopter: not the root and not init, for then there would be no rows yet.
LEMMA ReadChildStep ==
  ASSUME FamilyInv, NEW q \in Pids, ReadChild(q)
  PROVE  FamilyInv'
<1> USE ProcTableAssumption
<1>1. /\ wpc = "read" /\ asked = "descendants" /\ q \in unread
      /\ UNCHANGED <<wpc, asked, root, stack, visited, current, out>>
      /\ unread' = unread \ {q}
      /\ UNCHANGED procVars /\ Begun /\ Descends /\ Exploring
  BY DEF ReadChild, FamilyInv, LinkInv, ShapeOK, Exploring, Begun, Descends
<1>2. /\ TableOK' /\ table' = table /\ births' = births /\ lived' = lived
      /\ settled' = settled
      /\ (Quiet' <=> Quiet)
      /\ \A p : (Openable(p)' <=> Openable(p)) /\ (Stays(p)' <=> Stays(p))
      /\ \A x, p : Kin(x, p)' <=> Kin(x, p)
      /\ \A r : (RowOf(r)' <=> RowOf(r)) /\ (RowNow(r)' <=> RowNow(r))
  BY <1>1, SameTable DEF FamilyInv, LinkInv
<1>3. /\ children \in Seq(Rows) /\ table \in [Pids -> Processes] /\ births \in Nat
      /\ current \in Pids /\ table[q] \in Processes
  BY DEF FamilyInv, LinkInv, TypeOK, ProcTypeOK
<1>4. /\ ShapeOK' /\ FoundOK' /\ PendingOK' /\ ParentOK' /\ SettledParentReported'
      /\ OutRepeats' /\ OutRows' /\ RowsLinked'
  BY <1>1, <1>2 DEF FamilyInv, LinkInv, ShapeOK, FoundOK, PendingOK, ParentOK,
     SettledParentReported, RowsOK, OutRepeats, SameProcess, Adopted, OutRows, RowsLinked,
     Exploring, Descends, Begun
<1>5. ExploredOK'
  BY <1>1, <1>2 DEF FamilyInv, ExploredOK, Reported, Exploring, Descends, Begun
<1>6. CASE q # current /\ Openable(q) /\ table[q].ppid = current
  <2> DEFINE r == RowAt(q)
  <2>1. r \in Rows /\ r.pid = q /\ r.born = table[q].born /\ r.ppid = current
    BY <1>3, <1>6 DEF RowAt, Rows, Processes
  <2>2. children' = Append(children, r)
    BY <1>6 DEF ReadChild
  <2>3. /\ Append(children, r) \in Seq(Rows)
        /\ DOMAIN children = 1 .. Len(children) /\ Len(children) \in Nat
        /\ \A i \in DOMAIN children :
             i \in DOMAIN Append(children, r) /\ Append(children, r)[i] = children[i]
        /\ Len(children) + 1 \in DOMAIN Append(children, r)
        /\ Append(children, r)[Len(children) + 1] = r
        /\ \A i \in DOMAIN Append(children, r) :
             i \in DOMAIN children \/ i = Len(children) + 1
    <3> HIDE DEF r
    <3> QED
      BY <1>3, <2>1, Pushed
  <2>4. RowOf(r)
    <3>1. table[q].born # 0 /\ table[q].born \in Nat /\ table[q].access # "none"
      BY <1>3, <1>6 DEF Openable, Alive, Processes
    <3>2. table[q].born <= births
      BY DEF FamilyInv, LinkInv, TableOK, BirthsBounded
    <3> QED
      BY <1>6, <2>1, <3>1, <3>2 DEF RowOf
  <2>5. q # InitPid
    BY <1>3, <1>6 DEF FamilyInv, LinkInv, TableOK, InitRoot
  <2> HIDE DEF r
  <2>6. TypeOK'
    BY <1>1, <2>2, <2>3 DEF FamilyInv, LinkInv, TypeOK, ProcTypeOK, procVars
  <2>7. ChildrenRows'
    <3> SUFFICES ASSUME NEW i \in DOMAIN children'
                 PROVE  /\ RowOf(children'[i]) /\ children'[i].ppid = current
                        /\ children'[i].pid \notin unread' /\ children'[i].pid # InitPid
      BY <1>1, <1>2 DEF ChildrenRows
    <3>1. CASE i \in DOMAIN children
      BY <1>1, <2>2, <2>3, <3>1 DEF FamilyInv, LinkInv, RowsOK, ChildrenRows
    <3>2. CASE i = Len(children) + 1
      BY <1>1, <2>1, <2>2, <2>3, <2>4, <2>5, <3>2
    <3> QED
      BY <2>2, <2>3, <3>1, <3>2
  <2>8. ChildrenDistinct'
    <3>1. \A i \in DOMAIN children : children[i].pid # q
      BY <1>1 DEF FamilyInv, LinkInv, RowsOK, ChildrenRows
    <3>2. \A i, j \in DOMAIN children : children[i].pid = children[j].pid => i = j
      BY DEF FamilyInv, LinkInv, RowsOK, ChildrenDistinct
    <3> QED
      BY <2>1, <2>2, <2>3, <3>1, <3>2 DEF ChildrenDistinct
  <2>9. ChildrenRepeat'
    <3>1. ASSUME NEW i \in DOMAIN out, SameProcess(out[i], r)
          PROVE  Adopted(out[i], r)
      <4>1. out[i].pid = q /\ out[i].born = table[q].born
        BY <2>1, <3>1 DEF SameProcess
      <4>2. RowOf(out[i]) /\ out[i].ppid # current
        BY <1>1 DEF FamilyInv, LinkInv, RowsOK, OutRows
      <4>3. current \in NewParents
        BY <1>6, <4>1, <4>2 DEF RowOf
      <4>4. current \notin {root, InitPid}
        <5>1. out # <<>>
          OBVIOUS
        <5> QED
          BY <1>1, <5>1 DEF FamilyInv, LinkInv, FoundOK
      <4> QED
        BY <2>1, <4>2, <4>3, <4>4 DEF Adopted, NewParents
    <3>2. \A i \in DOMAIN out, k \in DOMAIN children :
            SameProcess(out[i], children[k]) => Adopted(out[i], children[k])
      BY DEF FamilyInv, LinkInv, RowsOK, ChildrenRepeat
    <3>3. ASSUME NEW i \in DOMAIN out, NEW k \in DOMAIN children',
                 SameProcess(out[i], children'[k])
          PROVE  Adopted(out[i], children'[k])
      <4>1. CASE k \in DOMAIN children
        BY <2>2, <2>3, <3>2, <3>3, <4>1
      <4>2. CASE k = Len(children) + 1
        BY <2>2, <2>3, <3>1, <3>3, <4>2
      <4> QED
        BY <2>2, <2>3, <4>1, <4>2
    <3> QED
      BY <1>1, <3>3 DEF ChildrenRepeat, SameProcess, Adopted
  <2>10. ExploringOK'
    <3> SUFFICES ASSUME Stays(current), NEW x \in Pids, Kin(x, current), x \notin unread'
                 PROVE  Reported(children', x)
      BY <1>1, <1>2 DEF ExploringOK, Reported
    <3>1. CASE x = q
      BY <2>1, <2>2, <2>3, <3>1 DEF Reported
    <3>2. CASE x # q
      <4>1. Reported(children, x)
        BY <1>1, <3>2 DEF FamilyInv, ExploringOK
      <4> QED
        BY <2>2, <2>3, <4>1 DEF Reported
    <3> QED
      BY <3>1, <3>2
  <2>11. StillOK'
    <3> SUFFICES ASSUME Quiet
                 PROVE  /\ \A i \in DOMAIN out : RowNow(out[i])
                        /\ \A i \in DOMAIN children' : RowNow(children'[i])
                        /\ Openable(root)
      BY <1>1, <1>2 DEF StillOK
    <3>1. /\ \A i \in DOMAIN out : RowNow(out[i])
          /\ \A i \in DOMAIN children : RowNow(children[i])
          /\ Openable(root)
      BY <1>1 DEF FamilyInv, StillOK
    <3>2. RowNow(r)
      BY <1>6, <2>1 DEF RowNow
    <3> QED
      BY <2>2, <2>3, <3>1, <3>2
  <2> QED
    BY <1>2, <1>4, <1>5, <2>6, <2>7, <2>8, <2>9, <2>10, <2>11 DEF FamilyInv, LinkInv, RowsOK
<1>7. CASE ~(q # current /\ Openable(q) /\ table[q].ppid = current)
  <2>1. children' = children
    BY <1>7 DEF ReadChild
  <2>2. ~Kin(q, current)
    BY <1>7 DEF Kin
  <2>3. TypeOK'
    BY <1>1, <2>1 DEF FamilyInv, LinkInv, TypeOK, ProcTypeOK, procVars
  <2>4. ChildrenRows' /\ ChildrenDistinct' /\ ChildrenRepeat'
    BY <1>1, <1>2, <2>1 DEF FamilyInv, LinkInv, RowsOK, ChildrenRows, ChildrenDistinct,
       ChildrenRepeat, SameProcess, Adopted
  <2>5. ExploringOK' /\ StillOK'
    BY <1>1, <1>2, <2>1, <2>2 DEF FamilyInv, ExploringOK, StillOK, Reported, Descends, Begun
  <2> QED
    BY <1>2, <1>4, <1>5, <2>3, <2>4, <2>5 DEF FamilyInv, LinkInv, RowsOK
<1> QED
  BY <1>6, <1>7

\* In all rows, those of the PID explored now included, a process comes again
\* only when it was adopted.
LEMMA RowsRepeat ==
  ASSUME LinkInv, NEW i \in DOMAIN (out \o children), NEW j \in DOMAIN (out \o children),
         i < j, SameProcess((out \o children)[i], (out \o children)[j])
  PROVE  Adopted((out \o children)[i], (out \o children)[j])
<1> DEFINE o == out \o children
<1>1. out \in Seq(Rows) /\ children \in Seq(Rows)
  BY DEF LinkInv, TypeOK
<1>2. /\ DOMAIN out = 1 .. Len(out) /\ Len(out) \in Nat
      /\ DOMAIN children = 1 .. Len(children)
      /\ \A l \in DOMAIN out : o[l] = out[l]
      /\ \A k \in DOMAIN children : o[Len(out) + k] = children[k]
      /\ \A l \in DOMAIN o : l \in DOMAIN out \/ \E k \in DOMAIN children : l = Len(out) + k
  BY <1>1, Joined
<1>3. /\ \A l, k \in DOMAIN out :
           l < k /\ SameProcess(out[l], out[k]) => Adopted(out[l], out[k])
      /\ \A l, k \in DOMAIN children : children[l].pid = children[k].pid => l = k
      /\ \A l \in DOMAIN out, k \in DOMAIN children :
           SameProcess(out[l], children[k]) => Adopted(out[l], children[k])
  BY DEF LinkInv, RowsOK, OutRepeats, ChildrenDistinct, ChildrenRepeat
<1>4. i \in DOMAIN o /\ j \in DOMAIN o /\ SameProcess(o[i], o[j])
  OBVIOUS
<1>5. Adopted(o[i], o[j])
  <2> HIDE DEF o
  <2>1. CASE i \in DOMAIN out /\ j \in DOMAIN out
    BY <1>2, <1>3, <1>4, <2>1
  <2>2. ASSUME i \in DOMAIN out, NEW k \in DOMAIN children, j = Len(out) + k
        PROVE  Adopted(o[i], o[j])
    <3>1. o[i] = out[i] /\ o[j] = children[k]
      BY <1>2, <2>2
    <3> QED
      BY <1>3, <1>4, <2>2, <3>1
  <2>3. ASSUME NEW k \in DOMAIN children, i = Len(out) + k, j \in DOMAIN out
        PROVE  FALSE
    BY <1>2, <2>3
  <2>4. ASSUME NEW k \in DOMAIN children, i = Len(out) + k,
               NEW l \in DOMAIN children, j = Len(out) + l
        PROVE  FALSE
    <3>1. o[i] = children[k] /\ o[j] = children[l]
      BY <1>2, <2>4
    <3>2. k = l
      BY <1>3, <1>4, <3>1 DEF SameProcess
    <3> QED
      BY <1>2, <2>4, <3>2
  <2> QED
    BY <1>2, <1>4, <2>1, <2>2, <2>3, <2>4
<1> QED
  BY <1>5

\* The children become rows and go on the stack: the PID explored is done.
LEMMA TakeChildrenStep ==
  ASSUME FamilyInv, TakeChildren
  PROVE  FamilyInv'
<1> USE ProcTableAssumption
<1> DEFINE o == out \o children
           s == stack \o PidsOf(children)
<1>1. /\ wpc = "read" /\ asked = "descendants" /\ unread = {}
      /\ UNCHANGED <<asked, root, visited, current, unread>>
      /\ wpc' = "pop" /\ children' = <<>> /\ out' = o /\ stack' = s
      /\ UNCHANGED procVars /\ Begun /\ Descends /\ Exploring
      /\ current \in visited /\ root \in visited
  BY DEF TakeChildren, FamilyInv, LinkInv, ShapeOK, Exploring, Begun, Descends
<1>2. /\ TableOK' /\ table' = table /\ births' = births /\ lived' = lived
      /\ settled' = settled
      /\ (Quiet' <=> Quiet)
      /\ \A p : (Openable(p)' <=> Openable(p)) /\ (Stays(p)' <=> Stays(p))
      /\ \A q, p : Kin(q, p)' <=> Kin(q, p)
      /\ \A r : (RowOf(r)' <=> RowOf(r)) /\ (RowNow(r)' <=> RowNow(r))
  BY <1>1, SameTable DEF FamilyInv, LinkInv
<1>3. out \in Seq(Rows) /\ children \in Seq(Rows) /\ stack \in Seq(Pids)
  BY DEF FamilyInv, LinkInv, TypeOK
<1>4. /\ o \in Seq(Rows)
      /\ DOMAIN out = 1 .. Len(out) /\ Len(out) \in Nat
      /\ DOMAIN children = 1 .. Len(children) /\ Len(children) \in Nat
      /\ \A i \in DOMAIN out : i \in DOMAIN o /\ o[i] = out[i]
      /\ \A k \in DOMAIN children : Len(out) + k \in DOMAIN o /\ o[Len(out) + k] = children[k]
      /\ \A i \in DOMAIN o : i \in DOMAIN out \/ \E k \in DOMAIN children : i = Len(out) + k
  BY <1>3, Joined
<1>5. /\ s \in Seq(Pids)
      /\ \A i \in DOMAIN stack : i \in DOMAIN s /\ s[i] = stack[i]
      /\ \A k \in DOMAIN children : Len(stack) + k \in DOMAIN s
                                    /\ s[Len(stack) + k] = children[k].pid
      /\ \A i \in DOMAIN s : i \in DOMAIN stack \/ \E k \in DOMAIN children : i = Len(stack) + k
  <2> DEFINE c == PidsOf(children)
  <2>1. DOMAIN children = 1 .. Len(children) /\ Len(children) \in Nat
        /\ \A i \in 1 .. Len(children) : children[i] \in Rows
    BY <1>3, LenProperties, ElementOfSeq
  <2>2. \A i \in 1 .. Len(children) : children[i].pid \in Pids
    BY <2>1 DEF Rows
  <2>3. c = [i \in 1 .. Len(children) |-> children[i].pid]
    BY <2>1 DEF PidsOf
  <2>4. c \in Seq(Pids) /\ DOMAIN c = DOMAIN children
        /\ \A k \in DOMAIN children : c[k] = children[k].pid
    BY <2>1, <2>2, <2>3
  <2>5. s = stack \o c
    OBVIOUS
  <2> HIDE DEF c, s
  <2>6. /\ stack \o c \in Seq(Pids)
        /\ \A i \in DOMAIN stack : i \in DOMAIN (stack \o c) /\ (stack \o c)[i] = stack[i]
        /\ \A k \in DOMAIN c : /\ Len(stack) + k \in DOMAIN (stack \o c)
                               /\ (stack \o c)[Len(stack) + k] = c[k]
        /\ \A i \in DOMAIN (stack \o c) :
             i \in DOMAIN stack \/ \E k \in DOMAIN c : i = Len(stack) + k
    BY <1>3, <2>4, Joined
  <2> QED
    BY <2>4, <2>5, <2>6
<1> HIDE DEF o, s
<1>6. TypeOK' /\ ShapeOK'
  BY <1>1, <1>4, <1>5 DEF FamilyInv, LinkInv, TypeOK, ShapeOK, ProcTypeOK, procVars, Exploring
<1>7. /\ \A i \in DOMAIN out : RowOf(out[i]) /\ out[i].ppid \in visited /\ out[i].pid # InitPid
      /\ \A k \in DOMAIN children : /\ RowOf(children[k]) /\ children[k].ppid = current
                                    /\ children[k].pid # InitPid
  BY <1>1 DEF FamilyInv, LinkInv, RowsOK, OutRows, ChildrenRows, FoundOK
<1>8. FoundOK'
  <2>1. ASSUME NEW i \in DOMAIN s
        PROVE  s[i] = root \/ \E j \in DOMAIN o : o[j].pid = s[i]
    <3>1. CASE i \in DOMAIN stack
      <4>1. stack[i] = root \/ \E j \in DOMAIN out : out[j].pid = stack[i]
        BY <3>1 DEF FamilyInv, LinkInv, FoundOK
      <4> QED
        BY <1>4, <1>5, <3>1, <4>1
    <3>2. ASSUME NEW k \in DOMAIN children, i = Len(stack) + k
          PROVE  \E j \in DOMAIN o : o[j].pid = s[i]
      <4>1. Len(out) + k \in DOMAIN o /\ o[Len(out) + k] = children[k]
        BY <1>4, <3>2
      <4>2. s[i] = children[k].pid
        BY <1>5, <3>2
      <4> QED
        BY <4>1, <4>2
    <3> QED
      BY <1>5, <3>1, <3>2
  <2>2. ASSUME NEW i \in DOMAIN o
        PROVE  o[i].pid # InitPid
    BY <1>4, <1>7
  <2> QED
    BY <1>1, <2>1, <2>2 DEF FoundOK, Exploring
<1>9. RowsOK'
  <2>1. OutRows'
    <3> SUFFICES ASSUME NEW i \in DOMAIN o
                 PROVE  RowOf(o[i]) /\ o[i].ppid \in visited
      BY <1>1, <1>2 DEF OutRows, Exploring
    <3> QED
      BY <1>1, <1>4, <1>7
  <2>2. OutRepeats'
    <3> SUFFICES ASSUME NEW i \in DOMAIN o, NEW j \in DOMAIN o, i < j,
                        SameProcess(o[i], o[j])
                 PROVE  Adopted(o[i], o[j])
      BY <1>1 DEF OutRepeats, SameProcess, Adopted
    <3> QED
      BY RowsRepeat DEF FamilyInv, o
  <2> QED
    BY <1>1, <2>1, <2>2 DEF RowsOK, ChildrenRows, ChildrenDistinct, ChildrenRepeat
<1>10. RowsLinked'
  <2>1. ASSUME NEW i \in DOMAIN o
        PROVE  o[i].ppid = root \/ \E j \in 1 .. i - 1 : o[j].pid = o[i].ppid
    <3>1. CASE i \in DOMAIN out
      <4>1. out[i].ppid = root \/ \E j \in 1 .. i - 1 : out[j].pid = out[i].ppid
        BY <1>1, <3>1 DEF FamilyInv, LinkInv, RowsLinked
      <4>2. \A j \in 1 .. i - 1 : j \in DOMAIN out
        BY <1>4, <3>1
      <4> QED
        BY <1>4, <3>1, <4>1, <4>2
    <3>2. ASSUME NEW k \in DOMAIN children, i = Len(out) + k
          PROVE  o[i].ppid = root \/ \E j \in 1 .. i - 1 : o[j].pid = o[i].ppid
      <4>1. o[i].ppid = current
        BY <1>4, <1>7, <3>2
      <4>2. current = root \/ \E j \in DOMAIN out : out[j].pid = current
        BY <1>1 DEF FamilyInv, LinkInv, FoundOK
      <4>3. \A j \in DOMAIN out : j \in 1 .. i - 1
        BY <1>4, <3>2
      <4> QED
        BY <1>4, <4>1, <4>2, <4>3
    <3> QED
      BY <1>4, <3>1, <3>2
  <2> QED
    BY <1>1, <2>1 DEF RowsLinked
<1>11. ExploredOK'
  <2> SUFFICES ASSUME NEW p \in visited, Stays(p), NEW q \in Pids, Kin(q, p)
               PROVE  Reported(o, q)
    BY <1>1, <1>2 DEF ExploredOK, Reported
  <2>1. CASE p = current
    <3>1. Reported(children, q)
      BY <1>1, <2>1 DEF FamilyInv, ExploringOK
    <3> QED
      BY <1>4, <3>1 DEF Reported
  <2>2. CASE p # current
    <3>1. Reported(out, q)
      BY <1>1, <2>2 DEF FamilyInv, ExploredOK
    <3> QED
      BY <1>4, <3>1 DEF Reported
  <2> QED
    BY <2>1, <2>2
<1>12. PendingOK'
  <2> SUFFICES ASSUME NEW i \in DOMAIN o
               PROVE  o[i].pid \in visited \/ \E j \in DOMAIN s : s[j] = o[i].pid
    BY <1>1 DEF PendingOK
  <2>1. CASE i \in DOMAIN out
    <3>1. out[i].pid \in visited \/ \E j \in DOMAIN stack : stack[j] = out[i].pid
      BY <1>1, <2>1 DEF FamilyInv, PendingOK
    <3> QED
      BY <1>4, <1>5, <2>1, <3>1
  <2>2. ASSUME NEW k \in DOMAIN children, i = Len(out) + k
        PROVE  \E j \in DOMAIN s : s[j] = o[i].pid
    BY <1>4, <1>5, <2>2
  <2> QED
    BY <1>4, <2>1, <2>2
<1>13. StillOK'
  <2> SUFFICES ASSUME Quiet
               PROVE  (\A i \in DOMAIN o : RowNow(o[i])) /\ Openable(root)
    BY <1>1, <1>2 DEF StillOK
  <2>1. /\ \A i \in DOMAIN out : RowNow(out[i])
        /\ \A k \in DOMAIN children : RowNow(children[k])
        /\ Openable(root)
    BY <1>1 DEF FamilyInv, StillOK
  <2> QED
    BY <1>4, <2>1
<1>14. ExploringOK' /\ ParentOK' /\ SettledParentReported'
  BY <1>1 DEF ExploringOK, ParentOK, SettledParentReported
<1> QED
  BY <1>2, <1>6, <1>8, <1>9, <1>10, <1>11, <1>12, <1>13, <1>14 DEF FamilyInv, LinkInv

\* The walk returns, with the table as it is.
LEMMA ReturnStep ==
  ASSUME FamilyInv, Return
  PROVE  FamilyInv'
<1>1. /\ wpc = "pop" /\ wpc' = "idle" /\ asked = "descendants" /\ stack = <<>>
      /\ UNCHANGED <<asked, root, stack, visited, current, unread, children, out>>
      /\ UNCHANGED procVars /\ Begun /\ Descends /\ ~Exploring
  BY DEF Return, FamilyInv, LinkInv, ShapeOK, Exploring, Begun, Descends
<1>2. /\ TableOK' /\ table' = table /\ births' = births /\ lived' = lived
      /\ settled' = settled
      /\ (Quiet' <=> Quiet)
      /\ \A p : (Openable(p)' <=> Openable(p)) /\ (Stays(p)' <=> Stays(p))
      /\ \A q, p : Kin(q, p)' <=> Kin(q, p)
      /\ \A r : (RowOf(r)' <=> RowOf(r)) /\ (RowNow(r)' <=> RowNow(r))
  BY <1>1, SameTable DEF FamilyInv, LinkInv
<1>3. TypeOK' /\ ShapeOK' /\ FoundOK'
  BY <1>1 DEF FamilyInv, LinkInv, TypeOK, ProcTypeOK, procVars, ShapeOK, FoundOK, Exploring,
     Descends
<1>4. RowsOK' /\ RowsLinked'
  BY <1>1, <1>2 DEF FamilyInv, LinkInv, RowsOK, OutRows, ChildrenRows, OutRepeats,
     ChildrenDistinct, ChildrenRepeat, SameProcess, Adopted, RowsLinked, Exploring
<1>5. /\ ExploredOK' /\ ExploringOK' /\ PendingOK' /\ ParentOK' /\ StillOK'
      /\ SettledParentReported'
  BY <1>1, <1>2 DEF FamilyInv, ExploredOK, ExploringOK, PendingOK, ParentOK, StillOK,
     SettledParentReported, Reported, Exploring
<1> QED
  BY <1>2, <1>3, <1>4, <1>5 DEF FamilyInv, LinkInv

\* The parent's PID is read: a survivor has a parent to report, unless it is
\* one of init's children.
LEMMA ReadPpidStep ==
  ASSUME FamilyInv, ReadPpid
  PROVE  FamilyInv'
<1> USE ProcTableAssumption, DescendantsAssumption
<1> DEFINE up == Openable(root) /\ table[root].ppid \notin {0, InitPid}
<1>1. /\ wpc = "row" /\ asked = "parent" /\ out = <<>> /\ stack = <<>> /\ children = <<>>
      /\ UNCHANGED <<asked, root, stack, visited, unread, children, out>>
      /\ IF up THEN wpc' = "parent" /\ current' = table[root].ppid
         ELSE wpc' = "idle" /\ current' = current
      /\ UNCHANGED procVars /\ Begun
  BY DEF ReadPpid, FamilyInv, LinkInv, ShapeOK, Begun
<1>2. /\ TableOK' /\ table' = table /\ births' = births /\ lived' = lived
      /\ settled' = settled
      /\ \A p : (Openable(p)' <=> Openable(p))
  BY <1>1, SameTable DEF FamilyInv, LinkInv
<1>3. table[root].ppid \in Pids \cup {0}
  <2>1. table \in [Pids -> Processes] /\ root \in Pids
    BY DEF FamilyInv, LinkInv, TypeOK, ProcTypeOK
  <2>2. table[root] \in Processes
    BY <2>1
  <2> QED
    BY <2>2 DEF Processes
<1>4. TypeOK'
  BY <1>1, <1>3 DEF FamilyInv, LinkInv, TypeOK, ProcTypeOK, procVars
<1>5. ShapeOK' /\ FoundOK' /\ RowsOK' /\ RowsLinked'
  BY <1>1 DEF ShapeOK, FoundOK, RowsOK, OutRows, ChildrenRows, OutRepeats, ChildrenDistinct,
     ChildrenRepeat, RowsLinked, Exploring, Descends
<1>6. ExploredOK' /\ ExploringOK' /\ PendingOK' /\ StillOK'
  BY <1>1 DEF ExploredOK, ExploringOK, PendingOK, StillOK, Descends
<1>7. ParentOK'
  BY <1>1, <1>2 DEF ParentOK
<1>8. SettledParentReported'
  BY <1>1, <1>2, <1>3 DEF SettledParentReported
<1> QED
  BY <1>2, <1>4, <1>5, <1>6, <1>7, <1>8 DEF FamilyInv, LinkInv

\* The parent that is read is the one the table has then.
LEMMA ReadParentStep ==
  ASSUME FamilyInv, ReadParent
  PROVE  FamilyInv'
<1> USE ProcTableAssumption
<1>1. /\ wpc = "parent" /\ wpc' = "idle" /\ asked = "parent" /\ stack = <<>> /\ children = <<>>
      /\ UNCHANGED <<asked, root, stack, visited, current, unread, children>>
      /\ out' = (IF Openable(current) THEN <<RowAt(current)>> ELSE <<>>)
      /\ UNCHANGED procVars /\ Begun
  BY DEF ReadParent, FamilyInv, LinkInv, ShapeOK, Begun
<1>2. /\ TableOK' /\ table' = table /\ births' = births /\ lived' = lived
      /\ settled' = settled
      /\ \A p : (Openable(p)' <=> Openable(p))
  BY <1>1, SameTable DEF FamilyInv, LinkInv
<1>3. RowAt(current) \in Rows /\ RowAt(current).pid = current
      /\ RowAt(current).born = table[current].born
  <2>1. current \in Pids /\ table \in [Pids -> Processes]
    BY DEF FamilyInv, LinkInv, TypeOK, ProcTypeOK
  <2>2. table[current] \in Processes
    BY <2>1
  <2> QED
    BY <2>1, <2>2 DEF RowAt, Rows, Processes
<1>4. out' \in Seq(Rows) /\ Len(out') <= 1 /\ \A i, j \in DOMAIN out' : i = j
  <2> DEFINE r == RowAt(current)
  <2>1. r \in Rows
    BY <1>3
  <2> HIDE DEF r
  <2>2. <<r>> \in Seq(Rows) /\ Len(<<r>>) = 1 /\ DOMAIN <<r>> = {1}
    BY <2>1
  <2> QED
    BY <1>1, <2>2 DEF r
<1>5. TypeOK'
  BY <1>1, <1>4 DEF FamilyInv, LinkInv, TypeOK, ProcTypeOK, procVars
<1>6. ShapeOK' /\ FoundOK' /\ RowsOK' /\ RowsLinked'
  BY <1>1, <1>4 DEF ShapeOK, FoundOK, RowsOK, OutRows, ChildrenRows, OutRepeats,
     ChildrenDistinct, ChildrenRepeat, RowsLinked, Exploring, Descends
<1>7. ExploredOK' /\ ExploringOK' /\ PendingOK' /\ ParentOK' /\ StillOK'
  BY <1>1 DEF ExploredOK, ExploringOK, PendingOK, ParentOK, StillOK, Descends
<1>8. SettledParentReported'
  <2> SUFFICES ASSUME root \in settled, Openable(root)
               PROVE  IF table[root].ppid \notin {0, InitPid} /\ Openable(table[root].ppid)
                      THEN Len(out') = 1 /\ out'[1].pid = table[root].ppid
                           /\ out'[1].born = table[table[root].ppid].born
                      ELSE out' = <<>>
    BY <1>1, <1>2 DEF SettledParentReported
  <2>1. current = table[root].ppid /\ current \notin {0, InitPid}
    BY <1>1 DEF FamilyInv, ParentOK
  <2> QED
    BY <1>1, <1>3, <2>1
<1> QED
  BY <1>2, <1>5, <1>6, <1>7, <1>8 DEF FamilyInv, LinkInv

\* A step that changes nothing changes nothing.
LEMMA StutterFamily ==
  ASSUME FamilyInv, UNCHANGED vars
  PROVE  FamilyInv'
<1>1. /\ wpc' = wpc /\ asked' = asked /\ root' = root /\ stack' = stack
      /\ visited' = visited /\ current' = current /\ unread' = unread
      /\ children' = children /\ out' = out /\ UNCHANGED procVars
  BY DEF vars, walkVars
<1>2. /\ TableOK' /\ table' = table /\ births' = births /\ lived' = lived
      /\ settled' = settled
      /\ (Quiet' <=> Quiet)
      /\ \A p : (Openable(p)' <=> Openable(p)) /\ (Stays(p)' <=> Stays(p))
      /\ \A q, p : Kin(q, p)' <=> Kin(q, p)
      /\ \A r : (RowOf(r)' <=> RowOf(r)) /\ (RowNow(r)' <=> RowNow(r))
  BY <1>1, SameTable DEF FamilyInv, LinkInv, Begun
<1>3. TypeOK' /\ ShapeOK' /\ FoundOK' /\ RowsLinked'
  BY <1>1 DEF FamilyInv, LinkInv, TypeOK, ProcTypeOK, procVars, ShapeOK, FoundOK, RowsLinked,
     Exploring, Descends, Begun
<1>4. RowsOK'
  BY <1>1, <1>2 DEF FamilyInv, LinkInv, RowsOK, OutRows, ChildrenRows, OutRepeats,
     ChildrenDistinct, ChildrenRepeat, SameProcess, Adopted, Exploring
<1>5. /\ ExploredOK' /\ ExploringOK' /\ PendingOK' /\ ParentOK' /\ StillOK'
      /\ SettledParentReported'
  BY <1>1, <1>2 DEF FamilyInv, ExploredOK, ExploringOK, PendingOK, ParentOK, StillOK,
     SettledParentReported, Reported, Exploring, Descends, Begun
<1> QED
  BY <1>2, <1>3, <1>4, <1>5 DEF FamilyInv, LinkInv

\* The invariant, for every table and every interleaving with the kernel.
THEOREM FamilyInvariance == Spec => []FamilyInv
<1>1. Init => FamilyInv
  BY InitFamily
<1>2. ASSUME FamilyInv, [Next]_vars
      PROVE  FamilyInv'
  <2>1. ASSUME NEW p \in Roots, Begin(p) PROVE FamilyInv'
    BY <1>2, <2>1, BeginStep
  <2>2. ASSUME NEW p \in Roots, BeginParent(p) PROVE FamilyInv'
    BY <1>2, <2>2, BeginParentStep
  <2>3. CASE Pop
    BY <1>2, <2>3, PopStep
  <2>4. CASE ParentExists
    BY <1>2, <2>4, ParentExistsStep
  <2>5. CASE ParentOpen
    BY <1>2, <2>5, ParentOpenStep
  <2>6. CASE ListEnd \/ \E q \in Pids : ListEntry(q)
    BY <1>2, <2>6, ListStep
  <2>7. ASSUME NEW q \in Pids, ReadChild(q) PROVE FamilyInv'
    BY <1>2, <2>7, ReadChildStep
  <2>8. CASE TakeChildren
    BY <1>2, <2>8, TakeChildrenStep
  <2>9. CASE Return
    BY <1>2, <2>9, ReturnStep
  <2>10. CASE ReadPpid
    BY <1>2, <2>10, ReadPpidStep
  <2>11. CASE ReadParent
    BY <1>2, <2>11, ReadParentStep
  <2>12. CASE Kernel /\ UNCHANGED walkVars
    BY <1>2, <2>12, KernelFamily
  <2>13. CASE UNCHANGED vars
    BY <1>2, <2>13, StutterFamily
  <2> QED
    BY <1>2, <2>1, <2>2, <2>3, <2>4, <2>5, <2>6, <2>7, <2>8, <2>9, <2>10, <2>11, <2>12,
       <2>13 DEF Next, Walk
<1> QED
  BY <1>1, <1>2, PTL DEF Spec

-----------------------------------------------------------------------------
(***************************************************************************)
(* What the invariant means for the caller.                                *)
(***************************************************************************)
LEMMA RepeatsAreAdoptions == FamilyInv => RepeatedOnlyByAdoption
<1> DEFINE o == out \o children
<1> SUFFICES ASSUME FamilyInv, NEW i \in DOMAIN o, NEW j \in DOMAIN o, i < j,
                    o[i].pid = o[j].pid, o[i].born = o[j].born
             PROVE  /\ o[i].ppid # o[j].ppid
                    /\ o[j].ppid \in Subreapers \ {root, InitPid}
                    /\ ~(o[i].pid \in settled /\ o[i].born = table[o[i].pid].born)
  BY DEF RepeatedOnlyByAdoption
<1>1. Adopted(o[i], o[j])
  BY RowsRepeat DEF FamilyInv, SameProcess
<1>2. out \in Seq(Rows) /\ children \in Seq(Rows)
  BY DEF FamilyInv, LinkInv, TypeOK
<1>3. /\ DOMAIN out = 1 .. Len(out) /\ Len(out) \in Nat
      /\ DOMAIN children = 1 .. Len(children) /\ Len(children) \in Nat
      /\ \A l \in DOMAIN out : o[l] = out[l]
      /\ \A k \in DOMAIN children : o[Len(out) + k] = children[k]
      /\ \A l \in DOMAIN o : l \in DOMAIN out \/ \E k \in DOMAIN children : l = Len(out) + k
  BY <1>2, Joined
<1> HIDE DEF o
<1>4. asked = "descendants"
  <2> SUFFICES ASSUME asked = "parent" PROVE FALSE
    BY DEF FamilyInv, LinkInv, TypeOK
  <2>1. children = <<>> /\ Len(out) <= 1
    BY DEF FamilyInv, LinkInv, ShapeOK, Exploring
  <2>2. i \in 1 .. Len(out) /\ j \in 1 .. Len(out)
    BY <1>3, <2>1
  <2> QED
    BY <1>3, <2>1, <2>2
<1>5. \A l \in DOMAIN o : RowOf(o[l])
  <2>1. /\ \A l \in DOMAIN out : RowOf(out[l])
        /\ \A k \in DOMAIN children : RowOf(children[k])
    BY <1>4 DEF FamilyInv, LinkInv, RowsOK, OutRows, ChildrenRows
  <2> QED
    BY <1>3, <2>1
<1>6. ~(o[i].pid \in settled /\ o[i].born = table[o[i].pid].born)
  <2>1. RowOf(o[i]) /\ RowOf(o[j])
    BY <1>5
  <2> QED
    BY <1>1, <2>1 DEF RowOf, Adopted
<1> QED
  BY <1>1, <1>6 DEF Adopted

\* When a walk has returned, everything found is explored.
LEMMA ReturnedExplored ==
  ASSUME FamilyInv, Returned
  PROVE  /\ Descends /\ ~Exploring /\ root \in visited
         /\ \A i \in DOMAIN out : out[i].pid \in visited
<1>1. Descends /\ ~Exploring /\ stack = <<>>
  BY DEF Returned, Descends, Begun, Exploring, FamilyInv, LinkInv, ShapeOK
<1>2. root \in visited
  BY <1>1 DEF FamilyInv, LinkInv, ShapeOK
<1>3. \A i \in DOMAIN out : out[i].pid \in visited
  BY <1>1 DEF FamilyInv, PendingOK
<1> QED
  BY <1>1, <1>2, <1>3

\* The processes reported, of those that stay, are closed under "child that
\* stays".
LEMMA ChainsFound == FamilyInv => SettledChainsReported
<1> SUFFICES ASSUME FamilyInv, Returned, root \in lived, Openable(root),
                    NEW q \in settled, \A S \in SUBSET settled : SettledClosed(S) => q \in S
             PROVE  Reported(out, q)
  BY DEF SettledChainsReported, Reported
<1> DEFINE S == {x \in settled : Reported(out, x)}
<1>1. /\ Descends /\ ~Exploring /\ root \in visited
      /\ \A i \in DOMAIN out : out[i].pid \in visited
  BY ReturnedExplored
<1>2. ASSUME NEW x \in settled, x # table[x].ppid, Openable(x),
             table[x].ppid \in S \cup {root}
      PROVE  x \in S
  <2> DEFINE p == table[x].ppid
  <2>1. p \in visited /\ Stays(p)
    <3>1. CASE p = root
      BY <1>1, <3>1 DEF Stays
    <3>2. CASE p \in S
      <4>1. PICK i \in DOMAIN out : out[i].pid = p /\ out[i].born = table[p].born
        BY <3>2 DEF Reported
      <4>2. RowOf(out[i])
        BY <1>1, <4>1 DEF FamilyInv, LinkInv, RowsOK, OutRows, Descends
      <4>3. p \in lived /\ Alive(p)
        BY <3>2 DEF FamilyInv, LinkInv, TableOK, LivedAlive
      <4>4. Openable(p)
        BY <4>1, <4>2, <4>3 DEF RowOf, Openable
      <4> QED
        BY <1>1, <4>1, <4>3, <4>4 DEF Stays
    <3> QED
      BY <1>2, <3>1, <3>2
  <2>2. x \in Pids /\ Kin(x, p)
    BY <1>2 DEF Kin, FamilyInv, LinkInv, TypeOK, ProcTypeOK
  <2>3. Reported(out, x)
    BY <1>1, <2>1, <2>2 DEF FamilyInv, ExploredOK
  <2> QED
    BY <2>3
<1>3. SettledClosed(S)
  BY <1>2 DEF SettledClosed
<1> QED
  BY <1>3

\* While nothing moved, the rows are below the root, by induction over their
\* order, and closed under "readable child".
LEMMA QuietExact == FamilyInv => QuietWalkExact
<1> SUFFICES ASSUME FamilyInv, Returned, Quiet
             PROVE  ToSet(PidsOf(out)) = Below(root)
  BY DEF QuietWalkExact
<1> DEFINE F == {out[i].pid : i \in DOMAIN out}
<1>1. /\ Descends /\ ~Exploring /\ root \in visited
      /\ \A i \in DOMAIN out : out[i].pid \in visited
  BY ReturnedExplored
<1>2. /\ \A i \in DOMAIN out : RowNow(out[i])
      /\ out # <<>> => Openable(root)
      /\ lived = AlivePids /\ settled = AlivePids
  <2>1. settled = AlivePids /\ settled \subseteq lived /\ \A p \in lived : Alive(p)
    BY <1>1 DEF FamilyInv, LinkInv, TableOK, LivedAlive, Descends
  <2>2. lived \subseteq Pids
    BY DEF FamilyInv, LinkInv, TypeOK, ProcTypeOK
  <2> QED
    BY <1>1, <2>1, <2>2 DEF FamilyInv, StillOK, AlivePids
<1>3. /\ out \in Seq(Rows) /\ DOMAIN out = 1 .. Len(out) /\ Len(out) \in Nat
      /\ \A i \in DOMAIN out : out[i] \in Rows
  <2>1. out \in Seq(Rows)
    BY DEF FamilyInv, LinkInv, TypeOK
  <2> QED
    BY <2>1, LenProperties, ElementOfSeq
<1>4. ToSet(PidsOf(out)) = F
  BY DEF ToSet, PidsOf
<1>5. CASE ~Openable(root)
  <2>1. out = <<>> /\ DOMAIN <<>> = {}
    BY <1>2, <1>5
  <2> QED
    BY <1>4, <1>5, <2>1 DEF Below
<1>6. CASE Openable(root)
  <2>1. ASSUME NEW S \in SUBSET Pids, Closed(S, root)
        PROVE  F \subseteq S
    <3> DEFINE T == {i \in DOMAIN out : out[i].pid \notin S}
    <3> SUFFICES ASSUME T # {} PROVE FALSE
      BY <1>3
    <3>1. T \subseteq Nat
      BY <1>3
    <3>2. PICK n \in T : \A i \in T : n <= i
      <4> HIDE DEF T
      <4> QED
        BY <3>1, LeastNumber
    <3> DEFINE r == out[n]
    <3>3. r.pid \in Pids /\ RowNow(r) /\ n \in DOMAIN out /\ n \in Nat
      BY <1>2, <1>3 DEF Rows
    <3>4. r.ppid = root \/ \E j \in 1 .. n - 1 : out[j].pid = r.ppid
      BY <1>1, <3>3 DEF FamilyInv, LinkInv, RowsLinked, Descends
    <3>5. \A j \in 1 .. n - 1 : j \in DOMAIN out /\ j \notin T
      BY <1>3, <3>2, <3>3
    <3>6. r.ppid \in S \cup {root}
      BY <3>4, <3>5
    <3>7. r.pid \in S
      BY <2>1, <3>3, <3>6 DEF Closed, RowNow
    <3> QED
      BY <3>7
  <2>2. F \in SUBSET Pids
    BY <1>3 DEF Rows
  <2>3. Closed(F, root)
    <3> SUFFICES ASSUME NEW q \in Pids, q # table[q].ppid, Openable(q),
                        table[q].ppid \in F \cup {root}
                 PROVE  q \in F
      BY DEF Closed
    <3> DEFINE p == table[q].ppid
    <3>1. p \in visited /\ Openable(p) /\ p \in Pids
      <4>1. CASE p = root
        BY <1>1, <1>6, <4>1, DescendantsAssumption DEF FamilyInv, LinkInv, TypeOK
      <4>2. CASE p \in F
        BY <1>1, <1>2, <2>2, <4>2 DEF RowNow
      <4> QED
        BY <4>1, <4>2
    <3>2. Stays(p) /\ Kin(q, p)
      BY <1>2, <3>1 DEF Stays, Kin, AlivePids, Openable
    <3>3. Reported(out, q)
      BY <1>1, <3>1, <3>2 DEF FamilyInv, ExploredOK
    <3> QED
      BY <3>3 DEF Reported
  <2>4. Below(root) = {q \in Pids : \A S \in SUBSET Pids : Closed(S, root) => q \in S}
    BY <1>6 DEF Below
  <2> HIDE DEF F
  <2>5. F \subseteq Below(root)
    BY <2>1, <2>2, <2>4
  <2>6. Below(root) \subseteq F
    BY <2>2, <2>3, <2>4
  <2> QED
    BY <1>4, <2>5, <2>6
<1> QED
  BY <1>5, <1>6

-----------------------------------------------------------------------------
\* A walk reports a process twice only when it was adopted in between by a
\* subreaper that was explored later, and every row hangs on the root or on a
\* row before it, for every table and whatever the kernel does meanwhile.
THEOREM WalkWellFormed == Spec => []WalkInv
<1>1. FamilyInv => WalkInv
  BY RepeatsAreAdoptions DEF WalkInv, FamilyInv, LinkInv
<1> QED
  BY <1>1, FamilyInvariance, PTL

\* A walk of getAllDescendantProcesses that nothing disturbs returns exactly
\* the processes below the root that can be read, on cyclic tables as well.
THEOREM UndisturbedWalkExact == Spec => []QuietWalkExact
BY FamilyInvariance, QuietExact, PTL

\* Whatever else changes, a process whose chain of parents up to the root is
\* readable, survives and is the same all the time is reported; and so is, by
\* getParentProcess, the parent of a process that is not adopted meanwhile.
THEOREM FamilyThatStaysReported == Spec => []SettledFamilyReported
<1>1. FamilyInv => SettledFamilyReported
  BY ChainsFound DEF SettledFamilyReported, FamilyInv
<1> QED
  BY <1>1, FamilyInvariance, PTL

(***************************************************************************)
(* Why a walk ends.  Every step of it takes it on, in this order of        *)
(* importance: a PID more is visited; the walk comes closer to its next    *)
(* pop; a PID more is listed, or a PID less is unread; a PID less is on    *)
(* the stack.  The children may make the stack longer, and a listing the   *)
(* unread, but only where something more important has moved.  There are   *)
(* finitely many PIDs to list and to visit, hence no tree that changes,    *)
(* and no cycle, keeps a walk going.                                       *)
(***************************************************************************)
Place == CASE wpc = "exists" -> 5
           [] wpc = "open" -> 4
           [] wpc = "list" -> 3
           [] wpc \in {"read", "row"} -> 2
           [] wpc \in {"pop", "parent"} -> 1
           [] OTHER -> 0

Left == IF wpc = "list" THEN Pids \ unread ELSE unread

WalkGoesOn ==
  \/ Strictly(visited, visited')
  \/ visited' = visited /\ Place' < Place
  \/ visited' = visited /\ Place' = Place /\ Strictly(Left', Left)
  \/ visited' = visited /\ Place' = Place /\ unread' = unread /\ Len(stack') < Len(stack)

\* A call that has begun goes on towards its end with every step, whatever
\* the kernel does in between (base.cpp:82-92, 124-160).
THEOREM NoStepForNothing == Spec => [][wpc # "idle" => WalkGoesOn \/ UNCHANGED walkVars]_vars
<1>1. ASSUME TypeOK, [Next]_vars, wpc # "idle" PROVE WalkGoesOn \/ UNCHANGED walkVars
  <2>1. CASE Pop
    <3>1. stack \in Seq(Pids) /\ stack # <<>>
      BY <1>1, <2>1 DEF Pop, TypeOK
    <3>2. Len(Front(stack)) < Len(stack)
      BY <3>1, Popped
    <3>3. CASE Last(stack) \in visited
      BY <2>1, <3>2, <3>3 DEF Pop, WalkGoesOn, Place
    <3>4. CASE Last(stack) \notin visited
      BY <2>1, <3>4 DEF Pop, WalkGoesOn, Strictly
    <3> QED
      BY <3>3, <3>4
  <2>2. CASE ParentExists
    BY <2>2 DEF ParentExists, WalkGoesOn, Place
  <2>3. CASE ParentOpen
    BY <2>3 DEF ParentOpen, WalkGoesOn, Place
  <2>4. CASE \E q \in Pids : ListEntry(q)
    <3>1. visited' = visited /\ wpc' = wpc
      BY <2>4 DEF ListEntry
    <3>2. Strictly(Left', Left)
      BY <2>4 DEF ListEntry, Strictly, Left
    <3> QED
      BY <3>1, <3>2 DEF WalkGoesOn, Place
  <2>5. CASE ListEnd
    BY <2>5 DEF ListEnd, WalkGoesOn, Place
  <2>6. CASE \E q \in Pids : ReadChild(q)
    <3>1. visited' = visited /\ wpc' = wpc
      BY <2>6 DEF ReadChild
    <3>2. Strictly(Left', Left)
      BY <2>6 DEF ReadChild, Strictly, Left
    <3> QED
      BY <3>1, <3>2 DEF WalkGoesOn, Place
  <2>7. CASE TakeChildren
    BY <2>7 DEF TakeChildren, WalkGoesOn, Place
  <2>8. CASE Return
    BY <2>8 DEF Return, WalkGoesOn, Place
  <2>9. CASE ReadPpid
    BY <2>9 DEF ReadPpid, WalkGoesOn, Place
  <2>10. CASE ReadParent
    BY <2>10 DEF ReadParent, WalkGoesOn, Place
  <2>11. CASE UNCHANGED walkVars
    BY <2>11
  <2>12. ~(\E p \in Roots : Begin(p) \/ BeginParent(p))
    BY <1>1 DEF Begin, BeginParent
  <2> QED
    BY <1>1, <2>1, <2>2, <2>3, <2>4, <2>5, <2>6, <2>7, <2>8, <2>9, <2>10, <2>11,
       <2>12 DEF Next, Walk, vars
<1>2. FamilyInv => TypeOK
  BY DEF FamilyInv, LinkInv
<1> QED
  BY <1>1, <1>2, FamilyInvariance, PTL DEF Spec
=============================================================================
