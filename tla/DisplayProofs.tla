---------------------------- MODULE DisplayProofs ----------------------------
(***************************************************************************)
(* Theorems about module Display, and with it Inspect and Forest, for      *)
(* every set of PIDs, tables and sockets, every listing, every choice of   *)
(* sections and every order in which the kernel's steps fall between the   *)
(* report's: the type invariant; that every process of a result is printed *)
(* once and below its parent; that the report on a process that lives      *)
(* through it is whole and of that process only; that no section is of an  *)
(* older process than one above it; that the sections are answered in      *)
(* order; and that the connections listed are the process's own.           *)
(***************************************************************************)
EXTENDS Display, ProcTableProofs, FiniteSetTheorems

(***************************************************************************)
(* The printer.  The rows are of distinct PIDs.  What has been visited are *)
(* the PIDs of the lines printed.                                          *)
(***************************************************************************)
Row == [pid : ListedPids, ppid : Nat]
Forested == format = "tree" /\ processes # << >>

PrintTypeOK ==
  /\ command \in {"list", "show"}
  /\ format \in Formats
  /\ ppc \in {"none", "start", "roots", "rest", "done"}
  /\ agenda \in Seq((DOMAIN processes) \X Nat)
  /\ visited \subseteq ListedPids
  /\ printed \in Seq((DOMAIN processes) \X Nat)

ListingOK ==
  /\ processes = << >> \/ processes \in Listings \/ processes[1].pid = ask.pid
  /\ processes \in Seq(Row)
  /\ \A m, n \in DOMAIN processes : processes[m].pid = processes[n].pid => m = n

PrinterOK ==
  /\ ppc = "none" => processes = << >>
  /\ ppc \in {"none", "start"} => agenda = << >> /\ visited = {} /\ printed = << >>
  /\ ppc \in {"roots", "rest"} => Forested
  /\ ~Forested => \A k \in DOMAIN printed : printed[k] = <<k, 0>>
  /\ ~Forested /\ ppc = "done" => DOMAIN printed = DOMAIN processes
  /\ Forested => visited = {Tree!Pid(Tree!Line(k)) : k \in DOMAIN printed}

(***************************************************************************)
(* Nothing is left out: below the roots, whatever is not visited is on the *)
(* agenda if it is a root or a child of something visited; in the pass     *)
(* over the rest, whatever is not visited is on the agenda.                *)
(***************************************************************************)
OnAgenda(n) == \E k \in DOMAIN agenda : agenda[k][1] = n
Visited(n) == Tree!Pid(n) \in visited

LeftToPrint ==
  Forested =>
    /\ ppc = "roots" => \A n \in Tree!Nodes :
         n \in Tree!Roots \/ Tree!Ppid(n) \in visited => Visited(n) \/ OnAgenda(n)
    /\ ppc = "rest" => \A n \in Tree!Nodes : Visited(n) \/ OnAgenda(n)
    /\ ppc = "done" => \A n \in Tree!Nodes : Visited(n)

(***************************************************************************)
(* Why the indentation is true: an agenda is never more indented further   *)
(* on, so that the lines a node's earlier siblings still add stand no      *)
(* further out than the node, and the parent's line remains the one it     *)
(* belongs to.  At depth 0 there are the roots, and, in the last pass,     *)
(* nodes that nothing but a cycle can have kept out of the first.          *)
(***************************************************************************)
BelowParent(n, d) ==
  \E j \in DOMAIN printed :
    /\ Tree!Depth(j) = d - 1
    /\ Tree!Pid(Tree!Line(j)) = Tree!Ppid(n)
    /\ \A k \in DOMAIN printed : k > j => Tree!Depth(k) >= d

DepthsOK ==
  Forested =>
    /\ \A a, b \in DOMAIN agenda : a < b => agenda[a][2] >= agenda[b][2]
    /\ \A a \in DOMAIN agenda : agenda[a][2] > 0 => BelowParent(agenda[a][1], agenda[a][2])
    /\ ppc = "roots" => \A a \in DOMAIN agenda : agenda[a][2] = 0 => agenda[a][1] \in Tree!Roots
    /\ ppc = "rest" => \A n \in Tree!Nodes :
         Visited(n) \/ n \in Tree!Roots \/ Tree!RunsIntoCycle(n)
    /\ Tree!IndentedBelowParent /\ Tree!DepthZeroJustified

PrintInv ==
  PrintTypeOK /\ ListingOK /\ PrinterOK /\ LeftToPrint /\ DepthsOK /\ Tree!PrintedOnce

-----------------------------------------------------------------------------
(* Lemmas about the printer's operators. *)

\* Sorting lists each of the nodes.
LEMMA SortLists ==
  ASSUME ListingOK, NEW S \in SUBSET DOMAIN processes, NEW s \in Tree!SortedByPid(S)
  PROVE  \E n \in Nat : s \in [1 .. n -> S] /\ {s[i] : i \in 1 .. n} = S
<1>1. DOMAIN processes = 1 .. Len(processes) /\ Len(processes) \in Nat
  BY LenProperties DEF ListingOK
<1>2. IsFiniteSet(S)
  <2>1. IsFiniteSet(1 .. Len(processes))
    BY <1>1, FS_Interval
  <2>2. S \in SUBSET (1 .. Len(processes))
    BY <1>1
  <2> QED
    BY <2>1, <2>2, FS_Subset
<1>3. Cardinality(S) \in Nat
  BY <1>2, FS_CardinalityType
<1>4. Tree!Cardinality(S) = Cardinality(S)
  BY DEF Tree!Cardinality, Cardinality
<1> DEFINE n == Cardinality(S)
<1> HIDE DEF n
<1>5. s \in [1 .. n -> S] /\ {s[i] : i \in DOMAIN s} = S
  BY <1>4 DEF Tree!SortedByPid, n
<1>6. n \in Nat /\ {s[i] : i \in 1 .. n} = S
  BY <1>3, <1>5 DEF n
<1> QED
  BY <1>5, <1>6

\* All of them are given one depth.
LEMMA SortedNodes ==
  ASSUME ListingOK, NEW S \in SUBSET DOMAIN processes, NEW s \in Tree!SortedByPid(S),
         NEW d \in Nat
  PROVE  /\ Tree!AtDepth(s, d) \in Seq((DOMAIN processes) \X Nat)
         /\ \A k \in DOMAIN Tree!AtDepth(s, d) :
              Tree!AtDepth(s, d)[k][1] \in S /\ Tree!AtDepth(s, d)[k][2] = d
<1> DEFINE t == Tree!AtDepth(s, d)
<1>1. PICK n \in Nat : s \in [1 .. n -> S] /\ {s[i] : i \in 1 .. n} = S
  BY SortLists
<1>2. t = [i \in 1 .. n |-> <<s[i], d>>]
  BY <1>1 DEF Tree!AtDepth
<1> HIDE DEF t
<1>3. \A k \in 1 .. n : s[k] \in S /\ s[k] \in DOMAIN processes
  BY <1>1
<1>4. t \in [1 .. n -> (DOMAIN processes) \X Nat]
  BY <1>2, <1>3
<1>5. t \in Seq((DOMAIN processes) \X Nat)
  BY <1>1, <1>4
<1>6. DOMAIN t = 1 .. n /\ \A k \in 1 .. n : t[k][1] = s[k] /\ t[k][2] = d
  BY <1>2
<1>7. \A k \in DOMAIN t : t[k][1] \in S /\ t[k][2] = d
  BY <1>3, <1>6
<1> QED
  BY <1>5, <1>7 DEF t

\* Whoever is sorted is on the agenda of its depth.
LEMMA EveryNodeSorted ==
  ASSUME ListingOK, NEW S \in SUBSET DOMAIN processes, NEW s \in Tree!SortedByPid(S),
         NEW d \in Nat, NEW m \in S
  PROVE  \E k \in DOMAIN Tree!AtDepth(s, d) : Tree!AtDepth(s, d)[k][1] = m
<1>1. PICK n \in Nat : s \in [1 .. n -> S] /\ {s[i] : i \in 1 .. n} = S
  BY SortLists
<1>2. PICK k \in 1 .. n : s[k] = m
  BY <1>1
<1>3. k \in DOMAIN Tree!AtDepth(s, d) /\ Tree!AtDepth(s, d)[k][1] = m
  BY <1>1, <1>2 DEF Tree!AtDepth
<1> QED
  BY <1>3

\* All the rows, in their order, at depth 0.
LEMMA AllNodes ==
  ASSUME ListingOK, NEW t, t = Tree!AtDepth([n \in DOMAIN processes |-> n], 0)
  PROVE  /\ t \in Seq((DOMAIN processes) \X Nat)
         /\ DOMAIN t = DOMAIN processes
         /\ \A k \in DOMAIN t : t[k] = <<k, 0>> /\ t[k][1] = k /\ t[k][2] = 0
<1>1. DOMAIN processes = 1 .. Len(processes) /\ Len(processes) \in Nat
  BY LenProperties DEF ListingOK
<1>2. t = [n \in DOMAIN processes |-> <<n, 0>>]
  BY DEF Tree!AtDepth
<1>3. t \in [1 .. Len(processes) -> (DOMAIN processes) \X Nat]
  BY <1>1, <1>2
<1>4. t \in Seq((DOMAIN processes) \X Nat)
  BY <1>1, <1>3
<1>5. DOMAIN t = DOMAIN processes /\ \A k \in DOMAIN processes : t[k] = <<k, 0>>
  BY <1>2
<1>6. \A k \in DOMAIN processes : t[k][1] = k /\ t[k][2] = 0
  BY <1>5
<1> QED
  BY <1>4, <1>5, <1>6
-----------------------------------------------------------------------------
(* The printer's steps. *)

\* What is said of the listing alone is as it was while the listing is.
LEMMA SameForest ==
  ASSUME UNCHANGED <<processes, format>>
  PROVE  /\ Tree!Nodes' = Tree!Nodes /\ Tree!Roots' = Tree!Roots /\ (Forested' <=> Forested)
         /\ \A n : Tree!Pid(n)' = Tree!Pid(n) /\ Tree!Ppid(n)' = Tree!Ppid(n)
         /\ \A n : Tree!RunsIntoCycle(n)' <=> Tree!RunsIntoCycle(n)
<1>1. /\ Tree!Nodes' = Tree!Nodes /\ Tree!Roots' = Tree!Roots
      /\ \A n : Tree!Pid(n)' = Tree!Pid(n) /\ Tree!Ppid(n)' = Tree!Ppid(n)
  BY DEF Tree!Nodes, Tree!Roots, Tree!IsChild, Tree!Pid, Tree!Ppid, Tree!PresentPids
<1>2. Forested' <=> Forested
  BY DEF Forested
<1>3. ASSUME NEW n PROVE Tree!RunsIntoCycle(n)' <=> Tree!RunsIntoCycle(n)
  BY <1>1 DEF Tree!RunsIntoCycle
<1> QED
  BY <1>1, <1>2, <1>3

\* A listing that does not change stays one.
LEMMA SameListing ==
  ASSUME PrintInv, UNCHANGED <<ask, processes>>
  PROVE  ListingOK'
BY DEF PrintInv, ListingOK, Row

\* Nothing but the command's report goes on.
LEMMA PrinterRests ==
  ASSUME PrintInv, UNCHANGED <<ask, commandVars, printVars>>
  PROVE  PrintInv'
<1>1. UNCHANGED <<processes, format, command, ppc, agenda, visited, printed>>
  BY DEF commandVars, printVars
<1>2. ListingOK' /\ PrintTypeOK' /\ Tree!PrintedOnce'
  BY <1>1, SameListing DEF PrintInv, PrintTypeOK, Tree!PrintedOnce, Tree!Pid, Tree!Line
<1>3. PrinterOK'
  BY <1>1 DEF PrintInv, PrinterOK, Forested, Tree!Pid, Tree!Line
<1>4. LeftToPrint'
  BY <1>1, SameForest DEF PrintInv, LeftToPrint, OnAgenda, Visited
<1>5. DepthsOK'
  <2>1. \A n, d : BelowParent(n, d)' <=> BelowParent(n, d)
    BY <1>1, SameForest DEF BelowParent, Tree!Depth, Tree!Line
  <2>2. /\ Tree!IndentedBelowParent' <=> Tree!IndentedBelowParent
        /\ Tree!DepthZeroJustified' <=> Tree!DepthZeroJustified
    BY <1>1, SameForest DEF Tree!IndentedBelowParent, Tree!DepthZeroJustified, Tree!Depth, Tree!Line
  <2> QED
    BY <1>1, <2>1, <2>2, SameForest DEF PrintInv, DepthsOK, Visited
<1> QED
  BY <1>2, <1>3, <1>4, <1>5 DEF PrintInv

\* The agenda begins with the roots, and has all there is to print.
LEMMA PrintRootsStep ==
  ASSUME PrintInv, Tree!PrintRoots, Forested, UNCHANGED <<ask, commandVars>>
  PROVE  PrintInv'
<1>1. /\ ppc = "start" /\ ppc' = "roots"
      /\ UNCHANGED <<processes, visited, printed, format, command>>
  BY DEF Tree!PrintRoots, commandVars
<1>2. PICK s \in Tree!SortedByPid(Tree!Roots) : agenda' = Tree!AtDepth(s, 0)
  BY DEF Tree!PrintRoots
<1> DEFINE t == Tree!AtDepth(s, 0)
<1>3. agenda' = t
  BY <1>2
<1>4. Tree!Roots \in SUBSET DOMAIN processes
  BY DEF Tree!Roots, Tree!Nodes
<1>5. /\ t \in Seq((DOMAIN processes) \X Nat)
      /\ \A k \in DOMAIN t : t[k][1] \in Tree!Roots /\ t[k][2] = 0
      /\ \A n \in Tree!Roots : \E k \in DOMAIN t : t[k][1] = n
  BY <1>4, SortedNodes, EveryNodeSorted DEF PrintInv
<1> HIDE DEF t
<1>6. visited = {} /\ printed = << >> /\ DOMAIN printed = {}
  BY <1>1 DEF PrintInv, PrinterOK
<1>7. ListingOK' /\ PrintTypeOK'
  BY <1>1, <1>3, <1>5, SameListing DEF PrintInv, PrintTypeOK
<1>8. Tree!PrintedOnce'
  BY <1>1, <1>6 DEF Tree!PrintedOnce
<1>9. PrinterOK'
  BY <1>1, <1>6, SameForest DEF PrinterOK
<1>10. LeftToPrint'
  BY <1>1, <1>3, <1>5, <1>6, SameForest DEF LeftToPrint, OnAgenda, Visited
<1>11. DepthsOK'
  <2>1. Tree!IndentedBelowParent' /\ Tree!DepthZeroJustified'
    BY <1>1, <1>6 DEF Tree!IndentedBelowParent, Tree!DepthZeroJustified
  <2>2. \A a, b \in DOMAIN agenda' : agenda'[a][2] >= agenda'[b][2]
    BY <1>3, <1>5
  <2>3. \A a \in DOMAIN agenda' : ~(agenda'[a][2] > 0) /\ agenda'[a][1] \in Tree!Roots
    BY <1>3, <1>5
  <2> QED
    BY <1>1, <2>1, <2>2, <2>3, SameForest DEF DepthsOK
<1> QED
  BY <1>7, <1>8, <1>9, <1>10, <1>11 DEF PrintInv

\* A call for a node that has been visited returns at once.
LEMMA SkipNodeStep ==
  ASSUME PrintInv, ppc \in {"roots", "rest"}, agenda # << >>, Visited(agenda[1][1]),
         agenda' = Tail(agenda), UNCHANGED <<processes, ppc, visited, printed, ask, commandVars>>
  PROVE  PrintInv'
<1>1. UNCHANGED <<format, command, processes>>
  BY DEF commandVars
<1> DEFINE T == (DOMAIN processes) \X Nat
           t == Tail(agenda)
<1>2. agenda \in Seq(T) /\ t \in Seq(T) /\ agenda' = t
  BY Shifted DEF PrintInv, PrintTypeOK
<1>3. /\ \A k \in DOMAIN t : k \in Nat /\ k + 1 \in DOMAIN agenda /\ t[k] = agenda[k + 1]
      /\ \A k \in DOMAIN agenda : k = 1 \/ (k - 1 \in DOMAIN t /\ t[k - 1] = agenda[k])
  BY <1>2, Shifted
<1> HIDE DEF t, T
<1>4. ListingOK' /\ PrintTypeOK' /\ Tree!PrintedOnce'
  BY <1>1, <1>2, SameListing
     DEF PrintInv, PrintTypeOK, Tree!PrintedOnce, Tree!Pid, Tree!Line, T
<1>5. PrinterOK'
  BY <1>1, SameForest DEF PrintInv, PrinterOK, Tree!Line
<1>6. ASSUME NEW n, OnAgenda(n), ~Visited(n) PROVE OnAgenda(n)'
  <2>1. PICK k \in DOMAIN agenda : agenda[k][1] = n
    BY <1>6 DEF OnAgenda
  <2>2. k # 1
    BY <1>6, <2>1
  <2> QED
    BY <1>2, <1>3, <2>1, <2>2 DEF OnAgenda
<1>7. LeftToPrint'
  BY <1>1, <1>6, SameForest DEF PrintInv, LeftToPrint, Visited
<1>8. DepthsOK'
  <2>1. \A n, d : BelowParent(n, d)' <=> BelowParent(n, d)
    BY <1>1, SameForest DEF BelowParent, Tree!Depth, Tree!Line
  <2>2. /\ Tree!IndentedBelowParent' <=> Tree!IndentedBelowParent
        /\ Tree!DepthZeroJustified' <=> Tree!DepthZeroJustified
    BY <1>1, SameForest DEF Tree!IndentedBelowParent, Tree!DepthZeroJustified, Tree!Depth, Tree!Line
  <2>3. Forested => \A a, b \in DOMAIN t : a < b => t[a][2] >= t[b][2]
    BY <1>3 DEF PrintInv, DepthsOK
  <2>4. Forested => \A a \in DOMAIN t : t[a][2] > 0 => BelowParent(t[a][1], t[a][2])
    BY <1>3 DEF PrintInv, DepthsOK
  <2>5. Forested /\ ppc = "roots" => \A a \in DOMAIN t : t[a][2] = 0 => t[a][1] \in Tree!Roots
    BY <1>3 DEF PrintInv, DepthsOK
  <2> QED
    BY <1>1, <1>2, <2>1, <2>2, <2>3, <2>4, <2>5, SameForest DEF PrintInv, DepthsOK, Visited
<1> QED
  BY <1>4, <1>5, <1>7, <1>8 DEF PrintInv
\* A node is printed: its line is the last, its children come next, one step
\* further in.
PrintsNode(n, d, s) ==
  /\ ppc \in {"roots", "rest"} /\ agenda # << >>
  /\ n = Head(agenda)[1] /\ d = Head(agenda)[2]
  /\ ~Visited(n)
  /\ visited' = visited \cup {Tree!Pid(n)} /\ printed' = Append(printed, <<n, d>>)
  /\ s \in Tree!SortedByPid(Tree!ChildrenOf(Tree!Pid(n)))
  /\ agenda' = Tree!AtDepth(s, d + 1) \o Tail(agenda)
  /\ UNCHANGED <<processes, ppc, ask, commandVars>>

\* A node that is printed makes room on the agenda for its children.
LEMMA PrintOneNodeStep ==
  ASSUME PrintInv, NEW n, NEW d, NEW s, PrintsNode(n, d, s)
  PROVE  PrintInv'
<1>1. UNCHANGED <<format, command, processes, ppc, ask>> /\ Forested
  BY DEF PrintsNode, commandVars, PrintInv, PrinterOK
<1>0. SUFFICES ASSUME NEW T, T = (DOMAIN processes) \X Nat,
                    NEW c, c = Tree!AtDepth(s, d + 1), NEW t, t = Tail(agenda),
                    NEW w, w = c \o t, NEW last, last = Len(printed) + 1,
                    NEW lines2, lines2 = Append(printed, <<n, d>>),
                    NEW C, C = Tree!ChildrenOf(Tree!Pid(n))
             PROVE  PrintInv'
  OBVIOUS
<1>2. agenda \in Seq(T) /\ printed \in Seq(T)
  BY <1>0 DEF PrintInv, PrintTypeOK
<1>3. /\ t \in Seq(T) /\ Head(agenda) \in T /\ 1 \in DOMAIN agenda /\ agenda[1] = Head(agenda)
      /\ \A k \in DOMAIN t : k \in Nat /\ k + 1 \in DOMAIN agenda /\ t[k] = agenda[k + 1]
      /\ \A k \in DOMAIN agenda : k = 1 \/ (k - 1 \in DOMAIN t /\ t[k - 1] = agenda[k])
  BY <1>0, <1>2, Shifted DEF PrintsNode
<1>4. n \in DOMAIN processes /\ d \in Nat /\ <<n, d>> \in T /\ agenda[1][1] = n /\ agenda[1][2] = d
  BY <1>0, <1>3 DEF PrintsNode
<1>5. C \in SUBSET DOMAIN processes /\ s \in Tree!SortedByPid(C) /\ d + 1 \in Nat /\ ListingOK
  BY <1>0, <1>4 DEF Tree!ChildrenOf, Tree!Nodes, PrintsNode, PrintInv
<1>6. /\ c \in Seq(T)
      /\ \A k \in DOMAIN c : c[k][1] \in C /\ c[k][2] = d + 1
      /\ \A m \in C : \E k \in DOMAIN c : c[k][1] = m
  <2> DEFINE a == Tree!AtDepth(s, d + 1)
  <2>1. a \in Seq((DOMAIN processes) \X Nat)
    BY <1>5, SortedNodes
  <2>2. \A k \in DOMAIN a : a[k][1] \in C /\ a[k][2] = d + 1
    BY <1>5, SortedNodes
  <2>3. ASSUME NEW m \in C PROVE \E k \in DOMAIN a : a[k][1] = m
    BY <1>5, EveryNodeSorted
  <2> QED
    BY <1>0, <2>1, <2>2, <2>3
<1>7. /\ w \in Seq(T)
      /\ DOMAIN c = 1 .. Len(c) /\ Len(c) \in Nat /\ DOMAIN t = 1 .. Len(t) /\ Len(t) \in Nat
      /\ \A k \in DOMAIN c : k \in DOMAIN w /\ w[k] = c[k]
      /\ \A k \in DOMAIN t : Len(c) + k \in DOMAIN w /\ w[Len(c) + k] = t[k]
      /\ \A k \in DOMAIN w : k \in DOMAIN c \/ \E l \in DOMAIN t : k = Len(c) + l
  <2>1. c \in Seq(T) /\ t \in Seq(T)
    BY <1>3, <1>6
  <2>2. w = c \o t
    BY <1>0
  <2> QED
    BY <2>1, <2>2, Joined
<1>8. /\ lines2 \in Seq(T) /\ DOMAIN printed = 1 .. Len(printed) /\ Len(printed) \in Nat
      /\ DOMAIN lines2 = 1 .. last
      /\ \A k \in DOMAIN printed : k \in DOMAIN lines2 /\ lines2[k] = printed[k]
      /\ last \in DOMAIN lines2 /\ lines2[last] = <<n, d>>
      /\ \A k \in DOMAIN lines2 : k \in DOMAIN printed \/ k = last
  BY <1>0, <1>2, <1>4, Pushed
<1>9. agenda' = w /\ printed' = lines2 /\ visited' = visited \cup {Tree!Pid(n)}
  BY <1>0 DEF PrintsNode
<1>10. last \in Nat /\ \A k \in DOMAIN printed : k < last /\ k \in Nat
  BY <1>0, <1>8
<1>11. /\ \A k \in DOMAIN printed : /\ Tree!Line(k)' = Tree!Line(k)
                                    /\ Tree!Depth(k)' = Tree!Depth(k)
                                    /\ Tree!Depth(k) \in Nat /\ Tree!Line(k) \in DOMAIN processes
       /\ Tree!Line(last)' = n /\ Tree!Depth(last)' = d
  <2>1. \A k \in DOMAIN printed : printed[k] \in T
    BY <1>2, ElementOfSeq, <1>8
  <2> QED
    BY <1>0, <1>8, <1>9, <2>1 DEF Tree!Line, Tree!Depth
<1>12. DOMAIN printed' = DOMAIN printed \cup {last}
  BY <1>8, <1>9
<1>13. PrintTypeOK' /\ ListingOK'
  <2>1. Tree!Pid(n) \in ListedPids
    <3>1. processes \in Seq(Row) /\ n \in 1 .. Len(processes)
      BY <1>4, LenProperties DEF PrintInv, ListingOK
    <3>2. processes[n] \in Row
      BY <3>1, ElementOfSeq
    <3> QED
      BY <3>2 DEF Row, Tree!Pid
  <2>2. agenda' \in Seq((DOMAIN processes') \X Nat) /\ printed' \in Seq((DOMAIN processes') \X Nat)
    BY <1>0, <1>1, <1>7, <1>8, <1>9
  <2> QED
    BY <1>1, <1>9, <2>1, <2>2, SameListing DEF PrintInv, PrintTypeOK
<1>14. visited = {Tree!Pid(Tree!Line(k)) : k \in DOMAIN printed}
  BY <1>1 DEF PrintInv, PrinterOK
<1>15. PrinterOK'
  <2>1. visited' = {Tree!Pid(Tree!Line(k))' : k \in DOMAIN printed'}
    <3>1. \A k \in DOMAIN printed : Tree!Pid(Tree!Line(k))' = Tree!Pid(Tree!Line(k))
      BY <1>1, <1>11 DEF Tree!Pid
    <3>2. Tree!Pid(Tree!Line(last))' = Tree!Pid(n)
      BY <1>1, <1>11 DEF Tree!Pid
    <3> QED
      BY <1>9, <1>12, <1>14, <3>1, <3>2
  <2> QED
    BY <1>1, <2>1, SameForest DEF PrinterOK, PrintsNode
<1>16. Tree!PrintedOnce'
  <2>1. \A k \in DOMAIN printed : Tree!Pid(Tree!Line(k)) # Tree!Pid(n)
    BY <1>14 DEF Visited, PrintsNode
  <2>2. \A k \in DOMAIN printed : Tree!Pid(Tree!Line(k))' = Tree!Pid(Tree!Line(k))
    BY <1>1, <1>11 DEF Tree!Pid
  <2>3. Tree!Pid(Tree!Line(last))' = Tree!Pid(n)
    BY <1>1, <1>11 DEF Tree!Pid
  <2> QED
    BY <1>12, <2>1, <2>2, <2>3 DEF PrintInv, Tree!PrintedOnce
<1>17. LeftToPrint'
  <2>1. ASSUME NEW m, OnAgenda(m), m # n PROVE OnAgenda(m)'
    <3>1. PICK k \in DOMAIN agenda : agenda[k][1] = m
      BY <2>1 DEF OnAgenda
    <3>2. k # 1
      BY <1>4, <2>1, <3>1
    <3>3. k - 1 \in DOMAIN t /\ t[k - 1] = agenda[k]
      BY <1>3, <3>2
    <3>4. Len(c) + (k - 1) \in DOMAIN w /\ w[Len(c) + (k - 1)][1] = m
      BY <1>7, <3>1, <3>3
    <3> QED
      BY <1>9, <3>4 DEF OnAgenda
  <2>2. ASSUME NEW m \in C PROVE OnAgenda(m)'
    <3>1. PICK k \in DOMAIN c : c[k][1] = m
      BY <1>6
    <3> QED
      BY <1>7, <1>9, <3>1 DEF OnAgenda
  <2>3. \A m : Visited(m) => Visited(m)'
    BY <1>1, SameForest DEF Visited, PrintsNode
  <2>4. Visited(n)'
    BY <1>1, SameForest DEF Visited, PrintsNode
  <2>5. ASSUME ppc = "roots", NEW m \in Tree!Nodes,
               m \in Tree!Roots \/ Tree!Ppid(m) \in visited'
        PROVE  Visited(m)' \/ OnAgenda(m)'
    <3>1. CASE m \in Tree!Roots \/ Tree!Ppid(m) \in visited
      <4>1. Visited(m) \/ OnAgenda(m)
        BY <1>1, <2>5, <3>1 DEF PrintInv, LeftToPrint
      <4> QED
        BY <2>1, <2>3, <2>4, <4>1
    <3>2. CASE m \notin Tree!Roots /\ Tree!Ppid(m) = Tree!Pid(n)
      <4>1. m \in C
        BY <1>0, <2>5, <3>2 DEF Tree!Roots, Tree!ChildrenOf
      <4> QED
        BY <2>2, <4>1
    <3> QED
      BY <1>9, <2>5, <3>1, <3>2
  <2>6. ASSUME ppc = "rest", NEW m \in Tree!Nodes PROVE Visited(m)' \/ OnAgenda(m)'
    BY <1>1, <2>1, <2>3, <2>4, <2>6 DEF PrintInv, LeftToPrint
  <2> QED
    <3>1. ppc \in {"roots", "rest"}
      BY DEF PrintsNode
    <3> QED
      BY <1>1, <2>5, <2>6, <3>1, SameForest DEF LeftToPrint
<1>18. DepthsOK'
  <2>1. /\ \A a, b \in DOMAIN agenda : a < b => agenda[a][2] >= agenda[b][2]
        /\ \A a \in DOMAIN agenda : agenda[a][2] > 0 => BelowParent(agenda[a][1], agenda[a][2])
        /\ ppc = "roots" => \A a \in DOMAIN agenda : agenda[a][2] = 0 => agenda[a][1] \in Tree!Roots
        /\ ppc = "rest" => \A m \in Tree!Nodes :
             Visited(m) \/ m \in Tree!Roots \/ Tree!RunsIntoCycle(m)
        /\ Tree!IndentedBelowParent /\ Tree!DepthZeroJustified
    BY <1>1 DEF PrintInv, DepthsOK
  <2>2. \A k \in DOMAIN t : t[k][2] \in Nat /\ t[k][2] <= d
    <3>1. \A k \in DOMAIN t : t[k][2] = agenda[k + 1][2] /\ 1 < k + 1 /\ k + 1 \in DOMAIN agenda
      BY <1>3, <1>7
    <3>2. \A k \in DOMAIN t : t[k] \in T
      BY <1>3, <1>7, ElementOfSeq
    <3>3. \A k \in DOMAIN t : t[k][2] \in Nat
      BY <1>0, <3>2
    <3> QED
      BY <1>3, <1>4, <2>1, <3>1, <3>3
  <2>3. \A a, b \in DOMAIN w : a < b => w[a][2] >= w[b][2]
    <3> SUFFICES ASSUME NEW a \in DOMAIN w, NEW b \in DOMAIN w, a < b PROVE w[a][2] >= w[b][2]
      OBVIOUS
    <3>1. CASE a \in DOMAIN c /\ b \in DOMAIN c
      <4>1. w[a][2] = d + 1 /\ w[b][2] = d + 1
        <5>1. w[a] = c[a] /\ w[b] = c[b]
          BY <1>7, <3>1
        <5> QED
          BY <1>6, <3>1, <5>1
      <4> QED
        BY <1>4, <4>1
    <3>2. CASE a \in DOMAIN c /\ b \notin DOMAIN c
      <4>1. PICK l \in DOMAIN t : b = Len(c) + l
        BY <1>7, <3>2
      <4>2. w[b][2] = t[l][2] /\ w[a][2] = d + 1
        BY <1>6, <1>7, <3>2, <4>1
      <4>3. t[l][2] \in Nat /\ t[l][2] <= d
        BY <2>2
      <4>4. d + 1 >= t[l][2]
        BY <1>4, <4>3
      <4> QED
        BY <4>2, <4>4
    <3>3. CASE a \notin DOMAIN c
      <4>1. PICK k \in DOMAIN t : a = Len(c) + k
        BY <1>7, <3>3
      <4>2. b \notin DOMAIN c
        BY <1>7, <3>3, <4>1
      <4>3. PICK l \in DOMAIN t : b = Len(c) + l
        BY <1>7, <4>2
      <4>4. k + 1 < l + 1 /\ k + 1 \in DOMAIN agenda /\ l + 1 \in DOMAIN agenda
        BY <1>3, <1>7, <4>1, <4>3
      <4>5. w[a] = t[k] /\ w[b] = t[l]
        BY <1>7, <4>1, <4>3
      <4>6. w[a] = agenda[k + 1] /\ w[b] = agenda[l + 1]
        BY <1>3, <4>5
      <4> QED
        BY <2>1, <4>4, <4>6
    <3> QED
      BY <3>1, <3>2, <3>3
  <2>4. ASSUME NEW m, NEW e \in Nat, e <= d, BelowParent(m, e) PROVE BelowParent(m, e)'
    <3>1. PICK j \in DOMAIN printed :
            /\ Tree!Depth(j) = e - 1
            /\ Tree!Pid(Tree!Line(j)) = Tree!Ppid(m)
            /\ \A k \in DOMAIN printed : k > j => Tree!Depth(k) >= e
      BY <2>4 DEF BelowParent
    <3>2. Tree!Depth(j)' = e - 1 /\ Tree!Pid(Tree!Line(j))' = Tree!Ppid(m)'
      BY <1>1, <1>11, <3>1 DEF Tree!Pid, Tree!Ppid
    <3>3. \A k \in DOMAIN printed' : k > j => Tree!Depth(k)' >= e
      BY <1>4, <1>11, <1>12, <2>4, <3>1
    <3> QED
      BY <1>12, <3>2, <3>3 DEF BelowParent
  <2>5. ASSUME NEW m \in C PROVE BelowParent(m, d + 1)'
    <3>1. Tree!Pid(Tree!Line(last))' = Tree!Ppid(m)'
      BY <1>0, <1>1, <1>11 DEF Tree!Pid, Tree!Ppid, Tree!ChildrenOf
    <3>2. Tree!Depth(last)' = d + 1 - 1
      BY <1>4, <1>11
    <3>3. last \in DOMAIN printed' /\ \A k \in DOMAIN printed' : ~(k > last)
      BY <1>10, <1>12
    <3> QED
      BY <1>4, <3>1, <3>2, <3>3 DEF BelowParent
  <2>6. ASSUME NEW a \in DOMAIN w, w[a][2] > 0 PROVE BelowParent(w[a][1], w[a][2])'
    <3>1. CASE a \in DOMAIN c
      BY <1>6, <1>7, <2>5, <3>1
    <3>2. CASE a \notin DOMAIN c
      <4>1. PICK k \in DOMAIN t : a = Len(c) + k
        BY <1>7, <3>2
      <4>2. w[a] = t[k] /\ t[k] = agenda[k + 1] /\ k + 1 \in DOMAIN agenda
        BY <1>3, <1>7, <4>1
      <4>3. t[k][2] \in Nat /\ t[k][2] <= d /\ BelowParent(t[k][1], t[k][2])
        BY <2>1, <2>2, <2>6, <4>2
      <4>4. BelowParent(t[k][1], t[k][2])'
        BY <2>4, <4>3
      <4> QED
        BY <4>2, <4>4
    <3> QED
      BY <3>1, <3>2
  <2>7. ASSUME ppc = "roots", NEW a \in DOMAIN w, w[a][2] = 0 PROVE w[a][1] \in Tree!Roots
    <3>1. a \notin DOMAIN c
      BY <1>4, <1>6, <1>7, <2>7
    <3>2. PICK k \in DOMAIN t : a = Len(c) + k
      BY <1>7, <3>1
    <3>3. w[a] = agenda[k + 1] /\ k + 1 \in DOMAIN agenda
      BY <1>3, <1>7, <3>2
    <3> QED
      BY <2>1, <2>7, <3>3
  <2>8. Tree!IndentedBelowParent'
    <3> SUFFICES ASSUME NEW i \in DOMAIN printed', Tree!Depth(i)' > 0
                 PROVE  \E j \in 1 .. i - 1 :
                          /\ Tree!Depth(j)' = Tree!Depth(i)' - 1
                          /\ Tree!Pid(Tree!Line(j))' = Tree!Ppid(Tree!Line(i))'
                          /\ \A k \in j + 1 .. i - 1 : Tree!Depth(k)' >= Tree!Depth(i)'
      BY DEF Tree!IndentedBelowParent
    <3>1. CASE i \in DOMAIN printed
      <4>1. PICK j \in 1 .. i - 1 :
              /\ Tree!Depth(j) = Tree!Depth(i) - 1
              /\ Tree!Pid(Tree!Line(j)) = Tree!Ppid(Tree!Line(i))
              /\ \A k \in j + 1 .. i - 1 : Tree!Depth(k) >= Tree!Depth(i)
        BY <1>11, <2>1, <3>1 DEF Tree!IndentedBelowParent
      <4>2. j \in DOMAIN printed /\ \A k \in j + 1 .. i - 1 : k \in DOMAIN printed
        BY <1>8, <3>1, <4>1
      <4>3. /\ Tree!Pid(Tree!Line(j))' = Tree!Pid(Tree!Line(j))
            /\ Tree!Ppid(Tree!Line(i))' = Tree!Ppid(Tree!Line(i))
        BY <1>1, <1>11, <3>1, <4>2 DEF Tree!Pid, Tree!Ppid
      <4> QED
        BY <1>11, <3>1, <4>1, <4>2, <4>3
    <3>2. CASE i = last
      <4>1. d > 0 /\ BelowParent(n, d)
        BY <1>3, <1>4, <1>11, <2>1, <3>2
      <4>2. PICK j \in DOMAIN printed :
              /\ Tree!Depth(j) = d - 1
              /\ Tree!Pid(Tree!Line(j)) = Tree!Ppid(n)
              /\ \A k \in DOMAIN printed : k > j => Tree!Depth(k) >= d
        BY <4>1 DEF BelowParent
      <4>3. j \in 1 .. i - 1 /\ \A k \in j + 1 .. i - 1 : k \in DOMAIN printed /\ k > j
        BY <1>0, <1>8, <3>2, <4>2
      <4>4. Tree!Pid(Tree!Line(j))' = Tree!Ppid(Tree!Line(i))'
        BY <1>1, <1>11, <3>2, <4>2 DEF Tree!Pid, Tree!Ppid
      <4> QED
        BY <1>11, <3>2, <4>2, <4>3, <4>4
    <3> QED
      BY <1>12, <3>1, <3>2
  <2>9. Tree!DepthZeroJustified'
    <3> SUFFICES ASSUME NEW i \in DOMAIN printed', Tree!Depth(i)' = 0
                 PROVE  Tree!Line(i)' \in Tree!Roots \/ Tree!RunsIntoCycle(Tree!Line(i)')
      BY <1>1, SameForest DEF Tree!DepthZeroJustified
    <3>1. CASE i \in DOMAIN printed
      BY <1>11, <2>1, <3>1 DEF Tree!DepthZeroJustified
    <3>2. CASE i = last
      <4>1. d = 0
        BY <1>11, <3>2
      <4>2. ppc = "roots" => n \in Tree!Roots
        BY <1>3, <1>4, <2>1, <4>1
      <4>3. ppc = "rest" => n \in Tree!Roots \/ Tree!RunsIntoCycle(n)
        BY <1>4, <2>1 DEF Tree!Nodes, PrintsNode
      <4>4. ppc \in {"roots", "rest"}
        BY DEF PrintsNode
      <4> QED
        BY <1>11, <3>2, <4>2, <4>3, <4>4
    <3> QED
      BY <1>12, <3>1, <3>2
  <2>10. ppc = "rest" => \A m \in Tree!Nodes :
             Visited(m)' \/ m \in Tree!Roots \/ Tree!RunsIntoCycle(m)
    BY <1>1, <2>1, SameForest DEF Visited, PrintsNode
  <2>11. \A a, b \in DOMAIN agenda' : a < b => agenda'[a][2] >= agenda'[b][2]
    BY <1>9, <2>3
  <2>12. \A a \in DOMAIN agenda' : agenda'[a][2] > 0 => BelowParent(agenda[a][1], agenda[a][2])'
    BY <1>9, <2>6 DEF BelowParent
  <2> QED
    BY <1>1, <1>9, <2>7, <2>8, <2>9, <2>10, <2>11, <2>12, SameForest DEF DepthsOK
<1> QED
  BY <1>13, <1>15, <1>16, <1>17, <1>18 DEF PrintInv

\* A node is printed once, and no node is left out.
LEMMA PrintNodeStep ==
  ASSUME PrintInv, Tree!PrintNode, UNCHANGED <<ask, commandVars>>
  PROVE  PrintInv'
<1>1. CASE Visited(Head(agenda)[1])
  <2>1. agenda[1] = Head(agenda)
    OBVIOUS
  <2> QED
    BY <1>1, <2>1, SkipNodeStep DEF Tree!PrintNode, Visited
<1>2. CASE ~Visited(Head(agenda)[1])
  <2> DEFINE n == Head(agenda)[1]
             d == Head(agenda)[2]
  <2>1. PICK s \in Tree!SortedByPid(Tree!ChildrenOf(Tree!Pid(n))) :
          agenda' = Tree!AtDepth(s, d + 1) \o Tail(agenda)
    BY <1>2 DEF Tree!PrintNode, Visited
  <2>2. PrintsNode(n, d, s)
    BY <1>2, <2>1 DEF Tree!PrintNode, Visited, PrintsNode
  <2> QED
    BY <2>2, PrintOneNodeStep
<1> QED
  BY <1>1, <1>2

\* The pass over the rest begins.  The nodes that are left are closed under
\* parents and have no root among them: what is visited has its children
\* visited, now that the agenda is empty.
LEMMA PrintRestStep ==
  ASSUME PrintInv, Tree!PrintRest, UNCHANGED <<ask, commandVars>>
  PROVE  PrintInv'
<1>1. /\ ppc = "roots" /\ ppc' = "rest" /\ agenda = << >>
      /\ UNCHANGED <<processes, visited, printed, format, command>>
      /\ agenda' = Tree!AtDepth([n \in DOMAIN processes |-> n], 0)
  BY DEF Tree!PrintRest, Tree!Nodes, commandVars
<1>2. PICK t : t = Tree!AtDepth([n \in DOMAIN processes |-> n], 0)
  OBVIOUS
<1>3. /\ t \in Seq((DOMAIN processes) \X Nat)
      /\ DOMAIN t = DOMAIN processes
      /\ \A k \in DOMAIN t : t[k][1] = k /\ t[k][2] = 0
  BY <1>2, AllNodes DEF PrintInv
<1>4. agenda' = t /\ Forested /\ DOMAIN agenda = {}
  BY <1>1, <1>2 DEF PrintInv, PrinterOK
<1>5. ListingOK' /\ PrintTypeOK'
  BY <1>1, <1>3, <1>4, SameListing DEF PrintInv, PrintTypeOK
<1>6. Tree!PrintedOnce'
  BY <1>1 DEF PrintInv, Tree!PrintedOnce, Tree!Pid, Tree!Line
<1>7. PrinterOK'
  BY <1>1, SameForest DEF PrintInv, PrinterOK, Tree!Line
<1>8. LeftToPrint'
  <2>1. ASSUME NEW n \in Tree!Nodes PROVE OnAgenda(n)'
    BY <1>3, <1>4, <2>1 DEF OnAgenda, Tree!Nodes
  <2> QED
    BY <1>1, <2>1, SameForest DEF LeftToPrint
<1>9. DepthsOK'
  <2> DEFINE U == {n \in Tree!Nodes : ~Visited(n)}
  <2>1. \A n \in Tree!Nodes : n \in Tree!Roots \/ Tree!Ppid(n) \in visited => Visited(n)
    BY <1>1, <1>4 DEF PrintInv, LeftToPrint, OnAgenda
  <2>2. \A m \in U, q \in Tree!Nodes : Tree!Pid(q) = Tree!Ppid(m) => q \in U
    BY <2>1 DEF Visited
  <2>3. U \cap Tree!Roots = {} /\ U \in SUBSET Tree!Nodes
    BY <2>1
  <2>4. \A n \in Tree!Nodes : Visited(n) \/ Tree!RunsIntoCycle(n)
    BY <2>2, <2>3 DEF Tree!RunsIntoCycle
  <2>5. \A a \in DOMAIN t : t[a][2] = 0
    BY <1>3
  <2>6. Tree!IndentedBelowParent' /\ Tree!DepthZeroJustified'
    BY <1>1, <1>4, SameForest
       DEF PrintInv, DepthsOK, Tree!IndentedBelowParent, Tree!DepthZeroJustified, Tree!Depth, Tree!Line
  <2> QED
    BY <1>1, <1>4, <2>4, <2>5, <2>6, SameForest DEF DepthsOK, Visited
<1> QED
  BY <1>5, <1>6, <1>7, <1>8, <1>9 DEF PrintInv

\* When the agenda is empty, everyone that hangs from a root was printed.
LEMMA ReturnStep ==
  ASSUME PrintInv, Tree!Return, UNCHANGED <<ask, commandVars>>
  PROVE  PrintInv'
<1>1. /\ ppc = "rest" /\ ppc' = "done" /\ agenda = << >> /\ DOMAIN agenda = {}
      /\ UNCHANGED <<processes, agenda, visited, printed, format, command>>
  BY DEF Tree!Return, commandVars
<1>2. Forested
  BY <1>1 DEF PrintInv, PrinterOK
<1>3. ListingOK' /\ PrintTypeOK' /\ Tree!PrintedOnce'
  BY <1>1, SameListing DEF PrintInv, PrintTypeOK, Tree!PrintedOnce, Tree!Pid, Tree!Line
<1>4. PrinterOK'
  BY <1>1, <1>2, SameForest DEF PrintInv, PrinterOK, Tree!Line
<1>5. LeftToPrint'
  BY <1>1, <1>2, SameForest DEF PrintInv, LeftToPrint, OnAgenda, Visited
<1>6. DepthsOK'
  <2>1. Tree!IndentedBelowParent' /\ Tree!DepthZeroJustified'
    BY <1>1, <1>2, SameForest
       DEF PrintInv, DepthsOK, Tree!IndentedBelowParent, Tree!DepthZeroJustified, Tree!Depth, Tree!Line
  <2> QED
    BY <1>1, <2>1 DEF DepthsOK
<1> QED
  BY <1>3, <1>4, <1>5, <1>6 DEF PrintInv

\* The three steps of the printer keep its invariant.
LEMMA PrintTreeStep ==
  ASSUME PrintInv, PrintTree, UNCHANGED ask
  PROVE  PrintInv'
<1>1. Forested /\ Tree!Next /\ UNCHANGED <<ask, commandVars>>
  BY DEF PrintTree, Forested
<1> QED
  BY <1>1, PrintRootsStep, PrintNodeStep, PrintRestStep, ReturnStep DEF Tree!Next

\* The other formats have the rows one after the other.
LEMMA PrintLinesStep ==
  ASSUME PrintInv, PrintLines, UNCHANGED ask
  PROVE  PrintInv'
<1>1. /\ ppc = "start" /\ ppc' = "done" /\ ~Forested
      /\ UNCHANGED <<format, command, processes, agenda, visited>>
  BY DEF PrintLines, Forested, commandVars
<1>2. PICK t : t = Tree!AtDepth([n \in DOMAIN processes |-> n], 0)
  OBVIOUS
<1>3. /\ t \in Seq((DOMAIN processes) \X Nat)
      /\ DOMAIN t = DOMAIN processes
      /\ \A k \in DOMAIN t : t[k] = <<k, 0>> /\ t[k][1] = k /\ t[k][2] = 0
  BY <1>2, AllNodes DEF PrintInv
<1>4. printed' = t
  BY <1>2 DEF PrintLines
<1>5. ListingOK' /\ PrintTypeOK'
  BY <1>1, <1>3, <1>4, SameListing DEF PrintInv, PrintTypeOK
<1>6. PrinterOK'
  BY <1>1, <1>3, <1>4, SameForest DEF PrintInv, PrinterOK
<1>7. Tree!PrintedOnce'
  <2>1. \A k \in DOMAIN printed' : Tree!Pid(Tree!Line(k))' = processes[k].pid
    BY <1>1, <1>3, <1>4 DEF Tree!Pid, Tree!Line
  <2>2. DOMAIN printed' = DOMAIN processes
    BY <1>3, <1>4
  <2> QED
    BY <2>1, <2>2 DEF Tree!PrintedOnce, PrintInv, ListingOK
<1>8. LeftToPrint' /\ DepthsOK'
  BY <1>1, SameForest DEF LeftToPrint, DepthsOK
<1> QED
  BY <1>5, <1>6, <1>7, <1>8 DEF PrintInv

\* The rows arrive, before anything is printed.
LEMMA RowsArrive ==
  ASSUME PrintInv, ppc = "none", ppc' = "start", ListingOK',
         UNCHANGED <<ask, commandVars, agenda, visited, printed>>
  PROVE  PrintInv'
<1>1. agenda = << >> /\ visited = {} /\ printed = << >> /\ UNCHANGED <<format, command>>
  BY DEF PrintInv, PrinterOK, commandVars
<1>2. DOMAIN printed = {}
  BY <1>1
<1>3. PrintTypeOK'
  BY <1>1 DEF PrintInv, PrintTypeOK
<1>4. PrinterOK' /\ LeftToPrint' /\ Tree!PrintedOnce'
  BY <1>1, <1>2 DEF PrinterOK, LeftToPrint, Tree!PrintedOnce
<1>5. DepthsOK'
  <2>1. DOMAIN agenda' = {} /\ DOMAIN printed' = {}
    BY <1>1, <1>2
  <2> QED
    BY <2>1 DEF DepthsOK, Tree!IndentedBelowParent, Tree!DepthZeroJustified
<1> QED
  BY <1>3, <1>4, <1>5 DEF PrintInv

\* The rows of a listing arrive with distinct PIDs; instead of them there may
\* be an error, and nothing is printed.
LEMMA TakeRowsStep ==
  ASSUME PrintInv, TakeRows
  PROVE  PrintInv'
<1>1. /\ ppc = "none"
      /\ \/ processes' \in Listings /\ ppc' = "start"
         \/ processes' = processes /\ ppc' = "done"
      /\ UNCHANGED <<ask, commandVars, agenda, visited, printed>>
  BY DEF TakeRows, inspectVars, reportVars
<1>2. CASE processes' \in Listings /\ ppc' = "start"
  <2>1. ListingOK'
    BY <1>1, <1>2, DisplayAssumption DEF ListingOK, Row
  <2> QED
    BY <1>1, <1>2, <2>1, RowsArrive
<1>3. CASE processes' = processes /\ ppc' = "done"
  <2>1. /\ processes' = << >> /\ agenda' = << >> /\ visited' = {} /\ printed' = << >>
        /\ DOMAIN processes' = {} /\ DOMAIN printed' = {}
        /\ UNCHANGED <<format, command>>
    BY <1>1, <1>3 DEF PrintInv, PrinterOK, commandVars
  <2>2. PrintTypeOK' /\ ListingOK'
    BY <1>3, <2>1 DEF PrintInv, PrintTypeOK, ListingOK
  <2>3. ~Forested'
    BY <2>1 DEF Forested
  <2>4. PrinterOK' /\ LeftToPrint' /\ DepthsOK'
    BY <1>3, <2>1, <2>3 DEF PrinterOK, LeftToPrint, DepthsOK
  <2>5. Tree!PrintedOnce'
    BY <2>1 DEF Tree!PrintedOnce
  <2> QED
    BY <2>2, <2>4, <2>5 DEF PrintInv
<1> QED
  BY <1>1, <1>2, <1>3

\* The one row of show --tree is a listing as well.
LEMMA TakeOneRowStep ==
  ASSUME PrintInv, TakeOneRow, row.pid = ask.pid, ask.pid \in Pids, row.ppid \in Nat
  PROVE  PrintInv'
<1>1. /\ ppc = "none" /\ ppc' = "start"
      /\ processes' = <<[pid |-> row.pid, ppid |-> row.ppid]>>
      /\ UNCHANGED <<ask, commandVars, agenda, visited, printed>>
  BY DEF TakeOneRow, inspectVars, reportVars
<1>2. [pid |-> row.pid, ppid |-> row.ppid] \in Row
  BY DisplayAssumption DEF Row
<1>3. /\ processes' \in Seq(Row) /\ DOMAIN processes' = {1}
      /\ processes'[1].pid = ask'.pid
  BY <1>1, <1>2
<1>4. ListingOK'
  BY <1>3 DEF ListingOK
<1> QED
  BY <1>1, <1>4, RowsArrive

\* Nothing was listed: the printer's invariant holds.
LEMMA PrinterInit ==
  ASSUME Init
  PROVE  PrintInv
<1>1. /\ ppc = "none" /\ processes = << >> /\ agenda = << >> /\ visited = {} /\ printed = << >>
      /\ DOMAIN processes = {} /\ DOMAIN agenda = {} /\ DOMAIN printed = {}
      /\ command \in {"list", "show"} /\ format \in Formats
  BY DEF Init
<1>2. PrintTypeOK /\ ListingOK
  BY <1>1 DEF PrintTypeOK, ListingOK
<1>3. PrinterOK /\ LeftToPrint /\ Tree!PrintedOnce /\ ~Forested
  BY <1>1 DEF PrinterOK, LeftToPrint, Tree!PrintedOnce, Forested
<1> QED
  BY <1>2, <1>3 DEF PrintInv, DepthsOK

\* What the runs check follows.
LEMMA PrintInvImplies ==
  ASSUME PrintInv
  PROVE  PrintedExactlyOnce /\ Indentation
<1>1. Tree!NothingDropped
  <2> SUFFICES ASSUME ppc = "done", NEW n \in Tree!Nodes
               PROVE  \E k \in DOMAIN printed : Tree!Pid(Tree!Line(k)) = Tree!Pid(n)
    BY DEF Tree!NothingDropped
  <2>1. CASE Forested
    BY <2>1 DEF PrintInv, LeftToPrint, PrinterOK, Visited
  <2>2. CASE ~Forested
    <3>1. n \in DOMAIN printed /\ printed[n] = <<n, 0>>
      BY <2>2 DEF PrintInv, PrinterOK, Tree!Nodes
    <3>2. Tree!Line(n) = n
      BY <3>1 DEF Tree!Line
    <3> QED
      BY <3>1, <3>2
  <2> QED
    BY <2>1, <2>2
<1>2. PrintedExactlyOnce
  BY <1>1 DEF PrintInv, PrintedExactlyOnce
<1>3. Indentation
  <2>1. CASE processes # << >>
    BY <2>1 DEF PrintInv, DepthsOK, Indentation, Forested
  <2>2. CASE processes = << >>
    <3>1. DOMAIN printed = {}
      <4>1. DOMAIN processes = {}
        BY <2>2
      <4>2. \A k \in DOMAIN printed : k \in 1 .. Len(printed) /\ printed[k] \in (DOMAIN processes) \X Nat
        BY ElementOfSeq, LenProperties DEF PrintInv, PrintTypeOK
      <4> QED
        BY <4>1, <4>2
    <3> QED
      BY <3>1 DEF Indentation, Tree!IndentedBelowParent, Tree!DepthZeroJustified
  <2> QED
    BY <2>1, <2>2
<1> QED
  BY <1>2, <1>3
-----------------------------------------------------------------------------
(***************************************************************************)
(* The report's steps: which belong to which section, and when there is a  *)
(* details frame, which is of the PID asked for.                           *)
(***************************************************************************)
Underway == ipc \notin {"idle", "details", "next", "done"}

FrameOK ==
  /\ command = "list" => ipc = "idle"
  /\ ipc = "idle" => dpc = "idle"
  /\ ipc = "details" => dpc # "idle"
  /\ dpc # "idle" /\ ipc # "details" => ipc = "done" /\ ask.asRow
  /\ dpc # "idle" => row.pid = ask.pid
  /\ ipc \in {"idle", "details"} \/ ask.asRow => at = 0 /\ said = << >>
  /\ ask.asRow => ~Underway /\ ipc # "next"
  /\ status = "none" <=> ipc # "done"
  /\ at > 0 => Order[at] \in ask.wants /\ said # << >>
  /\ ipc = "next" => said # << >>
  /\ status = "ok" /\ ~ask.asRow => said # << >>
  /\ ipc = "done" /\ said = << >> => at = 0

\* The section a step is of.
Fits(st) ==
  /\ st = "family" => Section \in {"children", "descendants"}
  /\ st \in {"fdExists", "fd", "links"} => Section \in {"files", "network"}
  /\ st \in {"taskExists", "task", "stats"} => Section = "threads"
  /\ st = "file" => Section \in {"env", "maps", "limits", "cgroup", "affinity"}
  /\ st \in Listed => Section = "network"
  /\ st \in {"first", "second"} <=>
       st \notin {"idle", "details", "next", "done"} /\ Section \in {"cpu", "io"}

SectionOK == (Underway => at > 0) /\ Fits(ipc)

(***************************************************************************)
(* The sections answered so far, in their order.                           *)
(***************************************************************************)
PlaceOf(s) == IF s = "details" THEN 0 ELSE CHOOSE i \in DOMAIN Order : Order[i] = s
Answered == {said[k].section : k \in DOMAIN said}
DueBy(s) == PlaceOf(s) < at \/ (PlaceOf(s) = at /\ ipc = "next") \/ status = "ok"

OrderOK ==
  /\ \A j, k \in DOMAIN said : j < k => PlaceOf(said[j].section) < PlaceOf(said[k].section)
  /\ \A k \in DOMAIN said :
       PlaceOf(said[k].section) < at \/ (PlaceOf(said[k].section) = at /\ ~Underway)
  /\ said # << >> => Answered = {"details"} \cup {s \in ask.wants : DueBy(s)}
  /\ status = "failed" /\ said # << >> => Section = "threads" /\ ask.pid \notin lived

(***************************************************************************)
(* A process that lives through the report and can be opened: no read of   *)
(* it fails, and all are of its one life.                                  *)
(***************************************************************************)
Survivor == ask.pid \in lived /\ table[ask.pid].access # "none"
EntryOK(s) ==
  IF s.section \in Owed(table[ask.pid].access) \cup {"details"}
  THEN s.what = "value" /\ s.of = {Born}
  ELSE s.of = {} /\ (s.what = "error" <=> s.section \in {"env", "maps"})

\* The steps that follow an opening of its directory, and what it has shown.
Opened(st) == st \notin {"idle", "details", "next", "done", "exists", "opendir", "first"}

ReadSoFar(st, life) ==
  /\ Opened(st) /\ st # "second" /\ ask.pid \in lived => table[ask.pid].access # "none"
  /\ Survivor =>
       /\ Opened(st) /\ st # "second" => life = Born
       /\ st = "second" =>
            life = IF Section = "cpu" \/ table[ask.pid].access = "full" THEN Born ELSE 0
       /\ st \in Listed \cup {"links"} => table[ask.pid].access = "full"

SurvivorOK ==
  /\ ReadSoFar(ipc, from)
  /\ Survivor =>
       /\ status # "failed"
       /\ derr = "none"
       /\ dpc # "idle" => \A x \in Parts : row.part[x] \in {0, Born}
       /\ dpc \in OptionalParts \cup {"done"} => row.part["stat"] = Born
       /\ \A k \in DOMAIN said : EntryOK(said[k])

(***************************************************************************)
(* Lives only go forward: nothing read so far is younger than the process  *)
(* that has the PID now, and what a section has read first is no older     *)
(* than what the sections above it said.                                   *)
(***************************************************************************)
Past(x) == x <= births /\ (Born # 0 => x <= Born)

LivesOK ==
  /\ \A x \in Parts : Past(row.part[x])
  /\ Past(from)
  /\ \A k \in DOMAIN said : \A x \in said[k].of : Past(x)
  /\ Underway /\ from # 0 => \A k \in DOMAIN said : \A x \in said[k].of : x <= from
  /\ NeverBack

(***************************************************************************)
(* What a process has open all through the section is kept, whatever the   *)
(* process has open while it is made is owned.  Nobody has a socket open   *)
(* that there is not yet, and what a line is of stays in its table.  While *)
(* the tables are read, what the PID's survivor kept is among the inodes,  *)
(* and among the lines if it is in a table that has been read.             *)
(***************************************************************************)
TableRead(k) == ipc = "next" \/ \E l \in DOMAIN Tables : l > k /\ ipc = Tables[l]

SocketsOK ==
  /\ \A i \in Inodes : sockets[i].table = "none" => sockets[i].holders = {}
  /\ kept \subseteq Holding(ask.pid)
  /\ Reading => Holding(ask.pid) \subseteq owned /\ inodes \subseteq owned
  /\ \A i \in lines : sockets[i].table \in Listed
  /\ Reading => \A i \in lines : i \in owned \/ sockets[i].number \in owned
  /\ Section = "network" /\ ipc \in Listed /\ ask.pid \in lived => kept \subseteq inodes
  /\ Section = "network" /\ ask.pid \in lived /\ Own =>
       \A k \in DOMAIN Tables : TableRead(k) =>
         \A i \in kept : sockets[i].table = Tables[k] => i \in lines

TableOK == LivedAlive /\ ParentsAlive /\ BirthsBounded

ReportInv ==
  /\ InspectTypeOK /\ TableOK
  /\ FrameOK /\ SectionOK /\ OrderOK /\ SurvivorOK /\ LivesOK /\ SocketsOK

-----------------------------------------------------------------------------
(* The sections and the tables by their names. *)

\* The order of the sections, spelled out.
LEMMA OrderValues ==
  /\ DOMAIN Order = 1 .. 12 /\ Len(Order) = 12
  /\ Order[1] = "children" /\ Order[2] = "descendants" /\ Order[3] = "files"
  /\ Order[4] = "network" /\ Order[5] = "threads" /\ Order[6] = "env" /\ Order[7] = "maps"
  /\ Order[8] = "limits" /\ Order[9] = "cgroup" /\ Order[10] = "affinity"
  /\ Order[11] = "cpu" /\ Order[12] = "io"
BY DEF Order

\* There are twelve sections.
LEMMA SectionNames ==
  Sections = {"children", "descendants", "files", "network", "threads", "env", "maps",
              "limits", "cgroup", "affinity", "cpu", "io"}
<1>1. \A i \in 1 .. 12 : i \in {1, 2, 3, 4, 5, 6, 7, 8, 9, 10, 11, 12}
  OBVIOUS
<1> QED
  BY <1>1, OrderValues DEF Sections

\* No section comes twice.
LEMMA OrderDistinct ==
  \A i, j \in 1 .. 12 : Order[i] = Order[j] => i = j
<1>1. \A i \in 1 .. 12 : i \in {1, 2, 3, 4, 5, 6, 7, 8, 9, 10, 11, 12}
  OBVIOUS
<1> QED
  BY <1>1, OrderValues

\* Every section has its place, and no other has it.
LEMMA Places ==
  /\ PlaceOf("details") = 0
  /\ \A i \in 1 .. 12 : PlaceOf(Order[i]) = i
  /\ \A s \in Sections : PlaceOf(s) \in 1 .. 12 /\ Order[PlaceOf(s)] = s /\ s # "details"
<1>1. ASSUME NEW i \in 1 .. 12 PROVE PlaceOf(Order[i]) = i
  <2>1. Order[i] \in Sections
    BY OrderValues DEF Sections
  <2>2. Order[i] # "details"
    BY <2>1, SectionNames
  <2>3. \E k \in DOMAIN Order : Order[k] = Order[i]
    BY OrderValues
  <2>4. /\ (CHOOSE k \in DOMAIN Order : Order[k] = Order[i]) \in DOMAIN Order
        /\ Order[CHOOSE k \in DOMAIN Order : Order[k] = Order[i]] = Order[i]
    BY <2>3
  <2>5. (CHOOSE k \in DOMAIN Order : Order[k] = Order[i]) = i
    BY <2>4, OrderDistinct, OrderValues
  <2> QED
    BY <2>2, <2>5 DEF PlaceOf
<1>2. ASSUME NEW s \in Sections
      PROVE  PlaceOf(s) \in 1 .. 12 /\ Order[PlaceOf(s)] = s /\ s # "details"
  <2>1. PICK i \in 1 .. 12 : s = Order[i]
    BY OrderValues DEF Sections
  <2> QED
    BY <1>1, <2>1, SectionNames
<1> QED
  BY <1>1, <1>2 DEF PlaceOf

\* The order of the four tables of sockets, spelled out.
LEMMA TableValues ==
  /\ DOMAIN Tables = 1 .. 4 /\ Len(Tables) = 4
  /\ Tables[1] = "tcp" /\ Tables[2] = "tcp6" /\ Tables[3] = "udp" /\ Tables[4] = "udp6"
  /\ Listed = {"tcp", "tcp6", "udp", "udp6"}
  /\ \A k, l \in 1 .. 4 : Tables[k] = Tables[l] => k = l
<1>1. \A i \in 1 .. 4 : i \in {1, 2, 3, 4}
  OBVIOUS
<1>2. /\ DOMAIN Tables = 1 .. 4 /\ Len(Tables) = 4
      /\ Tables[1] = "tcp" /\ Tables[2] = "tcp6" /\ Tables[3] = "udp" /\ Tables[4] = "udp6"
  BY DEF Tables
<1>3. Listed = {"tcp", "tcp6", "udp", "udp6"}
  BY <1>1, <1>2 DEF Listed
<1> QED
  BY <1>1, <1>2, <1>3

\* The section being made: its name, its place, and that it was asked for.
LEMMA SectionAt ==
  ASSUME InspectTypeOK, FrameOK
  PROVE  /\ at \in 0 .. 12 /\ PlaceOf(Section) = at
         /\ at = 0 <=> Section = "details"
         /\ at > 0 => Section \in Sections /\ Section = Order[at] /\ Section \in ask.wants
<1>1. at \in 0 .. 12
  BY OrderValues DEF InspectTypeOK
<1>2. CASE at = 0
  BY <1>1, <1>2, Places DEF Section
<1>3. CASE at > 0
  <2>1. Section = Order[at] /\ at \in 1 .. 12
    BY <1>1, <1>3 DEF Section
  <2>2. Section \in Sections
    BY <2>1, OrderValues DEF Sections
  <2> QED
    BY <1>3, <2>1, <2>2, Places DEF FrameOK
<1> QED
  BY <1>1, <1>2, <1>3

-----------------------------------------------------------------------------
(* The kernel's steps. *)

\* What a step of the kernel does to the sockets: it opens one that there was
\* not yet, or changes who has one open.
SocketStep(i) ==
  /\ sockets'[i] \in Socket
  /\ \/ sockets'[i].table = sockets[i].table /\ sockets'[i].number = sockets[i].number
     \/ sockets[i].table = "none"
  /\ sockets'[i].table = "none" => sockets[i].table = "none" /\ sockets'[i].holders = {}

\* What the kernel may do to a socket: open it once, hand it on, and close it.
LEMMA KernelSockets ==
  ASSUME InspectTypeOK, SocketsOK, Kernels
  PROVE  /\ sockets' \in [Inodes -> Socket]
         /\ \A i \in Inodes : SocketStep(i)
<1>1. sockets \in [Inodes -> Socket] /\ \A i \in Inodes : sockets[i] \in Socket
  BY DEF InspectTypeOK
<1>2. ASSUME NEW i \in Inodes, NEW x \in SUBSET Pids
      PROVE  [sockets[i] EXCEPT !.holders = x] \in Socket
             /\ [sockets[i] EXCEPT !.holders = x].table = sockets[i].table
             /\ [sockets[i] EXCEPT !.holders = x].number = sockets[i].number
             /\ [sockets[i] EXCEPT !.holders = x].holders = x
  BY <1>1 DEF Socket
<1>3. \A i \in Inodes : sockets[i].holders \in SUBSET Pids
  BY <1>1 DEF Socket
<1>4. \A i \in Inodes : sockets[i].table = "none" => sockets[i].holders = {}
  BY DEF SocketsOK
<1>5. ASSUME NEW parent \in Pids, NEW child \in Pids, NEW a \in AccessModes,
             KernelForks(parent, child, a)
      PROVE  sockets' \in [Inodes -> Socket] /\ \A i \in Inodes : SocketStep(i)
  <2>1. sockets' = [i \in Inodes |->
                     IF parent \in sockets[i].holders
                     THEN [sockets[i] EXCEPT !.holders = sockets[i].holders \cup {child}]
                     ELSE sockets[i]]
    BY <1>5 DEF KernelForks
  <2>2. ASSUME NEW i \in Inodes PROVE SocketStep(i)
    <3>1. CASE parent \in sockets[i].holders
      <4>1. sockets'[i] = [sockets[i] EXCEPT !.holders = sockets[i].holders \cup {child}]
        BY <2>1, <3>1
      <4>2. sockets[i].holders \cup {child} \in SUBSET Pids
        BY <1>3
      <4> QED
        BY <1>2, <1>4, <3>1, <4>1, <4>2 DEF SocketStep
    <3>2. CASE parent \notin sockets[i].holders
      <4>1. sockets'[i] = sockets[i]
        BY <2>1, <3>2
      <4> QED
        BY <1>1, <1>4, <4>1 DEF SocketStep
    <3> QED
      BY <3>1, <3>2
  <2>3. \A i \in Inodes : sockets'[i] \in Socket
    BY <2>2 DEF SocketStep
  <2> QED
    BY <2>1, <2>2, <2>3
<1>6. ASSUME NEW p \in Pids, KernelReaps(p)
      PROVE  sockets' \in [Inodes -> Socket] /\ \A i \in Inodes : SocketStep(i)
  <2>1. sockets' = [i \in Inodes |-> [sockets[i] EXCEPT !.holders = sockets[i].holders \ {p}]]
    BY <1>6 DEF KernelReaps, Drops
  <2>2. ASSUME NEW i \in Inodes PROVE SocketStep(i)
    <3>1. sockets[i].holders \ {p} \in SUBSET Pids
      BY <1>3
    <3>2. sockets'[i] = [sockets[i] EXCEPT !.holders = sockets[i].holders \ {p}]
      BY <2>1
    <3> QED
      BY <1>2, <1>4, <3>1, <3>2 DEF SocketStep
  <2>3. \A i \in Inodes : sockets'[i] \in Socket
    BY <2>2 DEF SocketStep
  <2> QED
    BY <2>1, <2>2, <2>3
<1>7. ASSUME NEW p \in Pids, NEW i \in Inodes, NEW s \in NewSockets, KernelOpens(p, i, s)
      PROVE  sockets' \in [Inodes -> Socket] /\ \A j \in Inodes : SocketStep(j)
  <2> DEFINE new == [holders |-> {p}, table |-> s.table, number |-> s.number]
  <2>1. new \in Socket /\ new.table # "none"
    BY InspectAssumption, TableValues DEF Socket
  <2>2. sockets' = [sockets EXCEPT ![i] = new] /\ sockets[i].table = "none"
    BY <1>7 DEF KernelOpens
  <2> HIDE DEF new
  <2>3. ASSUME NEW j \in Inodes PROVE SocketStep(j)
    <3>1. CASE j = i
      <4>1. sockets'[j] = new
        BY <1>1, <2>2, <3>1
      <4> QED
        BY <2>1, <2>2, <3>1, <4>1 DEF SocketStep
    <3>2. CASE j # i
      <4>1. sockets'[j] = sockets[j]
        BY <1>1, <2>2, <3>2
      <4> QED
        BY <1>1, <1>4, <4>1 DEF SocketStep
    <3> QED
      BY <3>1, <3>2
  <2> QED
    BY <1>1, <2>1, <2>2, <2>3
<1>8. ASSUME NEW p \in Pids, NEW i \in Inodes, KernelCloses(p, i)
      PROVE  sockets' \in [Inodes -> Socket] /\ \A j \in Inodes : SocketStep(j)
  <2> DEFINE new == [sockets[i] EXCEPT !.holders = sockets[i].holders \ {p}]
  <2>1. /\ new \in Socket /\ new.table = sockets[i].table /\ new.number = sockets[i].number
        /\ new.holders \subseteq sockets[i].holders
    BY <1>2, <1>3
  <2>2. sockets' = [sockets EXCEPT ![i] = new]
    BY <1>8 DEF KernelCloses, Drops
  <2> HIDE DEF new
  <2>3. ASSUME NEW j \in Inodes PROVE SocketStep(j)
    <3>1. CASE j = i
      <4>1. sockets'[j] = new
        BY <1>1, <2>2, <3>1
      <4> QED
        BY <1>4, <2>1, <3>1, <4>1 DEF SocketStep
    <3>2. CASE j # i
      <4>1. sockets'[j] = sockets[j]
        BY <1>1, <2>2, <3>2
      <4> QED
        BY <1>1, <1>4, <4>1 DEF SocketStep
    <3> QED
      BY <3>1, <3>2
  <2> QED
    BY <1>1, <2>1, <2>2, <2>3
<1> QED
  BY <1>5, <1>6, <1>7, <1>8 DEF Kernels

\* What it does to the processes, and what it leaves alone.
LEMMA KernelSteps ==
  ASSUME InspectTypeOK, TableOK, Kernels
  PROVE  /\ ProcTypeOK' /\ TableOK'
         /\ lived' \subseteq lived
         /\ \A p \in lived' : table'[p].born = table[p].born /\ table'[p].access = table[p].access
         /\ births' \in {births, births + 1}
         /\ \A p \in Pids : \/ table'[p].born \in {table[p].born, 0}
                            \/ table'[p].born = births + 1 /\ births' = births + 1
         /\ UNCHANGED <<detailsVars, reportVars>> /\ Track
<1>1. UNCHANGED <<detailsVars, reportVars>> /\ Track
  BY DEF Kernels, KernelForks, KernelReaps, KernelOpens, KernelCloses
<1>2. Kernel \/ UNCHANGED procVars
  BY DEF Kernels, Kernel, KernelForks, KernelReaps, KernelOpens, KernelCloses
<1>3. ProcTypeOK /\ LivedAlive /\ ParentsAlive /\ BirthsBounded
  BY DEF InspectTypeOK, TableOK
<1>4. CASE Kernel
  <2>1. BirthsBounded'
    <3> SUFFICES ASSUME NEW p \in Pids PROVE table'[p].born <= births'
      BY DEF BirthsBounded
    <3>1. table[p] \in Processes /\ births \in Nat /\ table[p].born <= births
      BY <1>3 DEF ProcTypeOK, BirthsBounded
    <3>2. table[p].born \in Nat
      BY <3>1 DEF Processes
    <3> QED
      BY <1>3, <1>4, <3>1, <3>2, KernelBirths
  <2> QED
    BY <1>1, <1>3, <1>4, <2>1, KernelType, KernelKeeps, KernelBirths DEF TableOK
<1>5. CASE UNCHANGED procVars
  <2>1. UNCHANGED <<table, births, lived, settled, views>>
    BY <1>5 DEF procVars
  <2>2. ProcTypeOK' /\ TableOK'
    BY <1>3, <2>1 DEF ProcTypeOK, TableOK, LivedAlive, ParentsAlive, BirthsBounded, Alive
  <2> QED
    BY <1>1, <2>1, <2>2
<1> QED
  BY <1>2, <1>4, <1>5

\* What the report is asked for is a process and some of the sections.
LEMMA Asked ==
  ASSUME InspectTypeOK
  PROVE  ask.pid \in Pids /\ ask.wants \subseteq Sections /\ ask.asRow \in BOOLEAN
<1>1. ask \in [pid : Pids, wants : SUBSET Sections, asRow : BOOLEAN]
  BY InspectAssumption DEF InspectTypeOK
<1> QED
  BY <1>1

\* What has been said is a list of entries.
Entry == [section : Sections \cup {"details"}, what : {"value", "error"}, of : SUBSET (Nat \ {0})]

\* What was printed is a sequence of answers.
LEMMA SaidTypes ==
  ASSUME InspectTypeOK
  PROVE  /\ said \in Seq(Entry) /\ DOMAIN said = 1 .. Len(said) /\ Len(said) \in Nat
         /\ \A k \in DOMAIN said : said[k] \in Entry
         /\ \A k \in DOMAIN said : said[k].section \in Sections \cup {"details"}
         /\ \A k \in DOMAIN said : \A x \in said[k].of : x \in Nat /\ x # 0
<1>1. said \in Seq(Entry)
  BY DEF InspectTypeOK, Entry
<1>2. DOMAIN said = 1 .. Len(said) /\ Len(said) \in Nat /\ \A k \in DOMAIN said : said[k] \in Entry
  BY <1>1, ElementOfSeq, LenProperties
<1> QED
  BY <1>1, <1>2 DEF Entry

\* The process asked for, if it survives, is the one it was.
LEMMA KernelSurvivor ==
  ASSUME InspectTypeOK, TableOK, Kernels
  PROVE  /\ ask' = ask
         /\ Survivor' => Survivor /\ Born' = Born
         /\ ask.pid \in lived' =>
              ask.pid \in lived /\ table'[ask.pid].access = table[ask.pid].access
              /\ Born' = Born
<1>1. UNCHANGED ask
  BY KernelSteps DEF reportVars
<1> QED
  BY <1>1, KernelSteps DEF Survivor, Born

\* A process of the past stays in the past.
LEMMA KernelLives ==
  ASSUME InspectTypeOK, TableOK, Kernels, NEW x \in Nat, Past(x)
  PROVE  Past(x)'
<1>1. ask.pid \in Pids /\ UNCHANGED ask
  BY Asked, KernelSteps DEF reportVars
<1>2. births \in Nat /\ table[ask.pid].born \in Nat
  <2>1. table[ask.pid] \in Processes /\ births \in Nat
    BY <1>1 DEF InspectTypeOK, ProcTypeOK
  <2> QED
    BY <2>1 DEF Processes
<1>3. births' \in {births, births + 1}
  BY KernelSteps
<1>4. \/ table'[ask.pid].born \in {table[ask.pid].born, 0}
      \/ table'[ask.pid].born = births + 1 /\ births' = births + 1
  BY <1>1, KernelSteps
<1> QED
  BY <1>1, <1>2, <1>3, <1>4 DEF Past, Born

\* The kernel keeps the types of the report's variables.
LEMMA KernelReportTypes ==
  ASSUME InspectTypeOK, TableOK, SocketsOK, Kernels
  PROVE  InspectTypeOK'
<1>1. ProcTypeOK' /\ UNCHANGED <<detailsVars, reportVars>> /\ Track
  BY KernelSteps
<1>2. sockets' \in [Inodes -> Socket]
  BY KernelSockets
<1>3. kept' \subseteq owned' /\ owned' \subseteq Inodes
  <2>1. kept \subseteq owned /\ owned \subseteq Inodes
    BY DEF InspectTypeOK
  <2> QED
    BY <1>1, <2>1 DEF Track
<1>4. DetailsTypeOK'
  BY <1>1 DEF InspectTypeOK, DetailsTypeOK, detailsVars
<1> QED
  BY <1>1, <1>2, <1>3, <1>4 DEF InspectTypeOK, reportVars

\* The kernel does not change what the report is about to print.
LEMMA KernelReportOrder ==
  ASSUME ReportInv, Kernels, UNCHANGED commandVars
  PROVE  FrameOK' /\ SectionOK' /\ OrderOK'
<1>1. /\ UNCHANGED <<dpc, row, derr, ask, ipc, at, from, inodes, lines, said, status, command>>
      /\ lived' \subseteq lived
  BY KernelSteps DEF ReportInv, detailsVars, reportVars, commandVars
<1>2. FrameOK'
  BY <1>1 DEF ReportInv, FrameOK, Underway
<1>3. SectionOK'
  BY <1>1 DEF ReportInv, SectionOK, Fits, Underway, Section
<1>4. OrderOK'
  <2>1. \A s : DueBy(s)' <=> DueBy(s)
    BY <1>1 DEF DueBy, PlaceOf
  <2>2. Answered' = Answered /\ \A s : PlaceOf(s)' = PlaceOf(s)
    BY <1>1 DEF Answered, PlaceOf
  <2> QED
    BY <1>1, <2>1, <2>2 DEF ReportInv, OrderOK, Underway, Section
<1> QED
  BY <1>2, <1>3, <1>4

\* What was printed of a survivor, or of the past, stays so.
LEMMA KernelReportLives ==
  ASSUME ReportInv, Kernels
  PROVE  SurvivorOK' /\ LivesOK'
<1>1. UNCHANGED <<dpc, row, derr, ask, ipc, at, from, inodes, lines, said, status>>
  BY KernelSteps DEF ReportInv, detailsVars, reportVars
<1>2. /\ Survivor' => Survivor /\ Born' = Born
      /\ ask.pid \in lived' =>
           ask.pid \in lived /\ table'[ask.pid].access = table[ask.pid].access /\ Born' = Born
  BY KernelSurvivor DEF ReportInv
<1>3. SurvivorOK'
  <2>1. Section' = Section
    BY <1>1 DEF Section
  <2>2. ReadSoFar(ipc, from)'
    <3>1. ReadSoFar(ipc, from)
      BY DEF ReportInv, SurvivorOK
    <3>2. Survivor' => /\ Survivor /\ Born' = Born
                       /\ table'[ask.pid].access = table[ask.pid].access
      BY <1>1, <1>2 DEF Survivor
    <3> QED
      BY <1>1, <1>2, <2>1, <3>1, <3>2 DEF ReadSoFar, Opened
  <2>3. ASSUME Survivor'
        PROVE  /\ Survivor /\ Born' = Born /\ table'[ask.pid].access = table[ask.pid].access
               /\ \A k \in DOMAIN said : EntryOK(said[k])'
    <3>1. Survivor /\ Born' = Born /\ table'[ask.pid].access = table[ask.pid].access
      BY <1>1, <1>2, <2>3 DEF Survivor
    <3>2. \A k \in DOMAIN said : EntryOK(said[k])
      BY <3>1 DEF ReportInv, SurvivorOK
    <3> QED
      BY <1>1, <3>1, <3>2 DEF EntryOK
  <2> QED
    BY <1>1, <2>1, <2>2, <2>3 DEF ReportInv, SurvivorOK
<1>4. LivesOK'
  <2>1. ASSUME NEW x \in Nat, Past(x) PROVE Past(x)'
    BY <2>1, KernelLives DEF ReportInv
  <2>2. \A x \in Parts : row.part[x] \in Nat
    BY DEF ReportInv, InspectTypeOK, DetailsTypeOK, Rows
  <2>3. from \in Nat
    BY DEF ReportInv, InspectTypeOK
  <2>4. \A k \in DOMAIN said : \A x \in said[k].of : x \in Nat
    BY SaidTypes DEF ReportInv
  <2>5. /\ \A x \in Parts : Past(row.part[x])'
        /\ Past(from)'
        /\ \A k \in DOMAIN said : \A x \in said[k].of : Past(x)'
    BY <1>1, <2>1, <2>2, <2>3, <2>4 DEF ReportInv, LivesOK, Past, Born
  <2> QED
    BY <1>1, <2>5 DEF ReportInv, LivesOK, NeverBack, Underway
<1> QED
  BY <1>3, <1>4

\* A line of a table or a link that was read stays that of its socket.
LEMMA KernelReportSockets ==
  ASSUME ReportInv, Kernels
  PROVE  SocketsOK'
<1>1. UNCHANGED <<ask, ipc, at, inodes, lines>> /\ Track
  BY KernelSteps DEF ReportInv, reportVars
<1>2. \A i \in Inodes : SocketStep(i)
  BY KernelSockets DEF ReportInv
<1>3. /\ ask.pid \in Pids /\ inodes \subseteq Inodes /\ lines \subseteq Inodes
      /\ kept \subseteq owned /\ owned \subseteq Inodes
  BY Asked DEF ReportInv, InspectTypeOK
<1>4. /\ kept' = kept \cap Holding(ask.pid)'
      /\ owned' = IF Reading THEN owned \cup Holding(ask.pid)' ELSE owned
      /\ Holding(ask.pid)' \subseteq Inodes
  BY <1>1 DEF Track, Holding
<1>5. Section' = Section /\ (Reading' <=> Reading)
  BY <1>1 DEF Reading, Section
<1>6. \A i \in Inodes : sockets'[i].table = "none" => sockets'[i].holders = {}
  BY <1>2 DEF SocketStep
<1>7. kept' \subseteq Holding(ask.pid)' /\ (Reading' => Holding(ask.pid)' \subseteq owned')
  BY <1>4, <1>5
<1>8. Reading' => inodes' \subseteq owned'
  BY <1>1, <1>4, <1>5 DEF ReportInv, SocketsOK
<1>9. \A i \in lines : /\ sockets[i].table \in Listed /\ sockets'[i].table = sockets[i].table
                       /\ sockets'[i].number = sockets[i].number
  <2>1. \A i \in lines : sockets[i].table \in Listed /\ i \in Inodes
    BY <1>3 DEF ReportInv, SocketsOK
  <2> QED
    BY <1>2, <2>1, TableValues DEF SocketStep
<1>10. Reading' => \A i \in lines' : i \in owned' \/ sockets'[i].number \in owned'
  <2>1. Reading => \A i \in lines : i \in owned \/ sockets[i].number \in owned
    BY DEF ReportInv, SocketsOK
  <2> QED
    BY <1>1, <1>4, <1>5, <1>9, <2>1
<1>11. (Section = "network" /\ ipc \in Listed /\ ask.pid \in lived => kept \subseteq inodes)'
  <2>1. ask.pid \in lived' => ask.pid \in lived
    BY KernelSurvivor DEF ReportInv
  <2> QED
    BY <1>1, <1>4, <1>5, <2>1 DEF ReportInv, SocketsOK
<1>12. ASSUME Section' = "network", (ask.pid \in lived)', Own', NEW k \in DOMAIN Tables, TableRead(k)',
              NEW i \in kept', sockets'[i].table = Tables[k]
       PROVE  i \in lines'
  <2>1. ask.pid \in lived /\ Own
    BY <1>1, <1>12, KernelSurvivor DEF ReportInv, Own, TableOK, LivedAlive
  <2>2. TableRead(k) /\ Section = "network" /\ i \in kept /\ i \in Inodes
    BY <1>1, <1>3, <1>4, <1>5, <1>12 DEF TableRead
  <2>3. i \in Holding(ask.pid)
    BY <2>2 DEF ReportInv, SocketsOK
  <2>4. sockets[i].table # "none"
    BY <2>3 DEF Holding, ReportInv, SocketsOK
  <2>5. sockets[i].table = Tables[k]
    BY <1>2, <1>12, <2>2, <2>4 DEF SocketStep
  <2>6. i \in lines
    BY <2>1, <2>2, <2>5 DEF ReportInv, SocketsOK
  <2> QED
    BY <1>1, <2>6
<1> QED
  BY <1>1, <1>6, <1>7, <1>8, <1>9, <1>10, <1>11, <1>12 DEF SocketsOK

\* The kernel keeps the report's invariant.
LEMMA KernelReportStep ==
  ASSUME ReportInv, Kernels, UNCHANGED commandVars
  PROVE  ReportInv'
<1>1. InspectTypeOK' /\ TableOK'
  BY KernelReportTypes, KernelSteps DEF ReportInv
<1> QED
  BY <1>1, KernelReportOrder, KernelReportLives, KernelReportSockets DEF ReportInv

-----------------------------------------------------------------------------
(***************************************************************************)
(* The steps of the sections.  Each reads once and goes on, answers, or    *)
(* breaks the report off; what it says is of lives it has just read, or    *)
(* has read in the step before.                                            *)
(***************************************************************************)
SectionStep ==
  CheckPid \/ ReadFamily \/ ReadFile \/ OpenTask \/ ReadThreads
  \/ FdExists \/ OpenFd \/ ReadLinks \/ ReadTable \/ Sample

Within == {"exists", "opendir", "family", "fdExists", "fd", "links", "taskExists", "task",
           "stats", "file", "first", "second"} \cup Listed
GoesOn == \E st \in Within : Goto(st) /\ Fits(st) /\ ReadSoFar(st, from')
Answer(what, of) == [section |-> Section, what |-> what, of |-> of \ {0}]
Answers ==
  \E what \in {"value", "error"}, of \in SUBSET {from', Born, 0} :
    Say(what, of) /\ (Survivor => EntryOK(Answer(what, of)))
BreaksOff == Exits("failed") /\ Section = "threads" /\ ask.pid \notin lived

Sound ==
  /\ from' \in {from, Born, 0} /\ inodes' \subseteq Inodes /\ lines' \subseteq Inodes
  /\ GoesOn \/ Answers \/ BreaksOff

\* The steps within a section, by their names.
LEMMA WithinIsUnderway ==
  ASSUME InspectTypeOK
  PROVE  /\ Underway <=> ipc \in Within
         /\ \A st \in Within : st \notin {"idle", "details", "next", "done"} /\ st \in ReportSteps
BY TableValues DEF InspectTypeOK, Underway, Within, ReportSteps

\* Which life is read in a section, and what the process of the PID is.
LEMMA Reader ==
  ASSUME InspectTypeOK
  PROVE  /\ Born \in Nat /\ from \in Nat /\ ask.pid \in Pids
         /\ Openable <=> Born # 0 /\ table[ask.pid].access # "none"
         /\ Own <=> Born # 0 /\ table[ask.pid].access = "full"
         /\ table[ask.pid].access \in {"full", "public", "none"}
<1>1. ask.pid \in Pids
  BY Asked
<1>2. table[ask.pid] \in Processes
  BY <1>1 DEF InspectTypeOK, ProcTypeOK
<1> QED
  BY <1>1, <1>2 DEF Born, Openable, Own, Alive, Processes, Access, InspectTypeOK

\* A survivor is alive, and it can be opened.
LEMMA SurvivorIs ==
  ASSUME InspectTypeOK, TableOK
  PROVE  /\ ask.pid \in lived => Born # 0 /\ Alive(ask.pid)
         /\ Survivor => Openable /\ Born # 0 /\ Alive(ask.pid)
         /\ ask.pid \in lived /\ Openable => Survivor
BY Reader DEF TableOK, LivedAlive, Alive, Born, Survivor, Openable

\* A step of a section is made within one, and leaves the rest alone.
LEMMA SectionStepsWithin ==
  ASSUME SectionStep, InspectTypeOK
  PROVE  Underway /\ Leaves
<1>1. Leaves
  BY DEF SectionStep, CheckPid, ReadFamily, ReadFile, OpenTask, ReadThreads, FdExists, OpenFd,
         ReadLinks, ReadTable, Sample
<1>2. ipc \in Within
  <2>1. ASSUME ReadTable PROVE ipc \in Listed
    BY <2>1 DEF ReadTable, Listed
  <2> QED
    BY <2>1 DEF SectionStep, CheckPid, ReadFamily, ReadFile, OpenTask, ReadThreads, FdExists, OpenFd,
         ReadLinks, Sample, Within
<1> QED
  BY <1>1, <1>2, WithinIsUnderway

\* What is owed on a process of the caller's, and on one of another user.
LEMMA OwedValues ==
  /\ Owed("full") \cup {"details"} = Sections \cup {"details"}
  /\ Owed("public") \cup {"details"} =
       {"children", "descendants", "threads", "limits", "cgroup", "affinity", "cpu", "details"}
BY SectionNames DEF Owed

\* What an answer about a survivor must be, by what may be read of it.
LEMMA SurvivorEntry ==
  ASSUME ReportInv, Survivor, Underway
  PROVE  /\ Openable /\ Born \in Nat /\ Born # 0 /\ Section \in Sections
         /\ table[ask.pid].access \in {"full", "public"}
         /\ Own <=> table[ask.pid].access = "full"
         /\ table[ask.pid].access = "full" => EntryOK(Answer("value", {Born}))
         /\ Section \in {"children", "descendants", "threads", "limits", "cgroup", "affinity", "cpu"} =>
              EntryOK(Answer("value", {Born}))
         /\ table[ask.pid].access = "public" /\ Section \in {"env", "maps"} =>
              EntryOK(Answer("error", {}))
         /\ table[ask.pid].access = "public" /\ Section \in {"files", "network", "io"} =>
              /\ EntryOK(Answer("value", {}))
              /\ EntryOK(Answer("value", {0}))
<1> DEFINE acc == table[ask.pid].access
<1>1. /\ Openable /\ Born \in Nat /\ Born # 0
      /\ acc \in {"full", "public"} /\ (Own <=> acc = "full")
  BY Reader, SurvivorIs DEF ReportInv, Survivor
<1>2. Section \in Sections
  BY SectionAt DEF ReportInv, SectionOK
<1>3. {Born} \ {0} = {Born} /\ {} \ {0} = {} /\ {0} \ {0} = {}
  BY <1>1
<1>4. \A what, of : /\ Answer(what, of).section = Section /\ Answer(what, of).what = what
                    /\ Answer(what, of).of = of \ {0}
  BY DEF Answer
<1>5. \A e : EntryOK(e) <=> IF e.section \in Owed(acc) \cup {"details"}
                            THEN e.what = "value" /\ e.of = {Born}
                            ELSE e.of = {} /\ (e.what = "error" <=> e.section \in {"env", "maps"})
  BY DEF EntryOK
<1> HIDE DEF acc
<1>6. Section \in Owed(acc) \cup {"details"} => EntryOK(Answer("value", {Born}))
  BY <1>3, <1>4, <1>5
<1>7. acc = "full" => Section \in Owed(acc) \cup {"details"}
  BY <1>2, OwedValues
<1>8. Section \in {"children", "descendants", "threads", "limits", "cgroup", "affinity", "cpu"} =>
        Section \in Owed(acc) \cup {"details"}
  BY <1>1, <1>2, OwedValues
<1>9. acc = "public" /\ Section \in {"env", "maps"} => EntryOK(Answer("error", {}))
  BY <1>3, <1>4, <1>5, OwedValues
<1>10. acc = "public" /\ Section \in {"files", "network", "io"} =>
         EntryOK(Answer("value", {})) /\ EntryOK(Answer("value", {0}))
  <2>1. SUFFICES ASSUME acc = "public", Section \in {"files", "network", "io"}, NEW of \in {{}, {0}}
                 PROVE  EntryOK(Answer("value", of))
    OBVIOUS
  <2>2. Section \notin Owed(acc) \cup {"details"} /\ Section \notin {"env", "maps"} /\ of \ {0} = {}
    BY <2>1, OwedValues
  <2> QED
    BY <2>2, <1>4, <1>5
<1> QED
  BY <1>1, <1>2, <1>6, <1>7, <1>8, <1>9, <1>10 DEF acc

\* What a step that goes on must show.
LEMMA GoingOn ==
  ASSUME NEW st \in Within, Goto(st), Fits(st), ReadSoFar(st, from')
  PROVE  GoesOn
BY DEF GoesOn

\* A step that prints an answer for its section, and the right one for a survivor.
LEMMA Answering ==
  ASSUME NEW what \in {"value", "error"}, NEW of, of \subseteq {from', Born, 0}, Say(what, of),
         Survivor => EntryOK(Answer(what, of))
  PROVE  Answers
BY DEF Answers

\* The check of the PID goes on, or answers that there is no such process.
LEMMA CheckPidSound ==
  ASSUME ReportInv, CheckPid
  PROVE  Sound
<1>1. /\ ipc \in {"exists", "opendir"} /\ UNCHANGED <<inodes, lines>>
      /\ inodes \subseteq Inodes /\ lines \subseteq Inodes
  BY DEF CheckPid, ReportInv, InspectTypeOK
<1>2. Underway /\ Section \in Sections
  BY <1>1, SectionAt DEF ReportInv, SectionOK, Underway
<1>3. CASE ipc = "exists" /\ Alive(ask.pid)
  <2>1. Goto("opendir") /\ from' = from
    BY <1>3 DEF CheckPid
  <2>2. Fits("opendir")
    BY <1>2, <1>3, TableValues DEF Fits, ReportInv, SectionOK
  <2>3. ReadSoFar("opendir", from') /\ "opendir" \in Within
    BY TableValues DEF ReadSoFar, Opened, Within
  <2> QED
    BY <1>1, <2>1, <2>2, <2>3, GoingOn DEF Sound
<1>4. CASE ipc = "opendir" /\ Openable
  <2>1. Goto(Body) /\ from' = Born
    BY <1>4 DEF CheckPid
  <2>2. Section \notin {"cpu", "io"}
    BY <1>2, <1>4 DEF ReportInv, SectionOK, Fits
  <2>3. Fits(Body) /\ Body \in {"family", "fdExists", "taskExists", "file"}
    BY <1>2, <2>2, SectionNames, TableValues DEF Fits, Body
  <2>4. ReadSoFar(Body, from') /\ Body \in Within
    BY <1>4, <2>1, <2>3, TableValues DEF ReadSoFar, Opened, Within, Openable
  <2> QED
    BY <1>1, <2>1, <2>3, <2>4, GoingOn DEF Sound
<1>5. CASE ~(ipc = "exists" /\ Alive(ask.pid)) /\ ~(ipc = "opendir" /\ Openable)
  <2> DEFINE what == IF Section = "descendants" \/ (Section = "children" /\ ipc = "exists")
                     THEN "value" ELSE "error"
  <2>1. Say(what, {}) /\ from' = from
    BY <1>5 DEF CheckPid
  <2>2. ~Survivor
    BY <1>1, <1>5, SurvivorIs DEF ReportInv
  <2>3. what \in {"value", "error"}
    OBVIOUS
  <2> HIDE DEF what
  <2>4. Answers
    BY <2>1, <2>2, <2>3, Answering
  <2> QED
    BY <1>1, <2>1, <2>4 DEF Sound
<1> QED
  BY <1>1, <1>3, <1>4, <1>5

\* What has been read so far of a survivor, by the step.
LEMMA HasRead ==
  ASSUME ReportInv
  PROVE  Fits(ipc) /\ ReadSoFar(ipc, from)
BY DEF ReportInv, SectionOK, SurvivorOK

\* What is not read again stays among the inodes there are.
LEMMA StaysIn ==
  ASSUME ReportInv, UNCHANGED <<inodes, lines>>
  PROVE  inodes' \subseteq Inodes /\ lines' \subseteq Inodes
BY DEF ReportInv, InspectTypeOK

\* A walk over the family answers.
LEMMA ReadFamilySound ==
  ASSUME ReportInv, ReadFamily
  PROVE  Sound
<1>1. ipc = "family" /\ from' = from /\ UNCHANGED <<inodes, lines>> /\ Say("value", {from, Born})
  BY DEF ReadFamily
<1>2. Section \in {"children", "descendants"} /\ Underway
  BY <1>1, HasRead DEF Fits, Underway
<1>3. Survivor => EntryOK(Answer("value", {from, Born}))
  <2>1. Survivor => from = Born
    BY <1>1, HasRead, TableValues DEF ReadSoFar, Opened
  <2> QED
    BY <1>2, <2>1, SurvivorEntry
<1>4. Answers
  BY <1>1, <1>3, Answering
<1> QED
  BY <1>1, <1>4, StaysIn DEF Sound

\* A file that is read is the process's of that moment, or an error.
LEMMA ReadFileSound ==
  ASSUME ReportInv, ReadFile
  PROVE  Sound
<1>1. ipc = "file" /\ from' = from /\ UNCHANGED <<inodes, lines>>
  BY DEF ReadFile
<1>2. Section \in {"env", "maps", "limits", "cgroup", "affinity"} /\ Underway
  BY <1>1, HasRead DEF Fits, Underway
<1>3. CASE Own \/ (Openable /\ Section \notin {"env", "maps"})
  <2>1. Say("value", {Born})
    BY <1>3 DEF ReadFile
  <2>2. Survivor => EntryOK(Answer("value", {Born}))
    BY <1>2, <1>3, SurvivorEntry
  <2>3. Answers
    BY <2>1, <2>2, Answering
  <2> QED
    BY <1>1, <2>3, StaysIn DEF Sound
<1>4. CASE ~(Own \/ (Openable /\ Section \notin {"env", "maps"}))
  <2>1. Say("error", {})
    BY <1>4 DEF ReadFile
  <2>2. Survivor => EntryOK(Answer("error", {}))
    BY <1>2, <1>4, SurvivorEntry
  <2>3. Answers
    BY <2>1, <2>2, Answering
  <2> QED
    BY <1>1, <2>3, StaysIn DEF Sound
<1> QED
  BY <1>3, <1>4

\* The directory of threads is opened, or the report breaks off.
LEMMA OpenTaskSound ==
  ASSUME ReportInv, OpenTask
  PROVE  Sound
<1>1. ipc \in {"taskExists", "task"} /\ UNCHANGED <<inodes, lines>>
  BY DEF OpenTask
<1>2. Section = "threads" /\ Underway
  BY <1>1, HasRead DEF Fits, Underway
<1>3. CASE Openable
  <2> DEFINE st == IF ipc = "task" THEN "stats" ELSE "task"
  <2>1. Goto(st) /\ from' = Born
    BY <1>3 DEF OpenTask
  <2>2. st \in {"stats", "task"}
    OBVIOUS
  <2> HIDE DEF st
  <2>3. Fits(st) /\ st \in Within
    BY <1>2, <2>2, TableValues DEF Fits, Within
  <2>4. ReadSoFar(st, from')
    BY <1>3, <2>1, <2>2, TableValues DEF ReadSoFar, Opened, Openable
  <2> QED
    BY <1>1, <2>1, <2>3, <2>4, GoingOn, StaysIn DEF Sound
<1>4. CASE ~Openable
  <2>1. ask.pid \notin lived
    <3>1. ask.pid \in lived => table[ask.pid].access # "none"
      BY <1>1, HasRead DEF ReadSoFar, Opened
    <3>2. ask.pid \in lived => Openable
      BY <3>1, SurvivorIs DEF ReportInv, Openable
    <3> QED
      BY <1>4, <3>2
  <2>2. from' = from /\ (Say("error", {}) \/ Exits("failed"))
    BY <1>4 DEF OpenTask
  <2>3. Say("error", {}) => Answers
    BY <2>1, Answering DEF Survivor
  <2>4. Answers \/ BreaksOff
    BY <1>2, <2>1, <2>2, <2>3 DEF BreaksOff
  <2> QED
    BY <1>1, <2>2, <2>4, StaysIn DEF Sound
<1> QED
  BY <1>3, <1>4

\* The threads that are read are those of the process that was opened.
LEMMA ReadThreadsSound ==
  ASSUME ReportInv, ReadThreads
  PROVE  Sound
<1> DEFINE of == {from} \cup IF Openable THEN {Born} ELSE {}
<1>1. ipc = "stats" /\ from' = from /\ UNCHANGED <<inodes, lines>> /\ Say("value", of)
  BY DEF ReadThreads
<1>2. Section = "threads" /\ Underway
  BY <1>1, HasRead DEF Fits, Underway
<1>3. Survivor => EntryOK(Answer("value", of))
  <2>1. Survivor => from = Born
    BY <1>1, HasRead, TableValues DEF ReadSoFar, Opened
  <2>2. Survivor => of = {Born}
    BY <2>1
  <2> QED
    BY <1>2, <2>2, SurvivorEntry
<1>4. of \subseteq {from', Born, 0}
  BY <1>1
<1> HIDE DEF of
<1>5. Answers
  BY <1>1, <1>3, <1>4, Answering
<1> QED
  BY <1>1, <1>5, StaysIn DEF Sound

\* The directory of descriptors is there, or the section is empty or an error.
LEMMA FdExistsSound ==
  ASSUME ReportInv, FdExists
  PROVE  Sound
<1>1. ipc = "fdExists" /\ from' = from /\ UNCHANGED <<inodes, lines>>
  BY DEF FdExists
<1>2. Section \in {"files", "network"} /\ Underway
  BY <1>1, HasRead DEF Fits, Underway
<1>3. CASE Openable
  <2>1. Goto("fd")
    BY <1>3 DEF FdExists
  <2>2. Fits("fd") /\ "fd" \in Within
    BY <1>2, TableValues DEF Fits, Within
  <2>3. ReadSoFar("fd", from')
    BY <1>1, <1>3, HasRead, TableValues DEF ReadSoFar, Opened
  <2> QED
    BY <1>1, <2>1, <2>2, <2>3, GoingOn, StaysIn DEF Sound
<1>4. CASE ~Openable
  <2>1. Say("error", {})
    BY <1>4 DEF FdExists
  <2>2. ~Survivor
    BY <1>4, SurvivorIs DEF ReportInv
  <2>3. Answers
    BY <2>1, <2>2, Answering
  <2> QED
    BY <1>1, <2>3, StaysIn DEF Sound
<1> QED
  BY <1>3, <1>4

\* The directory of descriptors is opened, or there is an error.
LEMMA OpenFdSound ==
  ASSUME ReportInv, OpenFd
  PROVE  Sound
<1>1. ipc = "fd" /\ UNCHANGED <<inodes, lines>>
  BY DEF OpenFd
<1>2. Section \in {"files", "network"} /\ Underway
  BY <1>1, HasRead DEF Fits, Underway
<1>3. CASE Own
  <2>1. Goto("links") /\ from' = Born
    BY <1>3 DEF OpenFd
  <2>2. Fits("links") /\ "links" \in Within
    BY <1>2, TableValues DEF Fits, Within
  <2>3. ReadSoFar("links", from')
    BY <1>3, <2>1 DEF ReadSoFar, Own
  <2> QED
    BY <1>1, <2>1, <2>2, <2>3, GoingOn, StaysIn DEF Sound
<1>4. CASE ~Own
  <2>1. Say("value", {}) /\ from' = from
    BY <1>4 DEF OpenFd
  <2>2. Survivor => EntryOK(Answer("value", {}))
    BY <1>2, <1>4, SurvivorEntry
  <2>3. Answers
    BY <2>1, <2>2, Answering
  <2> QED
    BY <1>1, <2>1, <2>3, StaysIn DEF Sound
<1> QED
  BY <1>3, <1>4

\* Whose links are read: those of the process that was opened, nobody's, or
\* those of one that has its PID by now.
LEMMA LinksRead ==
  ASSUME ReportInv, ReadLinks
  PROVE  /\ ipc = "links" /\ lines' = lines /\ Section \in {"files", "network"} /\ Underway
         /\ \/ Born = from /\ inodes' = Holding(ask.pid) /\ from' = from
            \/ Born # from /\ inodes' = {} /\ from' = 0
            \/ Born # from /\ Own /\ inodes' \subseteq Holding(ask.pid) /\ from' = Born
         /\ inodes' \subseteq Inodes
         /\ Survivor => Born = from /\ table[ask.pid].access = "full"
         /\ \/ Say("value", {from'}) /\ (Section = "files" \/ inodes' = {})
            \/ Goto("tcp") /\ Section = "network"
<1>1. ipc = "links" /\ lines' = lines
  BY DEF ReadLinks
<1>2. Section \in {"files", "network"} /\ Underway
  BY <1>1, HasRead DEF Fits, Underway
<1>3. \/ Born = from /\ inodes' = Holding(ask.pid) /\ from' = from
      \/ Born # from /\ inodes' = {} /\ from' = 0
      \/ Born # from /\ Own /\ inodes' \subseteq Holding(ask.pid) /\ from' = Born
  BY DEF ReadLinks
<1>4. inodes' \subseteq Inodes
  BY <1>3 DEF Holding
<1>5. Survivor => Born = from /\ table[ask.pid].access = "full"
  BY <1>1, HasRead, TableValues DEF ReadSoFar, Opened
<1>6. \/ Say("value", {from'}) /\ (Section = "files" \/ inodes' = {})
      \/ Goto("tcp") /\ Section = "network"
  BY <1>2, TableValues DEF ReadLinks
<1> QED
  BY <1>1, <1>2, <1>3, <1>4, <1>5, <1>6

\* The links are read, and the files among them are the answer of files.
LEMMA ReadLinksSound ==
  ASSUME ReportInv, ReadLinks
  PROVE  Sound
<1>1. lines' \subseteq Inodes /\ inodes' \subseteq Inodes /\ Underway
  BY LinksRead DEF ReportInv, InspectTypeOK
<1>2. from' \in {from, Born, 0}
  BY LinksRead
<1>3. Survivor => from' = Born
  BY LinksRead
<1>4. CASE Say("value", {from'})
  <2>1. Survivor => EntryOK(Answer("value", {from'}))
    BY <1>1, <1>3, LinksRead, SurvivorEntry
  <2>2. Answers
    BY <1>4, <2>1, Answering
  <2> QED
    BY <1>1, <1>2, <2>2 DEF Sound
<1>5. CASE Goto("tcp") /\ Section = "network"
  <2>1. Fits("tcp") /\ "tcp" \in Within
    BY <1>5, TableValues DEF Fits, Within
  <2>2. ReadSoFar("tcp", from')
    <3>1. ask.pid \in lived => table[ask.pid].access # "none"
      BY LinksRead, HasRead DEF ReadSoFar, Opened
    <3> QED
      BY <1>3, <3>1, LinksRead DEF ReadSoFar
  <2> QED
    BY <1>1, <1>2, <1>5, <2>1, <2>2, GoingOn DEF Sound
<1> QED
  BY <1>4, <1>5, LinksRead

\* Which table is read, and where it goes from there.
LEMMA TableReads ==
  ASSUME ReportInv, ReadTable
  PROVE  /\ Underway /\ Section = "network" /\ ipc \in Listed
         /\ UNCHANGED <<from, inodes>>
         /\ \E k \in 1 .. 4 :
              /\ ipc = Tables[k] /\ lines' = lines \cup Mentioned(Tables[k])
              /\ \/ k = 4 /\ Say("value", {from})
                 \/ k < 4 /\ k + 1 \in 1 .. 4 /\ Goto(Tables[k + 1])
<1>1. PICK k \in 1 .. 4 :
        /\ ipc = Tables[k] /\ lines' = lines \cup Mentioned(Tables[k])
        /\ IF k = Len(Tables) THEN Say("value", {from}) ELSE Goto(Tables[k + 1])
        /\ UNCHANGED <<from, inodes>>
  BY TableValues DEF ReadTable
<1>2. ipc \in Listed
  BY <1>1, TableValues DEF Listed
<1>3. Underway /\ Section = "network"
  BY <1>2, HasRead, TableValues DEF Fits, Underway
<1>4. \/ k = 4 /\ Say("value", {from})
      \/ k < 4 /\ k + 1 \in 1 .. 4 /\ Goto(Tables[k + 1])
  BY <1>1, TableValues
<1> QED
  BY <1>1, <1>2, <1>3, <1>4

\* A table is read, and behind the last the connections are the answer.
LEMMA ReadTableSound ==
  ASSUME ReportInv, ReadTable
  PROVE  Sound
<1>1. PICK k \in 1 .. 4 :
        /\ ipc = Tables[k] /\ lines' = lines \cup Mentioned(Tables[k])
        /\ \/ k = 4 /\ Say("value", {from})
           \/ k < 4 /\ k + 1 \in 1 .. 4 /\ Goto(Tables[k + 1])
  BY TableReads
<1>2. from' = from /\ inodes' \subseteq Inodes /\ lines' \subseteq Inodes
  BY <1>1, TableReads DEF Mentioned, ReportInv, InspectTypeOK
<1>3. /\ Survivor => from = Born /\ table[ask.pid].access = "full"
      /\ ask.pid \in lived => table[ask.pid].access # "none"
  BY TableReads, HasRead, TableValues DEF ReadSoFar, Opened
<1>4. CASE Say("value", {from})
  <2>1. Survivor => EntryOK(Answer("value", {from}))
    BY <1>3, TableReads, SurvivorEntry
  <2>2. Answers
    BY <1>2, <1>4, <2>1, Answering
  <2> QED
    BY <1>2, <2>2 DEF Sound
<1>5. CASE k + 1 \in 1 .. 4 /\ Goto(Tables[k + 1])
  <2> DEFINE st == Tables[k + 1]
  <2>1. st \in Listed
    BY <1>5, TableValues DEF Listed
  <2>2. Goto(st)
    BY <1>5
  <2> HIDE DEF st
  <2>3. Fits(st) /\ st \in Within
    BY <2>1, TableValues, TableReads DEF Fits, Within
  <2>4. ReadSoFar(st, from')
    BY <1>2, <1>3, <2>1, TableValues DEF ReadSoFar
  <2> QED
    BY <1>2, <2>2, <2>3, <2>4, GoingOn DEF Sound
<1> QED
  BY <1>1, <1>4, <1>5

\* A sampler answers for the process that has the PID, or with an error.
LEMMA SampleSound ==
  ASSUME ReportInv, Sample
  PROVE  Sound
<1> DEFINE life == IF Section = "cpu" \/ Own THEN Born ELSE 0
<1>1. ipc \in {"first", "second"} /\ UNCHANGED <<inodes, lines>>
  BY DEF Sample
<1>2. Section \in {"cpu", "io"} /\ Underway
  BY <1>1, HasRead DEF Fits, Underway
<1>3. life \in {Born, 0}
  OBVIOUS
<1>4. Survivor => life = IF Section = "cpu" \/ table[ask.pid].access = "full" THEN Born ELSE 0
  BY <1>2, SurvivorEntry
<1>5. CASE ~Openable
  <2>1. Say("error", {}) /\ from' = from
    BY <1>5 DEF Sample
  <2>2. ~Survivor
    BY <1>5, SurvivorIs DEF ReportInv
  <2>3. Answers
    BY <2>1, <2>2, Answering
  <2> QED
    BY <1>1, <2>1, <2>3, StaysIn DEF Sound
<1>6. CASE Openable /\ ipc = "first"
  <2>1. Goto("second") /\ from' = life
    BY <1>6 DEF Sample
  <2> HIDE DEF life
  <2>2. Fits("second") /\ "second" \in Within
    BY <1>2, TableValues DEF Fits, Within
  <2>3. ReadSoFar("second", from')
    BY <1>4, <2>1, TableValues DEF ReadSoFar, Opened
  <2> QED
    BY <1>1, <1>3, <2>1, <2>2, <2>3, GoingOn, StaysIn DEF Sound
<1>7. CASE Openable /\ ipc = "second"
  <2>1. Say("value", {from, life}) /\ from' = from
    BY <1>7 DEF Sample
  <2> HIDE DEF life
  <2>2. ASSUME Survivor PROVE EntryOK(Answer("value", {from, life}))
    <3>1. from = IF Section = "cpu" \/ table[ask.pid].access = "full" THEN Born ELSE 0
      BY <1>7, <2>2, HasRead DEF ReadSoFar
    <3>2. {from, life} = IF Section = "cpu" \/ table[ask.pid].access = "full" THEN {Born} ELSE {0}
      BY <1>4, <2>2, <3>1
    <3> QED
      BY <1>2, <2>2, <3>2, SurvivorEntry
  <2>3. {from, life} \subseteq {from', Born, 0}
    BY <1>3, <2>1
  <2>4. Answers
    BY <2>1, <2>2, <2>3, Answering
  <2> QED
    BY <1>1, <2>1, <2>4, StaysIn DEF Sound
<1> QED
  BY <1>1, <1>5, <1>6, <1>7

\* Every step of a section goes on, answers or breaks off.
LEMMA SectionStepSound ==
  ASSUME ReportInv, SectionStep
  PROVE  Sound
BY CheckPidSound, ReadFamilySound, ReadFileSound, OpenTaskSound, ReadThreadsSound, FdExistsSound,
   OpenFdSound, ReadLinksSound, ReadTableSound, SampleSound DEF SectionStep

-----------------------------------------------------------------------------
(* What these steps preserve, all of them alike. *)

\* Where a step of a section starts and what it leaves alone.
LEMMA InSection ==
  ASSUME ReportInv, SectionStep
  PROVE  /\ Underway /\ at \in 1 .. 12 /\ PlaceOf(Section) = at /\ Section \in ask.wants
         /\ Section \in Sections /\ Section # "details" /\ said # << >> /\ status = "none"
         /\ ~ask.asRow /\ dpc = "idle" /\ ipc \notin {"idle", "details", "next", "done"}
         /\ UNCHANGED <<table, births, lived, settled, views, dpc, row, derr, sockets, kept, owned, ask, at>>
         /\ Section' = Section
         /\ Sound
<1>1. Underway /\ Leaves
  BY SectionStepsWithin DEF ReportInv
<1>2. at > 0 /\ FrameOK /\ InspectTypeOK
  BY <1>1 DEF ReportInv, SectionOK
<1>3. at \in 1 .. 12 /\ PlaceOf(Section) = at /\ Section \in ask.wants
      /\ Section \in Sections /\ Section # "details"
  BY <1>2, SectionAt
<1>4. said # << >> /\ status = "none" /\ ~ask.asRow /\ dpc = "idle"
      /\ ipc \notin {"idle", "details", "next", "done"}
  BY <1>1, <1>2 DEF FrameOK, Underway
<1>5. Sound
  BY SectionStepSound
<1>6. UNCHANGED at
  BY <1>5 DEF Sound, GoesOn, Answers, BreaksOff, Goto, Say, Exits
<1> QED
  BY <1>1, <1>3, <1>4, <1>5, <1>6 DEF Leaves, procVars, detailsVars, socketVars, Section

\* What a step comes to: it goes on, it answers, or it breaks the report off.
GoneOn ==
  /\ ipc' \in Within /\ said' = said /\ status' = "none"
  /\ Fits(ipc') /\ ReadSoFar(ipc', from')
HasAnswered(e) ==
  /\ e \in Entry /\ e.section = Section /\ e.of \subseteq {from', Born}
  /\ Survivor => EntryOK(e)
  /\ ipc' = "next" /\ said' = Append(said, e) /\ status' = "none"
BrokenOff ==
  /\ ipc' = "done" /\ said' = said /\ status' = "failed"
  /\ Section = "threads" /\ ask.pid \notin lived

\* Of the three, each changes the report as its name says.
LEMMA SectionOutcome ==
  ASSUME ReportInv, SectionStep
  PROVE  /\ from' \in Nat /\ from' \in {from, Born, 0}
         /\ GoneOn \/ (\E e : HasAnswered(e)) \/ BrokenOff
<1>1. Sound /\ status = "none" /\ Section \in Sections
  BY InSection
<1>2. from' \in {from, Born, 0} /\ from' \in Nat
  BY <1>1, Reader DEF Sound, ReportInv
<1>3. CASE GoesOn
  <2>1. PICK st \in Within : Goto(st) /\ Fits(st) /\ ReadSoFar(st, from')
    BY <1>3 DEF GoesOn
  <2>2. ipc' = st /\ said' = said /\ status' = "none"
    BY <1>1, <2>1 DEF Goto
  <2> QED
    BY <1>2, <2>1, <2>2 DEF GoneOn
<1>4. CASE Answers
  <2>1. PICK what \in {"value", "error"}, of \in SUBSET {from', Born, 0} :
          Say(what, of) /\ (Survivor => EntryOK(Answer(what, of)))
    BY <1>4 DEF Answers
  <2>2. Answer(what, of) \in Entry
    <3>1. of \ {0} \in SUBSET (Nat \ {0})
      BY <1>2, Reader DEF ReportInv
    <3> QED
      BY <1>1, <3>1 DEF Answer, Entry
  <2>3. HasAnswered(Answer(what, of))
    BY <1>1, <2>1, <2>2 DEF HasAnswered, Answer, Say
  <2> QED
    BY <1>2, <2>3
<1>5. CASE BreaksOff
  BY <1>2, <1>5 DEF BreaksOff, BrokenOff, Exits
<1> QED
  BY <1>1, <1>2, <1>3, <1>4, <1>5 DEF Sound

\* What has been said stays, and an answer is put behind it.
LEMMA Appended ==
  ASSUME InspectTypeOK, NEW e \in Entry, said' = Append(said, e)
  PROVE  /\ said' \in Seq(Entry) /\ said' # << >>
         /\ Len(said) \in Nat /\ DOMAIN said = 1 .. Len(said)
         /\ DOMAIN said' = 1 .. Len(said) + 1
         /\ \A k \in DOMAIN said : said'[k] = said[k]
         /\ said'[Len(said) + 1] = e
<1>1. said \in Seq(Entry) /\ Len(said) \in Nat /\ DOMAIN said = 1 .. Len(said)
  BY SaidTypes
<1>2. /\ Append(said, e) \in Seq(Entry) /\ Append(said, e) # << >>
      /\ Len(Append(said, e)) = Len(said) + 1
      /\ \A k \in 1 .. Len(said) : Append(said, e)[k] = said[k]
      /\ Append(said, e)[Len(said) + 1] = e
  BY <1>1, AppendProperties
<1>3. DOMAIN Append(said, e) = 1 .. Len(said) + 1
  BY <1>2, LenProperties
<1> QED
  BY <1>1, <1>2, <1>3

\* A step of a section keeps the types.
LEMMA SectionTypes ==
  ASSUME ReportInv, SectionStep
  PROVE  InspectTypeOK' /\ TableOK'
<1>1. /\ UNCHANGED <<table, births, lived, settled, views, dpc, row, derr, sockets, kept, owned, ask, at>>
      /\ Sound /\ status = "none"
  BY InSection
<1>2. TableOK'
  BY <1>1 DEF ReportInv, TableOK, LivedAlive, ParentsAlive, BirthsBounded, Alive
<1>3. ProcTypeOK' /\ DetailsTypeOK'
  BY <1>1 DEF ReportInv, InspectTypeOK, ProcTypeOK, DetailsTypeOK
<1>4. ipc' \in ReportSteps
  <2>1. \A st \in Within : st \in ReportSteps
    BY WithinIsUnderway DEF ReportInv
  <2>2. ipc' \in Within \cup {"next", "done"}
    BY SectionOutcome DEF GoneOn, HasAnswered, BrokenOff
  <2> QED
    BY <2>1, <2>2 DEF ReportSteps
<1>5. said' \in Seq(Entry)
  <2>1. said' = said \/ \E e \in Entry : said' = Append(said, e)
    BY SectionOutcome DEF GoneOn, HasAnswered, BrokenOff
  <2> QED
    BY <2>1, SaidTypes, Appended DEF ReportInv
<1>6. status' \in {"none", "ok", "failed"}
  BY SectionOutcome DEF GoneOn, HasAnswered, BrokenOff
<1>7. from' \in Nat /\ inodes' \subseteq Inodes /\ lines' \subseteq Inodes
  BY <1>1, SectionOutcome DEF Sound
<1>8. InspectTypeOK'
  BY <1>1, <1>3, <1>4, <1>5, <1>6, <1>7 DEF ReportInv, InspectTypeOK, Entry
<1> QED
  BY <1>2, <1>8

\* A step of a section keeps to its section.
LEMMA SectionFrame ==
  ASSUME ReportInv, SectionStep, UNCHANGED commandVars
  PROVE  FrameOK' /\ SectionOK'
<1>1. /\ UNCHANGED <<dpc, row, ask, at, command>> /\ Section' = Section
      /\ Underway /\ at \in 1 .. 12 /\ Section \in ask.wants /\ said # << >>
      /\ ~ask.asRow /\ dpc = "idle" /\ ipc \notin {"idle", "details", "next", "done"}
  BY InSection DEF commandVars
<1>2. command # "list" /\ Order[at] \in ask.wants
  BY <1>1, SectionAt DEF ReportInv, FrameOK
<1>3. /\ said' # << >> /\ ipc' \notin {"idle", "details"} /\ (status' = "none" <=> ipc' # "done")
      /\ status' # "ok"
  <2>1. CASE GoneOn
    BY <1>1, <2>1, WithinIsUnderway DEF GoneOn, ReportInv
  <2>2. ASSUME NEW e, HasAnswered(e) 
        PROVE  /\ said' # << >> /\ ipc' \notin {"idle", "details"}
               /\ (status' = "none" <=> ipc' # "done") /\ status' # "ok"
    BY <2>2, Appended DEF HasAnswered, ReportInv
  <2>3. CASE BrokenOff
    BY <1>1, <2>3 DEF BrokenOff
  <2> QED
    BY <2>1, <2>2, <2>3, SectionOutcome
<1>4. FrameOK'
  BY <1>1, <1>2, <1>3 DEF FrameOK, Underway
<1>5. Fits(ipc')
  <2>1. CASE GoneOn
    BY <2>1 DEF GoneOn
  <2>2. CASE ipc' \in {"next", "done"}
    BY <2>2, TableValues DEF Fits
  <2> QED
    BY <2>1, <2>2, SectionOutcome DEF HasAnswered, BrokenOff
<1>6. SectionOK'
  BY <1>1, <1>5 DEF SectionOK, Fits
<1> QED
  BY <1>4, <1>6

\* What a section has in hand of a survivor is the survivor's.
LEMMA SectionSurvivor ==
  ASSUME ReportInv, SectionStep
  PROVE  SurvivorOK'
<1>1. /\ UNCHANGED <<table, lived, dpc, row, derr, ask, at>> /\ Section' = Section
      /\ dpc = "idle"
  BY InSection
<1>2. (Survivor' <=> Survivor) /\ Born' = Born /\ \A e : EntryOK(e)' <=> EntryOK(e)
  BY <1>1 DEF Survivor, Born, EntryOK
<1>3. ReadSoFar(ipc', from')
  <2>1. CASE GoneOn
    BY <2>1 DEF GoneOn
  <2>2. CASE ipc' \in {"next", "done"}
    BY <2>2, TableValues DEF ReadSoFar, Opened
  <2> QED
    BY <2>1, <2>2, SectionOutcome DEF HasAnswered, BrokenOff
<1>4. ReadSoFar(ipc, from)'
  BY <1>1, <1>2, <1>3 DEF ReadSoFar, Opened
<1>5. ASSUME Survivor
      PROVE  status' # "failed" /\ \A k \in DOMAIN said' : EntryOK(said'[k])
  <2>1. \A k \in DOMAIN said : EntryOK(said[k])
    BY <1>5 DEF ReportInv, SurvivorOK
  <2>2. CASE GoneOn
    BY <2>1, <2>2 DEF GoneOn
  <2>3. ASSUME NEW e, HasAnswered(e)
        PROVE  status' # "failed" /\ \A k \in DOMAIN said' : EntryOK(said'[k])
    <3>1. e \in Entry /\ EntryOK(e) /\ said' = Append(said, e) /\ status' = "none"
      BY <1>5, <2>3 DEF HasAnswered
    <3>2. ASSUME NEW k \in DOMAIN said' PROVE EntryOK(said'[k])
      <4>1. CASE k \in DOMAIN said
        BY <2>1, <3>1, <4>1, Appended DEF ReportInv
      <4>2. CASE k \notin DOMAIN said
        <5>1. k = Len(said) + 1
          BY <3>1, <4>2, Appended DEF ReportInv
        <5> QED
          BY <3>1, <5>1, Appended DEF ReportInv
      <4> QED
        BY <4>1, <4>2
    <3> QED
      BY <3>1, <3>2
  <2>4. CASE BrokenOff
    BY <1>5, <2>4 DEF BrokenOff, Survivor
  <2> QED
    BY <2>2, <2>3, <2>4, SectionOutcome
<1>6. Survivor => derr = "none"
  BY DEF ReportInv, SurvivorOK
<1>7. dpc' = "idle" /\ dpc' \notin OptionalParts \cup {"done"} /\ derr' = derr
  BY <1>1 DEF OptionalParts
<1> QED
  BY <1>2, <1>4, <1>5, <1>6, <1>7 DEF SurvivorOK

\* The answers stay in the order of the sections.
LEMMA SectionOrder ==
  ASSUME ReportInv, SectionStep
  PROVE  OrderOK'
<1>1. /\ UNCHANGED <<lived, ask, at>> /\ Section' = Section
      /\ Underway /\ at \in 1 .. 12 /\ PlaceOf(Section) = at /\ Section \in ask.wants
      /\ Section \in Sections /\ Section # "details" /\ said # << >> /\ status = "none"
      /\ ipc \notin {"idle", "details", "next", "done"}
  BY InSection
<1>2. /\ \A j, k \in DOMAIN said : j < k => PlaceOf(said[j].section) < PlaceOf(said[k].section)
      /\ \A k \in DOMAIN said : PlaceOf(said[k].section) < at
      /\ Answered = {"details"} \cup {s \in ask.wants : PlaceOf(s) < at}
  <2>1. \A s : DueBy(s) <=> PlaceOf(s) < at
    BY <1>1 DEF DueBy
  <2> QED
    BY <1>1, <2>1 DEF ReportInv, OrderOK
<1>3. CASE GoneOn \/ BrokenOff
  <2>1. said' = said /\ ipc' # "next" /\ status' # "ok"
        /\ (status' = "failed" => Section = "threads" /\ ask.pid \notin lived)
    BY <1>3, WithinIsUnderway DEF GoneOn, BrokenOff, ReportInv
  <2>2. Answered' = Answered /\ \A s : DueBy(s)' <=> PlaceOf(s) < at
    BY <1>1, <2>1 DEF Answered, DueBy, PlaceOf
  <2>3. \A s : PlaceOf(s)' = PlaceOf(s)
    BY DEF PlaceOf
  <2> QED
    BY <1>1, <1>2, <2>1, <2>2, <2>3 DEF OrderOK
<1>4. ASSUME NEW e, HasAnswered(e) PROVE OrderOK'
  <2>1. /\ e \in Entry /\ e.section = Section /\ said' = Append(said, e)
        /\ ipc' = "next" /\ status' = "none"
    BY <1>4 DEF HasAnswered
  <2>2. /\ DOMAIN said = 1 .. Len(said) /\ DOMAIN said' = 1 .. Len(said) + 1 /\ Len(said) \in Nat
        /\ \A k \in DOMAIN said : said'[k] = said[k]
        /\ said'[Len(said) + 1] = e
    BY <2>1, Appended DEF ReportInv
  <2>3. \A s : PlaceOf(s)' = PlaceOf(s)
    BY DEF PlaceOf
  <2>4. Answered' = Answered \cup {Section}
    BY <2>1, <2>2 DEF Answered
  <2>5. \A s : DueBy(s)' <=> PlaceOf(s) < at \/ PlaceOf(s) = at
    BY <1>1, <2>1, <2>3 DEF DueBy
  <2>6. \A s \in ask.wants : PlaceOf(s) = at => s = Section
    BY <1>1, Places, Asked DEF ReportInv
  <2>7. Answered' = {"details"} \cup {s \in ask.wants : DueBy(s)'}
    BY <1>1, <1>2, <2>4, <2>5, <2>6
  <2>8. \A k \in DOMAIN said' :
          \/ k \in DOMAIN said /\ PlaceOf(said'[k].section) < at
          \/ k = Len(said) + 1 /\ PlaceOf(said'[k].section) = at
    BY <1>1, <1>2, <2>1, <2>2
  <2>9. \A j, k \in DOMAIN said' : j < k => PlaceOf(said'[j].section) < PlaceOf(said'[k].section)
    <3> SUFFICES ASSUME NEW j \in DOMAIN said', NEW k \in DOMAIN said', j < k
                 PROVE  PlaceOf(said'[j].section) < PlaceOf(said'[k].section)
      OBVIOUS
    <3>1. j \in DOMAIN said
      BY <2>2
    <3>2. CASE k \in DOMAIN said
      BY <1>2, <2>2, <3>1, <3>2
    <3>3. CASE k = Len(said) + 1
      BY <1>1, <2>1, <2>2, <2>8, <3>1, <3>3, <1>2
    <3> QED
      BY <2>8, <3>2, <3>3
  <2> QED
    BY <1>1, <2>1, <2>3, <2>7, <2>8, <2>9 DEF OrderOK, Underway
<1> QED
  BY <1>3, <1>4, SectionOutcome

\* No life is read that is older than one that has been read.
LEMMA BornPast ==
  ASSUME ReportInv
  PROVE  /\ Born \in Nat /\ births \in Nat /\ Past(Born) /\ Past(0)
<1>1. Born \in Nat /\ ask.pid \in Pids /\ births \in Nat
  BY Reader DEF ReportInv, InspectTypeOK, ProcTypeOK
<1>2. Born <= births
  BY <1>1 DEF ReportInv, TableOK, BirthsBounded, Born
<1> QED
  BY <1>1, <1>2 DEF Past

\* No answer is of an older process than one above it.
LEMMA SectionLives ==
  ASSUME ReportInv, SectionStep
  PROVE  LivesOK'
<1>1. UNCHANGED <<table, births, row, ask>> /\ Underway
  BY InSection
<1>2. Born' = Born /\ \A x : Past(x)' <=> Past(x)
  BY <1>1 DEF Born, Past
<1>3. from' \in Nat /\ from' \in {from, Born, 0} /\ from \in Nat /\ Born \in Nat
  BY SectionOutcome, Reader DEF ReportInv
<1>4. Past(from') /\ Past(Born)
  BY <1>3, BornPast DEF ReportInv, LivesOK
<1>5. /\ \A k \in DOMAIN said : \A x \in said[k].of : Past(x) /\ x \in Nat
      /\ \A k \in DOMAIN said : \A x \in said[k].of : x \in Nat
  BY SaidTypes DEF ReportInv, LivesOK
<1>6. ASSUME NEW k \in DOMAIN said, NEW x \in said[k].of, NEW y \in {from', Born}, y # 0
      PROVE  x <= y
  <2>1. Past(x) /\ x \in Nat
    BY <1>5
  <2>2. CASE y = Born
    BY <1>6, <2>1, <2>2 DEF Past
  <2>3. CASE y = from
    BY <1>1, <1>6, <2>3 DEF ReportInv, LivesOK
  <2> QED
    BY <1>3, <1>6, <2>2, <2>3
<1>7. CASE said' = said
  BY <1>1, <1>2, <1>4, <1>5, <1>6, <1>7 DEF ReportInv, LivesOK, NeverBack
<1>8. ASSUME NEW e, HasAnswered(e) PROVE LivesOK'
  <2>1. /\ e \in Entry /\ e.of \subseteq {from', Born} /\ said' = Append(said, e)
        /\ ipc' = "next"
    BY <1>8 DEF HasAnswered
  <2>2. /\ DOMAIN said = 1 .. Len(said) /\ DOMAIN said' = 1 .. Len(said) + 1 /\ Len(said) \in Nat
        /\ \A k \in DOMAIN said : said'[k] = said[k]
        /\ said'[Len(said) + 1] = e
    BY <2>1, Appended DEF ReportInv
  <2>3. \A x \in e.of : x # 0 /\ Past(x) /\ x \in {from', Born}
    BY <1>4, <2>1 DEF Entry
  <2>4. \A k \in DOMAIN said' : \/ k \in DOMAIN said /\ said'[k] = said[k]
                                \/ k = Len(said) + 1 /\ said'[k] = e
    BY <2>2
  <2>5. \A k \in DOMAIN said' : \A x \in said'[k].of : Past(x)
    BY <1>5, <2>3, <2>4
  <2>6. NeverBack'
    <3> SUFFICES ASSUME NEW j \in DOMAIN said', NEW k \in DOMAIN said', j < k,
                        NEW x \in said'[j].of, NEW y \in said'[k].of
                 PROVE  x <= y
      BY DEF NeverBack
    <3>1. j \in DOMAIN said /\ said'[j] = said[j]
      BY <2>2
    <3>2. CASE k \in DOMAIN said
      BY <2>2, <3>1, <3>2 DEF ReportInv, LivesOK, NeverBack
    <3>3. CASE said'[k] = e
      BY <1>6, <2>3, <3>1, <3>3
    <3> QED
      BY <2>2, <2>4, <3>2, <3>3
  <2>7. ~Underway'
    BY <2>1 DEF Underway
  <2> QED
    BY <1>1, <1>2, <1>4, <2>5, <2>6, <2>7 DEF ReportInv, LivesOK
<1> QED
  BY <1>7, <1>8, SectionOutcome DEF GoneOn, BrokenOff

\* The sockets, at a step that reads neither links nor tables: what has been
\* read of them stays, and no step of these answers for a survivor's own.
LEMMA SectionSocketsRest ==
  ASSUME ReportInv, SectionStep, UNCHANGED <<inodes, lines>>,
         Section = "network" /\ ask.pid \in lived => ipc' \notin Listed,
         Section = "network" /\ ask.pid \in lived /\ Own => ipc' # "next"
  PROVE  SocketsOK'
<1>1. /\ UNCHANGED <<table, lived, sockets, kept, owned, ask, at, inodes, lines>>
      /\ Section' = Section /\ ipc # "done"
  BY InSection
<1>2. Reading' => Reading
  BY <1>1 DEF Reading
<1>3. Holding(ask.pid)' = Holding(ask.pid) /\ (Own' <=> Own)
  BY <1>1 DEF Holding, Own, Alive
<1>4. Section = "network" /\ ask.pid \in lived /\ Own => \A k \in DOMAIN Tables : ~TableRead(k)'
  BY TableValues DEF TableRead
<1>6. SocketsOK
  BY DEF ReportInv
<1> QED
  BY <1>1, <1>2, <1>3, <1>4, <1>6 DEF SocketsOK

\* The check of a PID reads no socket.
LEMMA CheckPidSockets ==
  ASSUME ReportInv, CheckPid
  PROVE  SocketsOK'
<1>1. SectionStep /\ UNCHANGED <<inodes, lines>> /\ ipc \in {"exists", "opendir"}
  BY DEF SectionStep, CheckPid
<1>2. \/ ipc' \in {"opendir", "family", "fdExists", "taskExists", "file"}
      \/ ~Openable
  BY DEF CheckPid, Goto, Body, Openable
<1>3. Own => Openable
  BY Reader DEF ReportInv, Own, Openable
<1>4. ipc' \notin Listed
  <2>1. ipc' \in {"opendir", "family", "fdExists", "taskExists", "file", "next", "done"}
    BY DEF CheckPid, Goto, Body, Say, Exits
  <2> QED
    BY <2>1, TableValues
<1>5. Own => ipc' # "next"
  BY <1>2, <1>3
<1> QED
  BY <1>1, <1>4, <1>5, SectionSocketsRest

\* To open the directory of descriptors is to read no socket yet.
LEMMA FdSockets ==
  ASSUME ReportInv, FdExists \/ OpenFd
  PROVE  SocketsOK'
<1>1. SectionStep /\ UNCHANGED <<inodes, lines>>
  BY DEF SectionStep, FdExists, OpenFd
<1>2. ipc' \in {"fd", "links"} \/ (ipc' = "next" /\ ~Own)
  BY Reader DEF FdExists, OpenFd, Goto, Say, Own, Openable, ReportInv
<1>3. ipc' \notin Listed
  BY <1>2, TableValues
<1> QED
  BY <1>1, <1>2, <1>3, SectionSocketsRest

\* The other sections read no socket.
LEMMA OtherSockets ==
  ASSUME ReportInv, ReadFamily \/ ReadFile \/ OpenTask \/ ReadThreads \/ Sample
  PROVE  SocketsOK'
<1>1. SectionStep /\ UNCHANGED <<inodes, lines>>
  BY DEF SectionStep, ReadFamily, ReadFile, OpenTask, ReadThreads, Sample
<1>2. ipc \in {"family", "file", "taskExists", "task", "stats", "first", "second"}
  BY DEF ReadFamily, ReadFile, OpenTask, ReadThreads, Sample
<1>3. Section # "network"
  BY <1>2, HasRead DEF Fits
<1> QED
  BY <1>1, <1>3, SectionSocketsRest

\* The links read are those of sockets which the process held.
LEMMA ReadLinksSockets ==
  ASSUME ReportInv, ReadLinks
  PROVE  SocketsOK'
<1>1. /\ UNCHANGED <<table, lived, sockets, kept, owned, ask, at, lines>>
      /\ Section' = Section /\ ipc # "done" /\ ipc = "links"
  BY InSection, LinksRead DEF SectionStep
<1>2. ipc' \in {"next", "tcp"} /\ (ipc' = "tcp" => Section = "network")
      /\ (ipc' = "next" => Section = "files" \/ inodes' = {})
  BY LinksRead DEF Say, Goto
<1>3. Reading' <=> Reading
  BY <1>1, <1>2 DEF Reading
<1>4. Holding(ask.pid)' = Holding(ask.pid) /\ (Own' <=> Own)
  BY <1>1 DEF Holding, Own, Alive
<1>5. inodes' \subseteq Holding(ask.pid)
  BY LinksRead
<1>6. ask.pid \in lived => kept \subseteq inodes'
  <2>1. ask.pid \in lived => Survivor
    BY <1>1, HasRead, TableValues DEF ReadSoFar, Opened, Survivor
  <2>2. Survivor => inodes' = Holding(ask.pid)
    BY LinksRead
  <2> QED
    BY <2>1, <2>2 DEF ReportInv, SocketsOK
<1>7. ASSUME NEW k \in DOMAIN Tables, TableRead(k)' PROVE ipc' = "next"
  BY <1>2, <1>7, TableValues DEF TableRead
<1>8. Section = "network" /\ ask.pid \in lived /\ ipc' = "next" => kept = {}
  BY <1>2, <1>6
<1>9. SocketsOK
  BY DEF ReportInv
<1>10. (Reading => Holding(ask.pid) \subseteq owned /\ inodes \subseteq owned)'
  BY <1>1, <1>3, <1>4, <1>5, <1>9 DEF SocketsOK
<1>11. (Section = "network" /\ ask.pid \in lived /\ Own =>
          \A k \in DOMAIN Tables : TableRead(k) =>
            \A i \in kept : sockets[i].table = Tables[k] => i \in lines)'
  BY <1>1, <1>4, <1>7, <1>8
<1> QED
  BY <1>1, <1>3, <1>4, <1>6, <1>9, <1>10, <1>11 DEF SocketsOK

\* The lines read are those of sockets in that table.
LEMMA ReadTableSockets ==
  ASSUME ReportInv, ReadTable
  PROVE  SocketsOK'
<1>0. PICK k \in 1 .. 4 :
        /\ ipc = Tables[k] /\ lines' = lines \cup Mentioned(Tables[k])
        /\ \/ k = 4 /\ Say("value", {from})
           \/ k < 4 /\ k + 1 \in 1 .. 4 /\ Goto(Tables[k + 1])
  BY TableReads
<1>1. /\ UNCHANGED <<table, lived, sockets, kept, owned, ask, at, inodes>>
      /\ Section' = Section /\ ipc # "done" /\ Section = "network" /\ ipc \in Listed
  BY InSection, TableReads DEF SectionStep
<1>2. \/ k = 4 /\ ipc' = "next"
      \/ k < 4 /\ k + 1 \in 1 .. 4 /\ ipc' = Tables[k + 1]
  BY <1>0 DEF Say, Goto
<1>3. ipc' # "done" /\ Reading' /\ Reading
  BY <1>1, <1>2, TableValues DEF Reading
<1>4. Holding(ask.pid)' = Holding(ask.pid) /\ (Own' <=> Own)
  BY <1>1 DEF Holding, Own, Alive
<1>5. SocketsOK
  BY DEF ReportInv
<1>6. \A i \in lines' : sockets[i].table \in Listed /\ (i \in owned \/ sockets[i].number \in owned)
  <2> SUFFICES ASSUME NEW i \in lines'
               PROVE  sockets[i].table \in Listed /\ (i \in owned \/ sockets[i].number \in owned)
    OBVIOUS
  <2>1. CASE i \in lines
    BY <1>3, <1>5, <2>1 DEF SocketsOK
  <2>2. CASE i \in Mentioned(Tables[k])
    <3>1. sockets[i].table = Tables[k] /\ {i, sockets[i].number} \cap inodes # {}
      BY <2>2 DEF Mentioned
    <3>2. Tables[k] \in Listed
      BY TableValues DEF Listed
    <3>3. inodes \subseteq owned
      BY <1>3, <1>5 DEF SocketsOK
    <3> QED
      BY <3>1, <3>2, <3>3
  <2> QED
    BY <1>0, <2>1, <2>2
<1>7. ASSUME ask.pid \in lived, Own, NEW m \in DOMAIN Tables, TableRead(m)',
             NEW i \in kept, sockets[i].table = Tables[m]
      PROVE  i \in lines'
  <2>1. m \in 1 .. 4 /\ m <= k
    <3>1. m \in 1 .. 4
      BY TableValues
    <3>2. CASE ipc' = "next"
      <4>1. k = 4
        BY <1>2, <3>2, TableValues
      <4> QED
        BY <3>1, <4>1
    <3>3. CASE ipc' # "next"
      <4>1. PICK l \in 1 .. 4 : l > m /\ ipc' = Tables[l]
        BY <1>7, <3>3, TableValues DEF TableRead
      <4>2. k + 1 \in 1 .. 4 /\ ipc' = Tables[k + 1]
        BY <1>2, <3>3
      <4>3. l = k + 1
        BY <4>1, <4>2, TableValues
      <4> QED
        BY <3>1, <4>1, <4>3
    <3> QED
      BY <3>2, <3>3
  <2>2. CASE m < k
    <3>1. TableRead(m)
      BY <1>0, <2>2, TableValues DEF TableRead
    <3>2. i \in lines
      BY <1>1, <1>5, <1>7, <3>1 DEF SocketsOK
    <3> QED
      BY <1>0, <3>2
  <2>3. CASE m = k
    <3>1. i \in inodes /\ i \in Holding(ask.pid)
      BY <1>1, <1>5, <1>7 DEF SocketsOK
    <3>2. i \in Inodes /\ sockets[i].holders # {}
      BY <3>1 DEF Holding
    <3>3. i \in Mentioned(Tables[k])
      BY <1>7, <2>3, <3>1, <3>2 DEF Mentioned
    <3> QED
      BY <1>0, <3>3
  <2> QED
    BY <2>1, <2>2, <2>3
<1>8. ask.pid \in lived => kept \subseteq inodes
  BY <1>1, <1>5 DEF SocketsOK
<1>9. (Section = "network" /\ ask.pid \in lived /\ Own =>
         \A m \in DOMAIN Tables : TableRead(m) =>
           \A i \in kept : sockets[i].table = Tables[m] => i \in lines)'
  BY <1>1, <1>4, <1>7
<1> QED
  BY <1>1, <1>3, <1>4, <1>5, <1>6, <1>8, <1>9 DEF SocketsOK

\* A step of a section keeps the report's invariant.
LEMMA SectionStepKeeps ==
  ASSUME ReportInv, SectionStep, UNCHANGED commandVars
  PROVE  ReportInv'
<1>1. SocketsOK'
  BY CheckPidSockets, FdSockets, OtherSockets, ReadLinksSockets, ReadTableSockets DEF SectionStep
<1> QED
  BY <1>1, SectionTypes, SectionFrame, SectionOrder, SectionSurvivor, SectionLives DEF ReportInv

-----------------------------------------------------------------------------
(* The details, and the way from one section to the next. *)

\* Before the first section, and where there is none, the sockets are of no
\* interest.
LEMMA DetailsSockets ==
  ASSUME SocketsOK, UNCHANGED <<sockets, kept, owned, ask, inodes, lines, at>>, at = 0
  PROVE  SocketsOK'
<1>1. Section = "details" /\ Section' = "details"
  BY DEF Section
<1>2. ~Reading' /\ Holding(ask.pid)' = Holding(ask.pid)
  BY <1>1 DEF Reading, Holding
<1> QED
  BY <1>1, <1>2 DEF SocketsOK

\* A report begins with nothing printed.
LEMMA BeginKeeps ==
  ASSUME ReportInv, Begin, command = "show", UNCHANGED commandVars
  PROVE  ReportInv'
<1>1. /\ ipc = "idle" /\ ipc' = "details" /\ dpc' = "exists" /\ row' = NewRow(ask.pid)
      /\ derr' = "none" /\ Mark
      /\ UNCHANGED <<table, births, sockets, kept, owned, ask, from, inodes, lines, at, said,
                     status, command>>
  BY DEF Begin, Goto, CallDetails, socketVars, commandVars
<1>2. at = 0 /\ said = << >> /\ status = "none" /\ ask.asRow \in BOOLEAN /\ ask.pid \in Pids
  BY <1>1, Asked DEF ReportInv, FrameOK
<1>3. row'.pid = ask.pid /\ row' \in Rows /\ \A x \in Parts : row'.part[x] = 0
  BY <1>1, <1>2 DEF NewRow, Rows
<1>4. ProcTypeOK' /\ LivedAlive'
  BY <1>1, MarkTable DEF ReportInv, InspectTypeOK
<1>5. TableOK'
  BY <1>1, <1>4 DEF ReportInv, TableOK, ParentsAlive, BirthsBounded, Alive
<1>6. InspectTypeOK'
  BY <1>1, <1>3, <1>4 DEF ReportInv, InspectTypeOK, DetailsTypeOK, DetailsSteps, DetailsErrors,
     ReportSteps
<1>7. FrameOK'
  BY <1>1, <1>2, <1>3 DEF FrameOK, Underway
<1>8. SectionOK'
  BY <1>1, TableValues DEF SectionOK, Fits, Underway
<1>9. OrderOK'
  BY <1>1, <1>2 DEF OrderOK
<1>10. SurvivorOK'
  <2>1. ReadSoFar(ipc, from)'
    BY <1>1, TableValues DEF ReadSoFar, Opened
  <2>2. "exists" \notin OptionalParts \cup {"done"}
    BY DEF OptionalParts
  <2> QED
    BY <1>1, <1>2, <1>3, <2>1, <2>2 DEF SurvivorOK
<1>11. LivesOK'
  <2>1. Past(0)' /\ \A x : Past(x)' <=> Past(x)
    BY <1>1, BornPast DEF Past, Born
  <2> QED
    BY <1>1, <1>2, <1>3, <2>1 DEF ReportInv, LivesOK, NeverBack, Underway
<1>12. SocketsOK'
  BY <1>1, <1>2, DetailsSockets DEF ReportInv
<1> QED
  BY <1>5, <1>6, <1>7, <1>8, <1>9, <1>10, <1>11, <1>12 DEF ReportInv

\* What one of the reads of the details does to the row: of a survivor
\* nothing is read that is not its own, and no read fails.
LEMMA DetailsRead ==
  ASSUME ReportInv, DetailsNext
  PROVE  /\ dpc # "idle" /\ dpc' # "idle" /\ dpc' \in DetailsSteps /\ derr' \in DetailsErrors
         /\ row' \in Rows /\ row'.pid = row.pid
         /\ \A x \in Parts : row'.part[x] \in {row.part[x], 0, Born}
         /\ Survivor => derr' = "none"
         /\ Survivor /\ dpc' \in OptionalParts \cup {"done"} => row'.part["stat"] = Born
<1>1. /\ row \in Rows /\ dpc \in DetailsSteps /\ derr \in DetailsErrors
      /\ table \in [Pids -> Processes]
  BY DEF ReportInv, InspectTypeOK, DetailsTypeOK, ProcTypeOK
<1>2. dpc # "idle"
  BY DEF DetailsNext, CheckExists, CheckOpen, ReadStat, ReadOptional, OptionalParts
<1>3. row.pid = ask.pid /\ ask.pid \in Pids /\ Born \in Nat /\ table[ask.pid] \in Processes
  BY <1>1, <1>2, Asked, Reader DEF ReportInv, FrameOK
<1>4. Survivor => /\ Alive(ask.pid) /\ table[ask.pid].access \in {"full", "public"}
                  /\ derr = "none"
                  /\ dpc \in OptionalParts \cup {"done"} => row.part["stat"] = Born
  BY SurvivorIs, Reader DEF ReportInv, SurvivorOK, Survivor
<1>5. CASE CheckExists
  <2>1. Survivor => derr' = "none" /\ dpc' = "opendir"
    BY <1>3, <1>4, <1>5 DEF CheckExists
  <2>2. row' = row /\ dpc' \in {"opendir", "done"} /\ derr' \in {derr, "processNotFound"}
    BY <1>5 DEF CheckExists, FailDetails
  <2> QED
    BY <1>1, <1>2, <2>1, <2>2 DEF DetailsSteps, DetailsErrors, OptionalParts
<1>6. CASE CheckOpen
  <2>1. Survivor => derr' = "none" /\ dpc' = "stat"
    BY <1>3, <1>4, <1>6 DEF CheckOpen
  <2>2. row' = row /\ dpc' \in {"stat", "done"} /\ derr' \in {derr, "permissionDenied"}
    BY <1>6 DEF CheckOpen, FailDetails
  <2> QED
    BY <1>1, <1>2, <2>1, <2>2 DEF DetailsSteps, DetailsErrors, OptionalParts
<1>7. CASE ReadStat
  <2>1. CASE Readable("stat", row.pid)
    <3>1. /\ dpc' = "status" /\ derr' = derr
          /\ row' = [pid |-> row.pid, ppid |-> table[row.pid].ppid,
                     part |-> [NewRow(row.pid).part EXCEPT !["stat"] = table[row.pid].born]]
      BY <1>7, <2>1 DEF ReadStat
    <3>2. NewRow(row.pid).part = [x \in Parts |-> 0] /\ "stat" \in Parts
      BY DEF NewRow, Parts
    <3>3. row'.part = [[x \in Parts |-> 0] EXCEPT !["stat"] = Born]
      BY <1>3, <3>1, <3>2 DEF Born
    <3>4. /\ row'.part \in [Parts -> Nat] /\ row'.part["stat"] = Born
          /\ \A x \in Parts : row'.part[x] \in {row.part[x], 0, Born}
      BY <1>3, <3>2, <3>3
    <3>5. row'.pid = row.pid /\ row'.ppid \in Pids \cup {0}
      BY <1>3, <3>1 DEF Processes
    <3>6. row' \in Rows
      BY <1>1, <3>1, <3>4, <3>5 DEF Rows
    <3> QED
      BY <1>1, <1>2, <1>4, <3>1, <3>4, <3>5, <3>6 DEF DetailsSteps, OptionalParts
  <2>2. CASE ~Readable("stat", row.pid)
    <3>1. ~Survivor
      BY <1>3, <1>4, <2>2 DEF Readable
    <3>2. row' = row /\ dpc' = "done" /\ derr' \in {"fileNotFound", "ioError", "errno"}
      BY <1>7, <2>2 DEF ReadStat, FailDetails
    <3> QED
      BY <1>1, <1>2, <3>1, <3>2 DEF DetailsSteps, DetailsErrors
  <2> QED
    BY <2>1, <2>2
<1>8. ASSUME NEW part \in OptionalParts, ReadOptional(part)
      PROVE  /\ dpc' # "idle" /\ dpc' \in DetailsSteps /\ derr' \in DetailsErrors
             /\ row' \in Rows /\ row'.pid = row.pid
             /\ \A x \in Parts : row'.part[x] \in {row.part[x], 0, Born}
             /\ Survivor => derr' = "none"
             /\ Survivor => row'.part["stat"] = Born
  <2>1. /\ dpc = part /\ dpc' = AfterPart(part) /\ derr' = derr
        /\ row' = IF Readable(part, row.pid)
                  THEN [row EXCEPT !.part = [row.part EXCEPT ![part] = table[row.pid].born]]
                  ELSE row
    BY <1>8 DEF ReadOptional
  <2>2. dpc' \in DetailsSteps /\ dpc' # "idle"
    BY <2>1 DEF AfterPart, OptionalParts, DetailsSteps
  <2>3. part \in Parts /\ part # "stat"
    BY DEF Parts, OptionalParts
  <2>4. /\ row' \in Rows /\ row'.pid = row.pid
        /\ \A x \in Parts : row'.part[x] \in {row.part[x], 0, Born}
        /\ row'.part["stat"] = row.part["stat"]
    <3>1. CASE Readable(part, row.pid)
      <4>1. row' = [row EXCEPT !.part = [row.part EXCEPT ![part] = Born]]
        BY <1>3, <2>1, <3>1 DEF Born
      <4>2. row'.part = [row.part EXCEPT ![part] = Born] /\ row'.pid = row.pid
            /\ row'.ppid = row.ppid /\ row.part \in [Parts -> Nat]
        BY <1>1, <4>1 DEF Rows
      <4>3. "stat" \in Parts
        BY DEF Parts
      <4>4. /\ row'.part \in [Parts -> Nat]
            /\ \A x \in Parts : row'.part[x] \in {row.part[x], 0, Born}
            /\ row'.part["stat"] = row.part["stat"]
        BY <1>3, <2>3, <4>2, <4>3
      <4>5. row' \in Rows
        BY <1>1, <4>1, <4>2, <4>4 DEF Rows
      <4> QED
        BY <4>2, <4>4, <4>5
    <3>2. CASE ~Readable(part, row.pid)
      BY <1>1, <2>1, <3>2
    <3> QED
      BY <3>1, <3>2
  <2> QED
    BY <1>1, <1>4, <2>1, <2>2, <2>4
<1> QED
  BY <1>2, <1>5, <1>6, <1>7, <1>8 DEF DetailsNext

\* The details are read of the process that has the PID, or there is no report.
LEMMA ReadDetailsKeeps ==
  ASSUME ReportInv, ReadDetails, command = "show", UNCHANGED commandVars
  PROVE  ReportInv'
<1>1. /\ DetailsNext
      /\ UNCHANGED <<table, births, lived, settled, views, sockets, kept, owned, ask, ipc, at, from,
                     inodes, lines, said, status, command>>
  BY DEF ReadDetails, procVars, inspectVars, socketVars, reportVars, commandVars
<1>2. /\ dpc # "idle" /\ dpc' # "idle" /\ dpc' \in DetailsSteps /\ derr' \in DetailsErrors
      /\ row' \in Rows /\ row'.pid = row.pid
      /\ \A x \in Parts : row'.part[x] \in {row.part[x], 0, Born}
      /\ Survivor => derr' = "none"
      /\ Survivor /\ dpc' \in OptionalParts \cup {"done"} => row'.part["stat"] = Born
  BY <1>1, DetailsRead
<1>3. row.pid = ask.pid /\ at = 0 /\ ipc \in {"details", "done"}
      /\ (ipc = "done" => ask.asRow)
  BY <1>2 DEF ReportInv, FrameOK
<1>4. InspectTypeOK'
  BY <1>1, <1>2 DEF ReportInv, InspectTypeOK, ProcTypeOK, DetailsTypeOK
<1>5. TableOK'
  BY <1>1 DEF ReportInv, TableOK, LivedAlive, ParentsAlive, BirthsBounded, Alive
<1>6. FrameOK'
  BY <1>1, <1>2, <1>3 DEF ReportInv, FrameOK, Underway
<1>7. SectionOK'
  BY <1>1 DEF ReportInv, SectionOK, Fits, Underway, Section
<1>8. OrderOK'
  <2>1. /\ Answered' = Answered /\ \A s : PlaceOf(s)' = PlaceOf(s)
        /\ \A s : DueBy(s)' <=> DueBy(s)
    BY <1>1 DEF Answered, PlaceOf, DueBy
  <2> QED
    BY <1>1, <2>1 DEF ReportInv, OrderOK, Underway, Section
<1>9. SurvivorOK'
  <2>1. (Survivor' <=> Survivor) /\ Born' = Born /\ (\A e : EntryOK(e)' <=> EntryOK(e))
        /\ Section' = Section
    BY <1>1 DEF Survivor, Born, EntryOK, Section
  <2>2. ReadSoFar(ipc, from)'
    BY <1>1, <2>1, HasRead DEF ReadSoFar, Opened
  <2>3. Survivor => \A x \in Parts : row'.part[x] \in {0, Born}
    <3>1. Survivor => \A x \in Parts : row.part[x] \in {0, Born}
      BY <1>2 DEF ReportInv, SurvivorOK
    <3> QED
      BY <1>2, <3>1
  <2> QED
    BY <1>1, <1>2, <2>1, <2>2, <2>3 DEF ReportInv, SurvivorOK
<1>10. LivesOK'
  <2>1. \A x : Past(x)' <=> Past(x)
    BY <1>1 DEF Past, Born
  <2>2. \A x \in Parts : Past(row'.part[x])
    BY <1>2, BornPast DEF ReportInv, LivesOK
  <2> QED
    BY <1>1, <2>1, <2>2 DEF ReportInv, LivesOK, NeverBack, Underway
<1>11. SocketsOK'
  BY <1>1, <1>3, DetailsSockets DEF ReportInv
<1> QED
  BY <1>4, <1>5, <1>6, <1>7, <1>8, <1>9, <1>10, <1>11 DEF ReportInv

\* The details are the first answer, and of the process they were read of.
LEMMA TakeDetailsKeeps ==
  ASSUME ReportInv, TakeDetails, command = "show", UNCHANGED commandVars
  PROVE  ReportInv'
<1>1. /\ ipc = "details" /\ dpc = "done"
      /\ UNCHANGED <<table, births, lived, settled, views, sockets, kept, owned, ask, from, inodes, lines,
                     command>>
  BY DEF TakeDetails, procVars, socketVars, commandVars
<1>2. /\ at = 0 /\ said = << >> /\ status = "none" /\ row.pid = ask.pid /\ ask.asRow \in BOOLEAN
      /\ Section = "details"
  BY <1>1, Asked DEF ReportInv, FrameOK, Section
<1>3. /\ NoRow \in Rows /\ (\A x \in Parts : NoRow.part[x] = 0)
      /\ row \in Rows /\ \A x \in Parts : row.part[x] \in Nat
  BY DEF NoRow, NewRow, Rows, ReportInv, InspectTypeOK, DetailsTypeOK
<1>4. /\ Survivor => derr = "none" /\ row.part["stat"] = Born
      /\ Survivor => \A x \in Parts : row.part[x] \in {0, Born}
  BY <1>1 DEF ReportInv, SurvivorOK
<1>5. /\ (Survivor' <=> Survivor) /\ Born' = Born /\ (\A e : EntryOK(e)' <=> EntryOK(e))
      /\ \A x : Past(x)' <=> Past(x)
  BY <1>1 DEF Survivor, Born, EntryOK, Past
<1>6. TableOK' /\ ProcTypeOK'
  BY <1>1 DEF ReportInv, TableOK, LivedAlive, ParentsAlive, BirthsBounded, Alive, InspectTypeOK,
     ProcTypeOK
<1>7. ASSUME ipc' \in {"next", "done"} PROVE ReadSoFar(ipc, from)' /\ SectionOK'
  BY <1>7, TableValues DEF ReadSoFar, Opened, SectionOK, Fits, Underway
\* What it comes to: the row is kept or it is given up.
<1>8. /\ at' = 0 /\ DetailsTypeOK' /\ dpc' \in {"idle", "done"}
      /\ dpc' = "done" => row' = row /\ derr' = derr
      /\ dpc' = "idle" => row' = NoRow /\ derr' = "none"
      /\ \/ ipc' = "done" /\ status' = "failed" /\ dpc' = "idle" /\ derr # "none" /\ said' = said
         \/ ipc' = "done" /\ status' = "ok" /\ dpc' = "done" /\ ask.asRow /\ said' = said
            /\ derr = "none"
         \/ /\ ipc' = "next" /\ status' = "none" /\ dpc' = "idle" /\ ~ask.asRow
            /\ said' = Append(said, Answer("value", {row.part[x] : x \in Parts}))
  <2>1. CASE derr # "none"
    BY <1>1, <1>2, <1>3, <2>1 DEF TakeDetails, Exits, EndDetails, DetailsTypeOK, DetailsSteps,
       DetailsErrors
  <2>2. CASE derr = "none" /\ ask.asRow
    <3>1. Exits("ok") /\ UNCHANGED detailsVars
      BY <2>2 DEF TakeDetails
    <3> QED
      BY <1>1, <1>2, <2>2, <3>1 DEF Exits, detailsVars, ReportInv, InspectTypeOK, DetailsTypeOK
  <2>3. CASE derr = "none" /\ ~ask.asRow
    <3>1. Say("value", {row.part[x] : x \in Parts}) /\ EndDetails
      BY <2>3 DEF TakeDetails
    <3> QED
      BY <1>2, <1>3, <2>3, <3>1 DEF Say, EndDetails, Answer, DetailsTypeOK, DetailsSteps,
         DetailsErrors
  <2> QED
    BY <1>2, <2>1, <2>2, <2>3
<1>9. SocketsOK'
  BY <1>1, <1>2, <1>8, DetailsSockets DEF ReportInv
<1>10. \A x \in Parts : Past(row'.part[x])
  BY <1>3, <1>8, BornPast DEF ReportInv, LivesOK
<1>11. CASE said' = said
  <2>1. InspectTypeOK'
    BY <1>1, <1>2, <1>6, <1>8, <1>11 DEF ReportInv, InspectTypeOK, ReportSteps
  <2>2. FrameOK'
    BY <1>1, <1>2, <1>8, <1>11 DEF FrameOK, Underway
  <2>3. OrderOK'
    BY <1>2, <1>11 DEF OrderOK
  <2>4. SurvivorOK'
    BY <1>1, <1>2, <1>3, <1>4, <1>5, <1>7, <1>8, <1>11 DEF SurvivorOK
  <2>5. LivesOK'
    BY <1>1, <1>2, <1>5, <1>8, <1>10, <1>11 DEF ReportInv, LivesOK, NeverBack, Underway
  <2> QED
    BY <1>6, <1>7, <1>8, <1>9, <2>1, <2>2, <2>3, <2>4, <2>5 DEF ReportInv
<1>12. CASE /\ ipc' = "next" /\ status' = "none" /\ dpc' = "idle" /\ ~ask.asRow
            /\ said' = Append(said, Answer("value", {row.part[x] : x \in Parts}))
  <2> DEFINE of == {row.part[x] : x \in Parts}
             e == Answer("value", of)
  <2>1. e.section = "details" /\ e.what = "value" /\ e.of = of \ {0} /\ e \in Entry
    BY <1>2, <1>3 DEF Answer, Entry
  <2>2. Survivor => e.of = {Born}
    <3>1. Survivor => of \subseteq {0, Born} /\ Born \in of /\ Born # 0
      BY <1>4, SurvivorIs DEF Parts, ReportInv
    <3> QED
      BY <2>1, <3>1
  <2>3. \A x \in e.of : Past(x)
    BY <2>1 DEF ReportInv, LivesOK
  <2>4. said' = Append(said, e)
    BY <1>12
  <2> HIDE DEF of, e
  <2>5. DOMAIN said' = 1 .. 1 /\ said'[1] = e /\ said' # << >> /\ said' \in Seq(Entry)
    <3>1. Len(said) = 0
      BY <1>2, EmptySeq
    <3> QED
      BY <2>1, <2>4, <3>1, Appended DEF ReportInv
  <2>6. \A k \in DOMAIN said' : k = 1 /\ said'[k] = e
    BY <2>5
  <2>7. InspectTypeOK'
    BY <1>1, <1>6, <1>8, <1>12, <2>5 DEF ReportInv, InspectTypeOK, ReportSteps, Entry
  <2>8. FrameOK'
    BY <1>1, <1>8, <1>12, <2>5 DEF ReportInv, FrameOK, Underway
  <2>9. OrderOK'
    <3>1. \A s : PlaceOf(s)' = PlaceOf(s)
      BY DEF PlaceOf
    <3>2. Answered' = {"details"}
      BY <2>1, <2>5 DEF Answered
    <3>3. \A s \in ask.wants : ~DueBy(s)'
      <4>1. \A s \in ask.wants : PlaceOf(s) \in 1 .. 12
        BY Places, Asked DEF ReportInv
      <4> QED
        BY <1>8, <1>12, <3>1, <4>1 DEF DueBy
    <3>4. PlaceOf(e.section) = 0
      BY <2>1, Places
    <3> QED
      BY <1>1, <1>8, <1>12, <2>6, <3>1, <3>2, <3>3, <3>4 DEF OrderOK, Underway
  <2>10. SurvivorOK'
    <3>1. Survivor => EntryOK(e)
      BY <2>1, <2>2 DEF EntryOK
    <3>2. Survivor => \A k \in DOMAIN said' : EntryOK(said'[k])
      BY <2>6, <3>1
    <3>3. dpc' = "idle" /\ dpc' \notin OptionalParts \cup {"done"} /\ derr' = "none"
      BY <1>8, <1>12 DEF OptionalParts
    <3> QED
      BY <1>5, <1>7, <1>12, <3>2, <3>3 DEF SurvivorOK
  <2>11. LivesOK'
    <3>1. Past(from)' /\ ~Underway' /\ UNCHANGED ask
      BY <1>1, <1>5, <1>12 DEF ReportInv, LivesOK, Underway
    <3>2. NeverBack'
      BY <2>6 DEF NeverBack
    <3>3. \A k \in DOMAIN said' : \A x \in said'[k].of : Past(x)'
      BY <1>5, <2>3, <2>6
    <3>4. \A x \in Parts : Past(row.part[x])'
      BY <1>5, <1>10
    <3> QED
      BY <3>1, <3>2, <3>3, <3>4 DEF LivesOK
  <2> QED
    BY <1>6, <1>7, <1>9, <1>12, <2>7, <2>8, <2>9, <2>10, <2>11 DEF ReportInv
<1> QED
  BY <1>8, <1>11, <1>12

\* Where the report goes from a section: to the least of the wanted ones
\* that come after it, or to the end.
LEMMA NextOf ==
  ASSUME ReportInv, NextSection
  PROVE  /\ ipc = "next" /\ status = "none" /\ said # << >> /\ said' = said /\ ~ask.asRow
         /\ dpc = "idle" /\ at \in 0 .. 12
         /\ UNCHANGED <<table, births, lived, settled, views, dpc, row, derr, sockets, ask>>
         /\ from' = 0 /\ inodes' = {} /\ lines' = {}
         /\ \/ /\ ipc' = "done" /\ status' = "ok" /\ UNCHANGED <<at, kept, owned>>
               /\ \A s \in ask.wants : PlaceOf(s) <= at
            \/ /\ at' \in 1 .. 12 /\ at < at' /\ Order[at'] \in ask.wants /\ status' = "none"
               /\ \A s \in ask.wants : PlaceOf(s) < at' <=> PlaceOf(s) <= at
               /\ ipc' = IF Order[at'] \in {"cpu", "io"} THEN "first" ELSE "exists"
               /\ kept' = IF Order[at'] = "network" THEN Holding(ask.pid) ELSE {}
               /\ owned' = kept'
<1> DEFINE rest == {i \in DOMAIN Order : i > at /\ Order[i] \in ask.wants}
<1>1. /\ ipc = "next" /\ from' = 0 /\ inodes' = {} /\ lines' = {}
      /\ UNCHANGED <<table, births, lived, settled, views, dpc, row, derr, sockets, ask>>
  BY DEF NextSection, procVars, detailsVars
<1>2. status = "none" /\ said # << >> /\ ~ask.asRow /\ dpc = "idle" /\ at \in 0 .. 12
  BY <1>1, SectionAt DEF ReportInv, FrameOK
<1>3. \A s \in ask.wants : PlaceOf(s) \in 1 .. 12 /\ Order[PlaceOf(s)] = s
  BY Places, Asked DEF ReportInv
<1>4. \A s \in ask.wants : PlaceOf(s) > at => PlaceOf(s) \in rest
  BY <1>3, OrderValues
<1>5. CASE rest = {}
  <2>1. Exits("ok") /\ UNCHANGED <<kept, owned>>
    BY <1>5 DEF NextSection
  <2>2. \A s \in ask.wants : PlaceOf(s) <= at
    BY <1>2, <1>3, <1>4, <1>5
  <2> QED
    BY <1>1, <1>2, <2>1, <2>2 DEF Exits
<1>6. CASE rest # {}
  <2>1. /\ at' = CHOOSE i \in rest : \A j \in rest : i <= j
        /\ ipc' = IF Order[at'] \in {"cpu", "io"} THEN "first" ELSE "exists"
        /\ kept' = IF Order[at'] = "network" THEN Holding(ask.pid) ELSE {}
        /\ owned' = kept'
        /\ UNCHANGED <<said, status>>
    BY <1>6 DEF NextSection
  <2>2. rest \subseteq 1 .. 12 /\ \A i \in rest : i > at /\ Order[i] \in ask.wants
    BY OrderValues
  <2> HIDE DEF rest
  <2>3. \E i \in rest : \A j \in rest : i <= j
    <3>1. rest \subseteq Nat
      BY <2>2
    <3> QED
      BY <1>6, <3>1, LeastNumber
  <2>4. at' \in rest /\ \A j \in rest : at' <= j
    BY <2>1, <2>3
  <2>5. at' \in 1 .. 12 /\ at < at' /\ Order[at'] \in ask.wants
    BY <2>2, <2>4
  <2>6. \A s \in ask.wants : PlaceOf(s) < at' <=> PlaceOf(s) <= at
    <3> SUFFICES ASSUME NEW s \in ask.wants PROVE PlaceOf(s) < at' <=> PlaceOf(s) <= at
      OBVIOUS
    <3>1. PlaceOf(s) \in 1 .. 12 /\ (PlaceOf(s) > at => PlaceOf(s) \in rest)
      BY <1>3, <1>4
    <3>2. PlaceOf(s) > at => at' <= PlaceOf(s)
      BY <2>4, <3>1
    <3> QED
      BY <1>2, <2>5, <3>1, <3>2
  <2> QED
    BY <1>1, <1>2, <2>1, <2>5, <2>6
<1> QED
  BY <1>5, <1>6

\* The next section asked for comes next, and none in between is left out.
LEMMA NextSectionKeeps ==
  ASSUME ReportInv, NextSection, command = "show", UNCHANGED commandVars
  PROVE  ReportInv'
<1>1. /\ ipc = "next" /\ status = "none" /\ said # << >> /\ said' = said /\ ~ask.asRow
      /\ dpc = "idle" /\ at \in 0 .. 12 /\ command' = command
      /\ UNCHANGED <<table, births, lived, settled, views, dpc, row, derr, sockets, ask>>
      /\ from' = 0 /\ inodes' = {} /\ lines' = {}
  BY NextOf DEF commandVars
<1>2. \/ /\ ipc' = "done" /\ status' = "ok" /\ UNCHANGED <<at, kept, owned>>
         /\ \A s \in ask.wants : PlaceOf(s) <= at
      \/ /\ at' \in 1 .. 12 /\ at < at' /\ Order[at'] \in ask.wants /\ status' = "none"
         /\ \A s \in ask.wants : PlaceOf(s) < at' <=> PlaceOf(s) <= at
         /\ ipc' = IF Order[at'] \in {"cpu", "io"} THEN "first" ELSE "exists"
         /\ kept' = IF Order[at'] = "network" THEN Holding(ask.pid) ELSE {}
         /\ owned' = kept'
  BY NextOf
<1>3. ipc' \in {"done", "first", "exists"} /\ status' # "failed"
  BY <1>2
<1>4. TableOK' /\ ProcTypeOK' /\ DetailsTypeOK'
  BY <1>1 DEF ReportInv, TableOK, LivedAlive, ParentsAlive, BirthsBounded, Alive, InspectTypeOK,
     ProcTypeOK, DetailsTypeOK
<1>5. InspectTypeOK'
  <2>1. at' \in 0 .. Len(Order) /\ ipc' \in ReportSteps /\ status' \in {"none", "ok", "failed"}
    BY <1>1, <1>2, OrderValues DEF ReportSteps
  <2>2. kept' \subseteq owned' /\ owned' \subseteq Inodes
    BY <1>2 DEF ReportInv, InspectTypeOK, Holding
  <2> QED
    BY <1>1, <1>4, <2>1, <2>2 DEF ReportInv, InspectTypeOK
<1>6. \A s : PlaceOf(s)' = PlaceOf(s)
  BY DEF PlaceOf
\* What was due is what has been answered.
<1>7. /\ Answered' = Answered
      /\ Answered = {"details"} \cup {s \in ask.wants : PlaceOf(s) <= at}
      /\ \A j, k \in DOMAIN said : j < k => PlaceOf(said[j].section) < PlaceOf(said[k].section)
      /\ \A k \in DOMAIN said : PlaceOf(said[k].section) <= at
  <2>1. \A s \in ask.wants : DueBy(s) <=> PlaceOf(s) <= at
    <3>1. \A s \in ask.wants : PlaceOf(s) \in 1 .. 12
      BY Places, Asked DEF ReportInv
    <3> QED
      BY <1>1, <3>1 DEF DueBy
  <2>2. \A k \in DOMAIN said : PlaceOf(said[k].section) \in 0 .. 12
    BY SaidTypes, Places DEF ReportInv
  <2>3. OrderOK
    BY DEF ReportInv
  <2>4. \A k \in DOMAIN said : PlaceOf(said[k].section) <= at
    BY <1>1, <2>2, <2>3 DEF OrderOK
  <2>5. Answered' = Answered
    BY <1>1 DEF Answered
  <2> QED
    BY <1>1, <2>1, <2>3, <2>4, <2>5 DEF OrderOK
<1>8. ASSUME ipc' = "done" /\ status' = "ok" /\ UNCHANGED <<at, kept, owned>>,
             \A s \in ask.wants : PlaceOf(s) <= at
      PROVE  FrameOK' /\ SectionOK' /\ OrderOK' /\ SocketsOK'
  <2>1. FrameOK'
    BY <1>1, <1>8 DEF ReportInv, FrameOK, Underway
  <2>2. SectionOK'
    BY <1>8, TableValues DEF SectionOK, Fits, Underway
  <2>3. OrderOK'
    <3>1. \A s : DueBy(s)'
      BY <1>8 DEF DueBy
    <3>2. ~Underway' /\ \A k \in DOMAIN said : PlaceOf(said[k].section) \in 0 .. 12
      BY <1>8, SaidTypes, Places DEF ReportInv, Underway
    <3> QED
      BY <1>1, <1>6, <1>7, <1>8, <3>1, <3>2 DEF OrderOK
  <2>4. SocketsOK'
    <3>1. Holding(ask.pid)' = Holding(ask.pid) /\ ~Reading'
      BY <1>1, <1>8 DEF Holding, Reading
    <3>2. \A k \in DOMAIN Tables : ~TableRead(k)'
      BY <1>8, TableValues DEF TableRead
    <3>3. ipc' \notin Listed
      BY <1>8, TableValues
    <3> QED
      BY <1>1, <1>8, <3>1, <3>2, <3>3 DEF ReportInv, SocketsOK
  <2> QED
    BY <2>1, <2>2, <2>3, <2>4
<1>9. ASSUME at' \in 1 .. 12 /\ at < at' /\ Order[at'] \in ask.wants /\ status' = "none",
             \A s \in ask.wants : PlaceOf(s) < at' <=> PlaceOf(s) <= at,
             ipc' = IF Order[at'] \in {"cpu", "io"} THEN "first" ELSE "exists",
             kept' = IF Order[at'] = "network" THEN Holding(ask.pid) ELSE {},
             owned' = kept'
      PROVE  FrameOK' /\ SectionOK' /\ OrderOK' /\ SocketsOK'
  <2>1. FrameOK'
    BY <1>1, <1>9 DEF ReportInv, FrameOK, Underway
  <2>2. Section' = Order[at']
    BY <1>9 DEF Section
  <2>3. SectionOK'
    BY <1>9, <2>2, TableValues DEF SectionOK, Fits, Underway
  <2>4. OrderOK'
    <3>1. \A s \in ask.wants : DueBy(s)' <=> PlaceOf(s) <= at
      <4>1. \A s \in ask.wants : DueBy(s)' <=> PlaceOf(s) < at'
        BY <1>6, <1>9 DEF DueBy
      <4> QED
        BY <1>9, <4>1
    <3>2. \A k \in DOMAIN said : PlaceOf(said[k].section) < at'
      <4>1. \A k \in DOMAIN said : PlaceOf(said[k].section) \in 0 .. 12
        BY SaidTypes, Places DEF ReportInv
      <4> QED
        BY <1>1, <1>7, <1>9, <4>1
    <3> QED
      BY <1>1, <1>6, <1>7, <1>9, <3>1, <3>2 DEF OrderOK
  <2>5. SocketsOK'
    <3>1. Holding(ask.pid)' = Holding(ask.pid)
      BY <1>1 DEF Holding
    <3>2. \A k \in DOMAIN Tables : ~TableRead(k)'
      BY <1>9, TableValues DEF TableRead
    <3>3. ipc' \notin Listed
      BY <1>9, TableValues
    <3>4. Reading' => owned' = Holding(ask.pid)
      BY <1>9, <2>2 DEF Reading
    <3> QED
      BY <1>1, <1>9, <3>1, <3>2, <3>3, <3>4 DEF ReportInv, SocketsOK
  <2> QED
    BY <2>1, <2>3, <2>4, <2>5
<1>10. SurvivorOK'
  <2>1. /\ (Survivor' <=> Survivor) /\ (\A e : EntryOK(e)' <=> EntryOK(e))
        /\ dpc' = "idle" /\ dpc' \notin OptionalParts \cup {"done"} /\ derr' = derr
    BY <1>1 DEF Survivor, Born, EntryOK, OptionalParts
  <2>2. ReadSoFar(ipc, from)'
    BY <1>3, TableValues DEF ReadSoFar, Opened
  <2> QED
    BY <1>1, <1>3, <2>1, <2>2 DEF ReportInv, SurvivorOK
<1>11. LivesOK'
  <2>1. (\A x : Past(x)' <=> Past(x)) /\ Past(0)
    BY <1>1, BornPast DEF Past, Born
  <2> QED
    BY <1>1, <2>1 DEF ReportInv, LivesOK, NeverBack
<1> QED
  BY <1>2, <1>4, <1>5, <1>8, <1>9, <1>10, <1>11 DEF ReportInv

\* The steps of others.
LEMMA ReportRests ==
  ASSUME ReportInv, UNCHANGED <<procVars, detailsVars, inspectVars, commandVars>>
  PROVE  ReportInv'
<1>1. UNCHANGED <<table, births, lived, settled, views, dpc, row, derr, sockets, kept, owned, ask, ipc, at,
                  from, inodes, lines, said, status, command>>
  BY DEF procVars, detailsVars, inspectVars, socketVars, reportVars, commandVars
<1>2. InspectTypeOK' /\ TableOK'
  BY <1>1 DEF ReportInv, InspectTypeOK, ProcTypeOK, DetailsTypeOK, TableOK, LivedAlive,
     ParentsAlive, BirthsBounded, Alive
<1>3. FrameOK' /\ SectionOK'
  BY <1>1 DEF ReportInv, FrameOK, SectionOK, Fits, Underway, Section
<1>4. OrderOK'
  <2>1. /\ Answered' = Answered /\ \A s : PlaceOf(s)' = PlaceOf(s)
        /\ \A s : DueBy(s)' <=> DueBy(s)
    BY <1>1 DEF Answered, PlaceOf, DueBy
  <2> QED
    BY <1>1, <2>1 DEF ReportInv, OrderOK, Underway, Section
<1>5. SurvivorOK'
  <2>1. (Survivor' <=> Survivor) /\ Born' = Born /\ (\A e : EntryOK(e)' <=> EntryOK(e))
        /\ Section' = Section
    BY <1>1 DEF Survivor, Born, EntryOK, Section
  <2>2. ReadSoFar(ipc, from)'
    BY <1>1, <2>1, HasRead DEF ReadSoFar, Opened
  <2> QED
    BY <1>1, <2>1, <2>2 DEF ReportInv, SurvivorOK
<1>6. LivesOK'
  BY <1>1 DEF ReportInv, LivesOK, NeverBack, Underway, Past, Born
<1>7. SocketsOK'
  <2>1. /\ Holding(ask.pid)' = Holding(ask.pid) /\ (Own' <=> Own) /\ (Reading' <=> Reading)
        /\ Section' = Section /\ \A k : TableRead(k)' <=> TableRead(k)
    BY <1>1 DEF Holding, Own, Alive, Reading, Section, TableRead
  <2> QED
    BY <1>1, <2>1 DEF ReportInv, SocketsOK
<1> QED
  BY <1>2, <1>3, <1>4, <1>5, <1>6, <1>7 DEF ReportInv

\* A row for the tree takes nothing from the report.
LEMMA TakeOneRowKeeps ==
  ASSUME ReportInv, TakeOneRow
  PROVE  ReportInv'
<1>1. /\ ipc = "done" /\ ask.asRow /\ dpc' = "idle" /\ row' = NoRow /\ derr' = "none"
      /\ UNCHANGED <<table, births, lived, settled, views, sockets, kept, owned, ask, ipc, at,
                     from, inodes, lines, said, status, command>>
  BY DEF TakeOneRow, EndDetails, procVars, inspectVars, socketVars, reportVars, commandVars
<1>2. NoRow \in Rows /\ \A x \in Parts : NoRow.part[x] = 0
  BY DEF NoRow, NewRow, Rows
<1>3. at = 0 /\ said = << >>
  BY <1>1 DEF ReportInv, FrameOK
<1>4. InspectTypeOK' /\ TableOK'
  BY <1>1, <1>2 DEF ReportInv, InspectTypeOK, ProcTypeOK, DetailsTypeOK, DetailsSteps,
     DetailsErrors, TableOK, LivedAlive, ParentsAlive, BirthsBounded, Alive
<1>5. FrameOK' /\ SectionOK'
  BY <1>1 DEF ReportInv, FrameOK, SectionOK, Fits, Underway, Section
<1>6. OrderOK'
  <2>1. DOMAIN said = {}
    BY <1>3
  <2> QED
    BY <1>1, <1>3, <2>1 DEF OrderOK
<1>7. SurvivorOK'
  <2>1. (Survivor' <=> Survivor) /\ (\A e : EntryOK(e)' <=> EntryOK(e))
        /\ "idle" \notin OptionalParts \cup {"done"}
    BY <1>1 DEF Survivor, Born, EntryOK, OptionalParts
  <2>2. ReadSoFar(ipc, from)'
    BY <1>1, TableValues DEF ReadSoFar, Opened
  <2> QED
    BY <1>1, <2>1, <2>2 DEF ReportInv, SurvivorOK
<1>8. LivesOK'
  <2>1. (\A x : Past(x)' <=> Past(x)) /\ Past(0)
    BY <1>1, BornPast DEF Past, Born
  <2> QED
    BY <1>1, <1>2, <2>1 DEF ReportInv, LivesOK, NeverBack, Underway
<1>9. SocketsOK'
  BY <1>1, <1>3, DetailsSockets DEF ReportInv
<1> QED
  BY <1>4, <1>5, <1>6, <1>7, <1>8, <1>9 DEF ReportInv

\* No report was asked for: the report's invariant holds.
LEMMA ReportInit ==
  ASSUME Init
  PROVE  ReportInv
<1>1. /\ ProcInit /\ dpc = "idle" /\ row = NoRow /\ derr = "none"
      /\ sockets \in SocketsAt /\ ask \in Asks /\ ipc = "idle" /\ at = 0 /\ from = 0
      /\ inodes = {} /\ lines = {} /\ said = << >> /\ status = "none" /\ kept = {} /\ owned = {}
      /\ lived = {}
  BY DEF Init, InspectInit, DetailsInit, ProcInit
<1>2. ProcTypeOK /\ TableOK
  BY <1>1, InitTable DEF TableOK
<1>3. NoRow \in Rows /\ \A x \in Parts : NoRow.part[x] = 0
  BY DEF NoRow, NewRow, Rows
<1>4. InspectTypeOK
  <2>1. sockets \in [Inodes -> Socket] /\ \A i \in Inodes : sockets[i].table = "none" => sockets[i].holders = {}
    BY <1>1, InspectAssumption
  <2>2. said \in Seq(Entry)
    BY <1>1
  <2>3. DetailsTypeOK
    BY <1>1, <1>3 DEF DetailsTypeOK, DetailsSteps, DetailsErrors
  <2>4. at \in 0 .. Len(Order) /\ ipc \in ReportSteps
    BY <1>1, OrderValues DEF ReportSteps
  <2> QED
    BY <1>1, <1>2, <2>1, <2>2, <2>3, <2>4 DEF InspectTypeOK, Entry
<1>5. FrameOK /\ SectionOK
  <2>1. ask.asRow \in BOOLEAN
    BY <1>4, Asked
  <2> QED
    BY <1>1, <2>1, TableValues DEF FrameOK, SectionOK, Fits, Underway
<1>6. DOMAIN said = {}
  BY <1>1
<1>7. OrderOK
  BY <1>1, <1>6 DEF OrderOK
<1>8. SurvivorOK
  BY <1>1, <1>6, TableValues DEF SurvivorOK, ReadSoFar, Opened, Survivor
<1>9. LivesOK
  <2>1. Past(0)
    <3>1. births \in Nat /\ Born \in Nat
      BY <1>2, <1>4, Reader DEF ProcTypeOK
    <3> QED
      BY <3>1 DEF Past
  <2> QED
    BY <1>1, <1>3, <1>6, <2>1 DEF LivesOK, NeverBack, Underway
<1>10. SocketsOK
  <2>1. \A i \in Inodes : sockets[i].table = "none" => sockets[i].holders = {}
    BY <1>1, InspectAssumption
  <2>2. Section = "details"
    BY <1>1 DEF Section
  <2> QED
    BY <1>1, <2>1, <2>2 DEF SocketsOK, Reading
<1> QED
  BY <1>2, <1>4, <1>5, <1>7, <1>8, <1>9, <1>10 DEF ReportInv

-----------------------------------------------------------------------------
(* The theorems. *)

\* The row that a printer is to have is there until it is taken.
RowKept ==
  ipc = "done" /\ status = "ok" /\ ask.asRow /\ ppc = "none" => dpc # "idle"

DisplayInv == PrintInv /\ ReportInv /\ RowKept

\* Every step of the program and of the kernel keeps the report's invariant.
LEMMA ProgramKeepsReport ==
  ASSUME ReportInv, Next
  PROVE  ReportInv'
<1>1. ASSUME ReportStep PROVE ReportInv'
  <2>1. Report /\ command = "show" /\ UNCHANGED commandVars
    BY <1>1 DEF ReportStep
  <2>2. SectionStep \/ Begin \/ ReadDetails \/ TakeDetails \/ NextSection
    BY <2>1 DEF Report, SectionStep
  <2> QED
    BY <2>1, <2>2, SectionStepKeeps, BeginKeeps, ReadDetailsKeeps, TakeDetailsKeeps,
       NextSectionKeeps
<1>2. ASSUME KernelStep PROVE ReportInv'
  BY <1>2, KernelReportStep DEF KernelStep
<1>3. ASSUME TakeRows \/ PrintLines \/ PrintTree PROVE ReportInv'
  BY <1>3, ReportRests DEF TakeRows, PrintLines, PrintTree
<1> QED
  BY <1>1, <1>2, <1>3, TakeOneRowKeeps DEF Next, Program

\* What the report's steps are to the row.
LEMMA ReportKeepsRow ==
  ASSUME ReportInv, Report, UNCHANGED ppc, RowKept
  PROVE  RowKept' /\ UNCHANGED ask
<1>1. CASE SectionStep
  <2>1. ~ask.asRow /\ UNCHANGED ask
    BY <1>1, InSection
  <2> QED
    BY <2>1 DEF RowKept
<1>2. CASE Begin
  BY <1>2 DEF Begin, Goto, RowKept
<1>3. CASE ReadDetails
  <2>1. dpc' # "idle" /\ UNCHANGED ask
    BY <1>3, DetailsRead DEF ReadDetails, inspectVars, reportVars
  <2> QED
    BY <2>1 DEF RowKept
<1>4. CASE TakeDetails
  <2>1. ipc = "details" /\ dpc = "done" /\ UNCHANGED ask
    BY <1>4 DEF TakeDetails
  <2>2. CASE derr # "none"
    BY <1>4, <2>1, <2>2 DEF TakeDetails, Exits, RowKept
  <2>3. CASE derr = "none" /\ ask.asRow
    <3>1. UNCHANGED detailsVars
      BY <1>4, <2>3 DEF TakeDetails
    <3> QED
      BY <2>1, <3>1 DEF detailsVars, RowKept
  <2>4. CASE derr = "none" /\ ~ask.asRow
    BY <2>1, <2>4 DEF RowKept
  <2>5. ask.asRow \in BOOLEAN
    BY Asked DEF ReportInv
  <2> QED
    BY <2>2, <2>3, <2>4, <2>5
<1>5. CASE NextSection
  BY <1>5, NextOf DEF RowKept
<1> QED
  BY <1>1, <1>2, <1>3, <1>4, <1>5 DEF Report, SectionStep

\* Every step keeps the printer's invariant, and the row that is printed.
LEMMA ProgramKeepsRest ==
  ASSUME DisplayInv, Next
  PROVE  PrintInv' /\ RowKept'
<1>0. PrintInv /\ ReportInv /\ RowKept
  BY DEF DisplayInv
<1>1. ASSUME KernelStep PROVE PrintInv' /\ RowKept'
  <2>1. UNCHANGED <<ask, ipc, status, dpc, commandVars, printVars>>
    BY <1>0, <1>1, KernelSteps DEF KernelStep, ReportInv, reportVars, detailsVars
  <2> QED
    BY <1>0, <2>1, PrinterRests DEF RowKept, printVars
<1>2. ASSUME ReportStep PROVE PrintInv' /\ RowKept'
  <2>1. Report /\ UNCHANGED <<commandVars, printVars>> /\ UNCHANGED ppc
    BY <1>2 DEF ReportStep, printVars
  <2> QED
    BY <1>0, <2>1, ReportKeepsRow, PrinterRests
<1>3. ASSUME TakeRows PROVE PrintInv' /\ RowKept'
  BY <1>0, <1>3, TakeRowsStep DEF TakeRows, RowKept
<1>4. ASSUME TakeOneRow PROVE PrintInv' /\ RowKept'
  <2>1. dpc # "idle"
    BY <1>0, <1>4 DEF TakeOneRow, RowKept
  <2>2. row.pid = ask.pid /\ ask.pid \in Pids
    BY <1>0, <2>1, Asked DEF ReportInv, FrameOK
  <2>3. row.ppid \in Nat
    <3>1. row \in Rows
      BY <1>0 DEF ReportInv, InspectTypeOK, DetailsTypeOK
    <3>2. row.ppid \in Pids \cup {0}
      BY <3>1 DEF Rows
    <3>3. \A x \in Pids \cup {0} : x \in Nat
      BY ProcTableAssumption
    <3> QED
      BY <3>2, <3>3, Zenon
  <2> QED
    BY <1>0, <1>4, <2>2, <2>3, TakeOneRowStep DEF TakeOneRow, RowKept
<1>5. ASSUME PrintLines PROVE PrintInv' /\ RowKept'
  <2>1. UNCHANGED ask /\ ppc' = "done"
    BY <1>5 DEF PrintLines, inspectVars, reportVars
  <2> QED
    BY <1>0, <1>5, <2>1, PrintLinesStep DEF RowKept
<1>6. ASSUME PrintTree PROVE PrintInv' /\ RowKept'
  <2>1. UNCHANGED <<ask, ipc, status, dpc>>
    BY <1>6 DEF PrintTree, inspectVars, reportVars, detailsVars
  <2>2. ppc' # "none"
    BY <1>6 DEF PrintTree, Tree!Next, Tree!PrintRoots, Tree!PrintNode, Tree!PrintRest, Tree!Return
  <2> QED
    BY <1>0, <1>6, <2>1, <2>2, PrintTreeStep DEF RowKept
<1> QED
  BY <1>1, <1>2, <1>3, <1>4, <1>5, <1>6 DEF Next, Program

\* In every run of list --tree and show, the printer's agenda has all that is
\* left to print, and the report is in order, of its process, and whole if the
\* process stays (output.cpp:186-240, main.cpp:219-372).
THEOREM DisplayInvariance == Spec => []DisplayInv
<1>1. Init => DisplayInv
  BY PrinterInit, ReportInit DEF DisplayInv, RowKept, Init, InspectInit
<1>2. ASSUME DisplayInv, [Next]_vars PROVE DisplayInv'
  <2>1. CASE Next
    BY <1>2, <2>1, ProgramKeepsReport, ProgramKeepsRest DEF DisplayInv
  <2>2. CASE UNCHANGED vars
    <3>1. UNCHANGED <<procVars, detailsVars, inspectVars, commandVars, printVars>>
      BY <2>2 DEF vars
    <3>2. UNCHANGED <<ask, ipc, status, dpc, ppc>>
      BY <3>1 DEF inspectVars, reportVars, detailsVars, printVars
    <3> QED
      BY <1>2, <3>1, <3>2, ReportRests, PrinterRests DEF DisplayInv, RowKept
  <2> QED
    BY <1>2, <2>1, <2>2
<1> QED
  BY <1>1, <1>2, PTL DEF Spec

\* The variables keep their types.
THEOREM DisplayTypes == Spec => []TypeOK
<1>1. DisplayInv => TypeOK
  BY DEF DisplayInv, PrintInv, PrintTypeOK, ListingOK, ReportInv, TypeOK
<1> QED
  BY <1>1, DisplayInvariance, PTL

\* Every process of a result is printed once, in every format: none is left
\* out and none is repeated, whatever cycles of parents a listing has.
THEOREM EveryRowPrintedOnce == Spec => []PrintedExactlyOnce
<1>1. DisplayInv => PrintedExactlyOnce
  BY PrintInvImplies DEF DisplayInv
<1> QED
  BY <1>1, DisplayInvariance, PTL

\* In a tree what is indented stands below its parent, and what is not has
\* none in the listing or is caught in a cycle.
THEOREM IndentationTrue == Spec => []Indentation
<1>1. DisplayInv => Indentation
  BY PrintInvImplies DEF DisplayInv
<1> QED
  BY <1>1, DisplayInvariance, PTL

\* A report that is in order, of its process and whole is told as promised.
LEMMA ToldWhole ==
  ASSUME ReportInv
  PROVE  SurvivorToldWhole
<1> SUFFICES ASSUME ipc = "done", ~ask.asRow, ask.pid \in lived, Openable
             PROVE  /\ status = "ok"
                    /\ {s.section : s \in Range(said)} = ask.wants \cup {"details"}
                    /\ \A s \in Range(said) : EntryOK(s)
  BY DEF SurvivorToldWhole, EntryOK
<1>1. Survivor
  BY SurvivorIs DEF ReportInv
<1>2. status = "ok" /\ said # << >>
  <2>1. status \in {"none", "ok", "failed"} /\ status # "failed" /\ status # "none"
    BY <1>1 DEF ReportInv, InspectTypeOK, SurvivorOK, FrameOK
  <2> QED
    BY <2>1 DEF ReportInv, FrameOK
<1>3. Answered = {"details"} \cup ask.wants
  BY <1>2 DEF ReportInv, OrderOK, DueBy
<1>4. Range(said) = {said[k] : k \in DOMAIN said}
  BY DEF Range
<1>5. {s.section : s \in Range(said)} = Answered
  BY <1>4 DEF Answered
<1>6. \A k \in DOMAIN said : EntryOK(said[k])
  BY <1>1 DEF ReportInv, SurvivorOK
<1> QED
  BY <1>2, <1>3, <1>4, <1>5, <1>6

\* The report on a process that lives through it, if it can be opened, has
\* every section asked for, and of every section that may be read of it, it
\* has a value that is of this process and of no other.
THEOREM ReportWhole == Spec => []SurvivorToldWhole
<1>1. DisplayInv => SurvivorToldWhole
  BY ToldWhole DEF DisplayInv
<1> QED
  BY <1>1, DisplayInvariance, PTL

\* No section is of a process that had the PID before the one of a section
\* printed above it.
THEOREM ReportNeverBack == Spec => []NeverBack
<1>1. DisplayInv => NeverBack
  BY DEF DisplayInv, ReportInv, LivesOK
<1> QED
  BY <1>1, DisplayInvariance, PTL

\* A report that is in order answers in order.
LEMMA InOrder ==
  ASSUME ReportInv
  PROVE  AnsweredInOrder
<1> DEFINE places == [k \in DOMAIN said |->
                        IF said[k].section = "details" THEN 0
                        ELSE CHOOSE i \in DOMAIN Order : Order[i] = said[k].section]
<1>1. DOMAIN places = DOMAIN said /\ \A k \in DOMAIN said : places[k] = PlaceOf(said[k].section)
  BY DEF PlaceOf
<1> HIDE DEF places
<1>2. OrderOK /\ FrameOK
  BY DEF ReportInv
<1>3. \A j, k \in DOMAIN places : j < k => places[j] < places[k]
  BY <1>1, <1>2 DEF OrderOK
<1>4. status = "ok" /\ ~ask.asRow => Answered = ask.wants \cup {"details"}
  BY <1>2 DEF OrderOK, FrameOK, DueBy
<1>5. ASSUME status = "failed", said # << >>
      PROVE  /\ Section = "threads" /\ ask.pid \notin lived
             /\ \A i \in DOMAIN Order : i < at /\ Order[i] \in ask.wants => Order[i] \in Answered
  <2>1. \A i \in DOMAIN Order : i < at => DueBy(Order[i])
    BY Places, OrderValues DEF DueBy
  <2> QED
    BY <1>2, <1>5, <2>1 DEF OrderOK
<1> QED
  BY <1>3, <1>4, <1>5 DEF AnsweredInOrder, Answered, places

\* Every section asked for is answered once and in its place; only the
\* threads' can break a report off, and then the process has not lived
\* through it, and all sections above are there.
THEOREM ReportInOrder == Spec => []AnsweredInOrder
<1>1. DisplayInv => AnsweredInOrder
  BY InOrder DEF DisplayInv
<1> QED
  BY <1>1, DisplayInvariance, PTL

\* Links and lines that are those of their sockets make connections which are
\* the process's.
LEMMA ConnectionsOwned ==
  ASSUME ReportInv
  PROVE  ConnectionsMatchSockets
<1> SUFFICES ASSUME ipc = "next", Section = "network"
             PROVE  /\ ask.pid \in lived /\ Own =>
                         \A i \in kept : sockets[i].table \in Listed => i \in lines
                    /\ \A i \in lines : i \in owned \/ sockets[i].number \in owned
  BY DEF ConnectionsMatchSockets
<1>1. SocketsOK /\ Reading /\ \A k \in DOMAIN Tables : TableRead(k)
  BY DEF ReportInv, Reading, TableRead
<1>2. \A i \in Inodes : sockets[i].table \in Listed =>
        \E k \in DOMAIN Tables : sockets[i].table = Tables[k]
  BY DEF Listed
<1>3. kept \subseteq Inodes
  BY DEF ReportInv, InspectTypeOK
<1> QED
  BY <1>1, <1>2, <1>3 DEF SocketsOK

\* The connections printed are the process's own: none that it has all the
\* time is missing, and a line of a socket it never had is there only by a
\* number that happens to be an inode of its own.
THEOREM ConnectionsOwn == Spec => []ConnectionsMatchSockets
<1>1. DisplayInv => ConnectionsMatchSockets
  BY ConnectionsOwned DEF DisplayInv
<1> QED
  BY <1>1, DisplayInvariance, PTL
=============================================================================
