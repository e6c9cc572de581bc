------------------------------- MODULE Forest -------------------------------
(***************************************************************************)
(* printProcessForest: the rows of a listing printed as a forest, each     *)
(* process below its parent and indented one step further.  The rows come  *)
(* from reads at different times, so their parent PIDs need not form a     *)
(* tree: a parent may be missing, and parents may form a cycle.            *)
(*                                                                         *)
(* The recursion of printForestNode is an agenda: the nodes still to be    *)
(* tried, each with its depth, the children of the node printed last in    *)
(* front.  A line of output is a node and its depth.                       *)
(***************************************************************************)
EXTENDS Integers, Sequences, FiniteSets

CONSTANTS
  Pids,       \* the PIDs a row may have: numbers
  Listings    \* the vectors of processes that may be printed: rows with pid and ppid

VARIABLES
  processes,   \* the listing: rows with pid and ppid
  pc,          \* "start", "roots", "rest" or "done"
  agenda,      \* calls of printForestNode still to make: <<node, depth>>
  visited,     \* the set visited
  printed      \* the lines printed so far: <<node, depth>>

vars == <<processes, pc, agenda, visited, printed>>

Nodes == DOMAIN processes
Pid(n) == processes[n].pid
Ppid(n) == processes[n].ppid
PresentPids == {Pid(n) : n \in Nodes}

\* A row is a child if its parent is another row; else it is a root.
IsChild(n) == Ppid(n) # Pid(n) /\ Ppid(n) \in PresentPids
Roots == {n \in Nodes : ~IsChild(n)}
ChildrenOf(p) == {n \in Nodes : IsChild(n) /\ Ppid(n) = p}

\* std::ranges::sort by pid of the nodes of S.
SortedByPid(S) ==
  {s \in [1 .. Cardinality(S) -> S] :
     /\ {s[i] : i \in DOMAIN s} = S
     /\ \A i, j \in DOMAIN s : i < j => Pid(s[i]) <= Pid(s[j])}

\* Mutant: the depth of the roots is one too small.
AtDepthLess(s, d) == [i \in DOMAIN s |-> <<s[i], d - 1>>]

AtDepth(s, d) == [i \in DOMAIN s |-> <<s[i], d>>]

\* Type invariant.
TypeOK ==
  /\ processes \in Listings
  /\ pc \in {"start", "roots", "rest", "done"}
  /\ agenda \in Seq(Nodes \X Nat)
  /\ visited \subseteq Pids
  /\ printed \in Seq(Nodes \X Nat)

Init ==
  /\ processes \in Listings
  /\ pc = "start"
  /\ agenda = <<>>
  /\ visited = {}
  /\ printed = <<>>

\* The roots, in ascending order.
PrintRoots ==
  /\ pc = "start"
  /\ pc' = "roots"
  /\ \E s \in SortedByPid(Roots) : agenda' = AtDepth(s, 0)
  /\ UNCHANGED <<processes, visited, printed>>

\* Mutant: children are printed after the siblings of their parent.
PrintNodeBreadthFirst ==
  LET n == Head(agenda)[1]
      d == Head(agenda)[2]
  IN
  /\ pc \in {"roots", "rest"}
  /\ agenda # <<>>
  /\ IF Pid(n) \in visited
     THEN agenda' = Tail(agenda) /\ UNCHANGED <<visited, printed>>
     ELSE /\ visited' = visited \cup {Pid(n)}
          /\ printed' = Append(printed, <<n, d>>)
          /\ \E s \in SortedByPid(ChildrenOf(Pid(n))) :
               agenda' = Tail(agenda) \o AtDepth(s, d + 1)
  /\ UNCHANGED <<processes, pc>>

\* Mutant: a node is visited only once its children are, so a cycle is
\* followed for ever.  (Only the innermost call stays on the agenda, which
\* keeps the mutant finite.)
PrintNodeMarkedLate ==
  LET n == Head(agenda)[1]
      d == Head(agenda)[2]
  IN
  /\ pc \in {"roots", "rest"}
  /\ agenda # <<>>
  /\ IF Pid(n) \in visited
     THEN agenda' = Tail(agenda) /\ UNCHANGED <<visited, printed>>
     ELSE /\ visited' = IF ChildrenOf(Pid(n)) = {} THEN visited \cup {Pid(n)} ELSE visited
          /\ \E s \in SortedByPid(ChildrenOf(Pid(n))) :
               agenda' = IF s = <<>> THEN Tail(agenda) ELSE AtDepth(s, 0)
          /\ UNCHANGED printed
  /\ UNCHANGED <<processes, pc>>

\* One call of printForestNode up to its recursive calls.
PrintNode ==
  LET n == Head(agenda)[1]
      d == Head(agenda)[2]
  IN
  /\ pc \in {"roots", "rest"}
  /\ agenda # <<>>
  /\ IF Pid(n) \in visited
     THEN agenda' = Tail(agenda) /\ UNCHANGED <<visited, printed>>
     ELSE /\ visited' = visited \cup {Pid(n)}
          /\ printed' = Append(printed, <<n, d>>)
          /\ \E s \in SortedByPid(ChildrenOf(Pid(n))) :
               agenda' = AtDepth(s, d + 1) \o Tail(agenda)
  /\ UNCHANGED <<processes, pc>>

\* Mutant: the pass over unreached nodes is missing.
PrintRestNothing ==
  /\ pc = "roots"
  /\ agenda = <<>>
  /\ pc' = "rest"
  /\ UNCHANGED <<processes, agenda, visited, printed>>

\* The final pass: every row, in the order of the listing, at depth 0.
PrintRest ==
  /\ pc = "roots"
  /\ agenda = <<>>
  /\ pc' = "rest"
  /\ agenda' = AtDepth([n \in Nodes |-> n], 0)
  /\ UNCHANGED <<processes, visited, printed>>

Return ==
  /\ pc = "rest"
  /\ agenda = <<>>
  /\ pc' = "done"
  /\ UNCHANGED <<processes, agenda, visited, printed>>

Next == PrintRoots \/ PrintNode \/ PrintRest \/ Return

Spec == Init /\ [][Next]_vars

-----------------------------------------------------------------------------
(* Properties *)

Line(i) == printed[i][1]
Depth(i) == printed[i][2]

\* No process is printed twice, on parent cycles neither (visited).
PrintedOnce ==
  \A i, j \in DOMAIN printed : Pid(Line(i)) = Pid(Line(j)) => i = j

\* "the forest never silently drops a process": at the end every listed PID
\* has a line, those on and below a parent cycle included.
NothingDropped ==
  pc = "done" => \A n \in Nodes : \E i \in DOMAIN printed : Pid(Line(i)) = Pid(n)

\* The indentation tells the truth: a line that is indented stands below its
\* parent, the nearest line above with one step less, and no line in between
\* is less indented than itself.
IndentedBelowParent ==
  \A i \in DOMAIN printed : Depth(i) > 0 =>
    \E j \in 1 .. i - 1 :
      /\ Depth(j) = Depth(i) - 1
      /\ Pid(Line(j)) = Ppid(Line(i))
      /\ \A k \in j + 1 .. i - 1 : Depth(k) >= Depth(i)

\* A process whose chain of parents ends at a root is printed below that
\* root: at depth 0 there are only roots and processes whose chain of parents
\* runs into a cycle.
RunsIntoCycle(n) ==
  \E S \in SUBSET Nodes :
    /\ n \in S
    /\ S \cap Roots = {}
    /\ \A m \in S, q \in Nodes : Pid(q) = Ppid(m) => q \in S

DepthZeroJustified ==
  \A i \in DOMAIN printed :
    Depth(i) = 0 => Line(i) \in Roots \/ RunsIntoCycle(Line(i))
=============================================================================
