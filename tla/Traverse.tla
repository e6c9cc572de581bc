------------------------------ MODULE Traverse ------------------------------
(***************************************************************************)
(* traverseDirectory (utils/filesystem_operations.cpp:51-154): a recursion *)
(* over directories that calls back for every entry, while other programs  *)
(* add, remove and move entries.  The recursion is a stack of frames, one  *)
(* per open directory_iterator.                                            *)
(*                                                                         *)
(* A node is a file, a directory or a symbolic link together with its      *)
(* name; a path is the sequence of the nodes on it below the directory     *)
(* that the call is for.                                                   *)
(***************************************************************************)
EXTENDS Integers, Sequences, SequencesExt, FiniteSets

CONSTANTS
  Nodes,      \* bound: what may be in the tree, numbers from 1
  Kind,       \* of a node: "file", "dir" or "link"
  PointsTo,   \* of a link: a node, Top, or Nowhere
  Locked,     \* directories that cannot be opened
  Movable,    \* directories and files that other programs move about
  Starts,     \* what the calls are for
  Trees,      \* the trees there may be at the begin: the directory of each node
  Options,    \* TraversalOptions of the calls
  MaxLinks,   \* 40, the kernel's: a path with more links is an error
  MaxPath,    \* bound: no path in the trees is longer
  MaxChanges  \* bound: what other programs do while the call runs

Top == 0
Nowhere == -1
Dirs == {n \in Nodes : Kind[n] = "dir"} \cup {Top}

\* The option -1 is no limit.
Unlimited == -1

ASSUME TraverseAssumption ==
  /\ Nodes \subseteq Nat \ {0}
  /\ Kind \in [Nodes -> {"file", "dir", "link"}]
  /\ \A n \in Nodes : Kind[n] = "link" => PointsTo[n] \in Nodes \cup {Top, Nowhere}
  /\ \A n \in Nodes : Kind[n] = "link" => PointsTo[n] \notin Movable
  /\ Locked \subseteq Dirs /\ Starts \subseteq Nodes \cup {Top}
  /\ Trees \subseteq [Nodes -> Dirs \cup {Nowhere}]
  /\ Options \subseteq [recursive : BOOLEAN, follow : BOOLEAN, directories : BOOLEAN,
                        files : BOOLEAN, maxDepth : Int]
  /\ MaxLinks \in Nat /\ MaxPath \in Nat /\ MaxChanges \in Nat

VARIABLES
  dir,       \* kernel: the directory a node is in, or Nowhere
  options,
  start,     \* dirPath
  wpc,       \* "off", "start", "open", "entries" or "done"
  frames,    \* the iterators: [path, left], left what they have still to give
  here,      \* the path to be opened
  called,    \* the paths the callback was called for, in order
  skipped,   \* those for which it said skipDir
  told,      \* "none", "ok", "stopped", "fileNotFound", "errno" or "thrown"
  changes,   \* bound: steps of other programs
  steady     \* history: nodes that stayed in their directory since the begin

walkState == <<options, start, wpc, frames, here, called, skipped, told>>
walkVars == <<dir, walkState, changes, steady>>

WalkTypeOK ==
  /\ dir \in [Nodes -> Dirs \cup {Nowhere}]
  /\ options \in Options
  /\ start \in Starts
  /\ wpc \in {"off", "start", "open", "entries", "done"}
  /\ frames \in Seq([path : Seq(Nodes), left : SUBSET Nodes])
  /\ here \in Seq(Nodes)
  /\ called \in Seq(Seq(Nodes))
  /\ skipped \subseteq Range(called)
  /\ told \in {"none", "ok", "stopped", "fileNotFound", "errno", "thrown"}
  /\ changes \in 0 .. MaxChanges
  /\ steady \subseteq Nodes

WalkInit ==
  /\ dir \in Trees
  /\ options \in Options
  /\ start \in Starts
  /\ wpc \in {"off", "start"}
  /\ frames = << >> /\ here = << >>
  /\ called = << >> /\ skipped = {}
  /\ told = "none"
  /\ changes = 0
  /\ steady = {n \in Nodes : dir[n] # Nowhere}

-----------------------------------------------------------------------------
\* The kernel, and the other programs.

There(n) == n = Top \/ (n \in Nodes /\ dir[n] # Nowhere)
Children(d) == {n \in Nodes : dir[n] = d}

\* What a node is behind its link.
Behind(n) == IF n \in Nodes /\ Kind[n] = "link" THEN PointsTo[n] ELSE n

Links(path) == Cardinality({k \in DOMAIN path : Kind[path[k]] = "link"})

\* Where the parts of a path lead in a tree, each its link included: Nowhere
\* if a part is not where the one before leads, or that cannot be searched.
Way(tree, from, path) ==
  LET At[k \in 0 .. Len(path)] ==
        IF k = 0 THEN Behind(from)
        ELSE IF At[k - 1] \in Dirs \ Locked /\ tree[path[k]] = At[k - 1]
             THEN Behind(path[k]) ELSE Nowhere
  IN  At

\* Where a path ends; no path with too many links ends anywhere.
Resolve(path) ==
  LET end == Way(dir, start, path)[Len(path)] IN
  IF There(end) /\ Links(path) <= MaxLinks THEN end ELSE Nowhere

Inside(n, m) == \* n is m, or somewhere below it
  LET Up[k \in 0 .. Cardinality(Nodes)] ==
        IF k = 0 THEN n ELSE IF Up[k - 1] \in Nodes THEN dir[Up[k - 1]] ELSE Up[k - 1]
  IN  \E k \in 0 .. Cardinality(Nodes) : Up[k] = m

\* A node comes, goes while it is empty, or is moved.
OthersChange(n, d) ==
  /\ changes < MaxChanges
  /\ dir[n] # d
  /\ IF d = Nowhere THEN Children(n) = {} ELSE There(d) /\ ~Inside(d, n)
  /\ dir[n] # Nowhere /\ d # Nowhere => n \in Movable
  /\ dir' = [dir EXCEPT ![n] = d]
  /\ changes' = changes + 1
  /\ steady' = steady \ {n}
  /\ UNCHANGED walkState

-----------------------------------------------------------------------------
\* The call.

Returns(result) == wpc' = "done" /\ told' = result

Start ==
  /\ wpc = "start"
  /\ IF There(Behind(start)) /\ Behind(start) \in Dirs
     THEN wpc' = "open" /\ UNCHANGED told ELSE Returns("fileNotFound")
  /\ UNCHANGED <<dir, options, start, frames, here, called, skipped, changes, steady>>

\* Mutant: the depth is compared with the limit one too early.
OpenDirectoryShallow ==
  /\ wpc = "open"
  /\ IF options.maxDepth # Unlimited /\ Len(here) >= options.maxDepth
     THEN wpc' = "entries" /\ UNCHANGED <<frames, told>>
     ELSE IF Resolve(here) \in Dirs \ Locked
     THEN /\ wpc' = "entries" /\ UNCHANGED told
          /\ frames' = Append(frames, [path |-> here, left |-> Children(Resolve(here))])
     ELSE Returns("errno") /\ UNCHANGED frames
  /\ UNCHANGED <<dir, options, start, here, called, skipped, changes, steady>>

\* traverseImpl up to its loop.  The entries are those the directory has when
\* it is opened (bound: it is small enough to be read with one system call;
\* the iterator then takes one entry after the other out of its buffer).
OpenDirectory ==
  /\ wpc = "open"
  /\ IF options.maxDepth # Unlimited /\ Len(here) > options.maxDepth
     THEN wpc' = "entries" /\ UNCHANGED <<frames, told>>
     ELSE IF Resolve(here) \in Dirs \ Locked
     THEN /\ wpc' = "entries" /\ UNCHANGED told
          /\ frames' = Append(frames, [path |-> here, left |-> Children(Resolve(here))])
     ELSE Returns("errno") /\ UNCHANGED frames
  /\ UNCHANGED <<dir, options, start, here, called, skipped, changes, steady>>

Directory(path) ==
  IF Kind[Last(path)] = "link" THEN Resolve(path) \in Dirs ELSE Kind[Last(path)] = "dir"

\* Whether the callback is called for an entry, and the recursion may go on
\* into it.
Wanted(path) == IF Directory(path) THEN options.directories ELSE options.files
Descends(path) == /\ Directory(path)
                  /\ options.recursive
                  /\ options.follow \/ Kind[Last(path)] # "link"

\* One round of the loop.  The kind of an entry was read with the directory;
\* only a link is looked at again, and one that leads nowhere is an error.
VisitEntry(n) ==
  /\ wpc = "entries" /\ frames # << >>
  /\ n \in Last(frames).left
  /\ frames' = [frames EXCEPT ![Len(frames)].left = @ \ {n}]
  /\ LET path == Append(Last(frames).path, n) IN
     IF Kind[n] = "link" /\ Resolve(path) = Nowhere
     THEN Returns("errno") /\ UNCHANGED <<here, called, skipped>>
     ELSE \E control \in IF Wanted(path) THEN {"Continue", "skipDir", "stop"} ELSE {"Continue"} :
            /\ called' = IF Wanted(path) THEN Append(called, path) ELSE called
            /\ skipped' = IF control = "skipDir" THEN skipped \cup {path} ELSE skipped
            /\ CASE control = "stop" -> Returns("stopped") /\ UNCHANGED here
                 [] control = "Continue" /\ Descends(path) ->
                      wpc' = "open" /\ here' = path /\ UNCHANGED told
                 [] OTHER -> UNCHANGED <<wpc, here, told>>
  /\ UNCHANGED <<dir, options, start, changes, steady>>

LeaveDirectory ==
  /\ wpc = "entries"
  /\ IF frames = << >> THEN Returns("ok") /\ UNCHANGED frames
     ELSE /\ Last(frames).left = {}
          /\ frames' = Front(frames)
          /\ UNCHANGED <<wpc, told>>
  /\ UNCHANGED <<dir, options, start, here, called, skipped, changes, steady>>

\* The increment without an error_code: an entry that cannot be read is an
\* exception, out of all the iterators.
IncrementThrows ==
  /\ wpc = "entries" /\ frames # << >>
  /\ Returns("thrown")
  /\ UNCHANGED <<dir, options, start, frames, here, called, skipped, changes, steady>>

WalkStep ==
  \/ Start \/ OpenDirectory \/ LeaveDirectory \/ IncrementThrows
  \/ \E n \in Nodes : VisitEntry(n)

WalkOthers ==
  /\ wpc \notin {"off", "done"}
  /\ \E n \in Nodes, d \in Dirs \cup {Nowhere} : OthersChange(n, d)

WalkNext == WalkStep \/ WalkOthers

-----------------------------------------------------------------------------
(* Properties *)

Paths == UNION {[1 .. k -> Nodes] : k \in 1 .. MaxPath}
Upper(path, k) == SubSeq(path, 1, k)

\* The paths that a walk over the tree as it is has to come to, when the
\* callback skips what it has skipped.
Owed(p) ==
  /\ \A k \in DOMAIN p : dir[p[k]] = Behind(IF k = 1 THEN start ELSE p[k - 1])
  /\ \A k \in 1 .. Len(p) - 1 : Descends(Upper(p, k)) /\ Upper(p, k) \notin skipped
  /\ options.maxDepth = Unlimited \/ Len(p) <= options.maxDepth + 1

\* Nothing on the path has moved, nor where its links lead.
StayedPut(p) ==
  \A k \in DOMAIN p : p[k] \in steady /\ Behind(p[k]) \in steady \cup {Top}

\* A traversal that is told to be complete has called back for every wanted
\* entry that was there all the time and within reach, whatever was added,
\* removed and moved around it.
NoneLeftOut ==
  told = "ok" => \A p \in Paths : Owed(p) /\ Wanted(p) /\ StayedPut(p) => p \in Range(called)

\* For what it was not to call it has not called, if nothing has changed.
NoneTooMany == changes = 0 => \A p \in Range(called) : Owed(p) /\ Wanted(p)

\* Whatever has changed, and not even if it is stopped or fails, it calls for
\* nothing twice (as far as a directory is read with one system call, see
\* OpenDirectory: a larger one may give a name again that left it and came
\* back between two of its buffers), for nothing too deep, below a skipped directory or behind a
\* link that is not to be followed; and for a directory before what is in it.
InOrder ==
  /\ \A i, j \in DOMAIN called : called[i] = called[j] => i = j
  /\ \A i \in DOMAIN called : \A k \in 1 .. Len(called[i]) - 1 :
       options.directories =>
         /\ \E j \in 1 .. i - 1 : called[j] = Upper(called[i], k)
         /\ Upper(called[i], k) \notin skipped
         /\ options.follow \/ Kind[called[i][k]] # "link"
  /\ \A p \in Range(called) : options.maxDepth = Unlimited \/ Len(p) <= options.maxDepth + 1

\* traverseDirectory calls back for what it has to, once and in order
\* (filesystem_operations.cpp:51-154).
WalkedWhole == wpc = "done" => NoneLeftOut /\ NoneTooMany /\ InOrder
=============================================================================
