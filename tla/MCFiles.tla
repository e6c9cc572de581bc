------------------------------ MODULE MCFiles ------------------------------
(* Two callers with a job each, two names and two tries; and a tree with two *)
(* directories, a file, a link to a directory, one that leads nowhere, and  *)
(* one back to the top, all of them or fewer.  A command writes up to five  *)
(* units through a pipe of two into a buffer of two.                        *)
EXTENDS Files, TLC

CONSTANTS one, two

Job(a, b) == one :> a @@ two :> b
MCJobs == {Job("none", "none"), Job("move", "move"), Job("move", "copy"), Job("temporary", "temporary")}

MCKind == <<"dir", "dir", "file", "link", "link", "link">>
MCPointsTo == <<Nowhere, Nowhere, Nowhere, 2, Nowhere, Top>>

\* The directories of a, b, the file, and the three links.
MCTrees ==
  { <<Top, 1, 2, Nowhere, Nowhere, Nowhere>>,
    <<Top, Top, 1, 1, Nowhere, Nowhere>>,
    <<Top, Top, 2, Nowhere, 1, Nowhere>>,
    <<Top, 1, Top, Nowhere, Nowhere, 1>> }

Opts(recursive, follow, directories, maxDepth) ==
  [recursive |-> recursive, follow |-> follow, directories |-> directories, files |-> TRUE,
   maxDepth |-> maxDepth]

MCOptions ==
  { Opts(TRUE, FALSE, TRUE, Unlimited), Opts(TRUE, TRUE, TRUE, Unlimited),
    Opts(TRUE, FALSE, TRUE, 1), Opts(TRUE, TRUE, FALSE, 2), Opts(FALSE, FALSE, TRUE, Unlimited) }
=============================================================================
