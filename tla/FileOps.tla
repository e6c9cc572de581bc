------------------------------ MODULE FileOps ------------------------------
(***************************************************************************)
(* moveFile, copyFile, createDirectories, remove, createTemporaryFile and  *)
(* createTemporaryDirectory (utils/filesystem_operations.cpp), called by   *)
(* several programs at once: each call is a sequence of system calls, and  *)
(* any of the callers may be killed between two of them.                   *)
(*                                                                         *)
(* There is one source, which all movers and copiers want, each at a       *)
(* target of its own below one parent directory, and one directory for     *)
(* temporaries.  A text is the number of its lines: lines are appended, so *)
(* a copy has the first so many of them.                                   *)
(***************************************************************************)
EXTENDS Integers

CONSTANTS
  Callers,
  Jobs,       \* bound: what the callers may want
  Names,      \* bound: the random names there are
  Retries,    \* 10, tempCreationRetries
  MaxLines    \* bound: the lines the source gets

ASSUME FileOpsAssumption ==
  /\ Callers \cap {"source", "none", "free", "other"} = {}
  /\ Jobs \subseteq [Callers -> {"none", "move", "copy", "temporary"}]
  /\ Retries \in Nat
  /\ MaxLines \in Nat \ {0}

VARIABLES
  across,     \* whether source and targets are on different devices
  regular,    \* whether the source is a regular file, not a directory
  place,      \* kernel: where the source is: "source", a caller's target, "none"
  lines,      \* kernel: the lines of it
  copy,       \* kernel: the lines of it in a file of its own at each target, -1 if there is none
  parent,     \* kernel: the parent directory of the targets
  temps,      \* kernel: by name, who made the temporary, "other" or "free"
  job,        \* what each caller wants, "none" if nothing
  step,       \* the next system call of each caller, "done" or "dead"
  tries,      \* names drawn
  name,       \* the name that was free
  outcome,    \* what the call returned
  began,      \* history: the source's lines when the call began
  robbed,     \* history: another program removed the source
  freed       \* history: the temporaries other programs removed

fileVars == <<across, regular, place, lines, copy, parent, temps>>
callVars == <<job, step, tries, name, outcome>>
fileHistory == <<began, robbed, freed>>
opsVars == <<fileVars, callVars, fileHistory>>

\* A parent that is not there may be one that cannot be made.
Parents == {"none", "barred", "dir", "closed", "file"}
CallSteps == {"idle", "mkdir", "look", "rename", "regular", "mkdirAgain", "lookAgain", "open", "data",
              "exists", "unlink", "tempDir", "draw", "done", "dead"}
Outcomes == {"none", "ok", "fileNotFound", "fileAlreadyExists", "invalidArgument", "ioError",
             "tempDirectoryError", "permissionDenied", "notADirectory", "errno"}

OpsTypeOK ==
  /\ across \in BOOLEAN /\ regular \in BOOLEAN
  /\ place \in Callers \cup {"source", "none"}
  /\ lines \in 0 .. MaxLines
  /\ copy \in [Callers -> -1 .. MaxLines]
  /\ parent \in Parents
  /\ temps \in [Names -> Callers \cup {"other", "free"}]
  /\ job \in [Callers -> {"none", "move", "copy", "temporary"}]
  /\ step \in [Callers -> CallSteps]
  /\ tries \in [Callers -> 0 .. Retries]
  /\ name \in [Callers -> Names]
  /\ outcome \in [Callers -> Outcomes]
  /\ began \in [Callers -> 0 .. MaxLines]
  /\ robbed \in BOOLEAN
  /\ freed \subseteq Names

\* A target may have an old file.
OpsInit ==
  /\ across \in BOOLEAN /\ regular \in BOOLEAN
  /\ place \in {"source", "none"}
  /\ lines = IF place = "source" THEN 1 ELSE 0
  /\ parent \in Parents
  /\ copy \in [Callers -> {-1} \cup IF parent = "dir" THEN {0} ELSE {}]
  /\ temps \in [Names -> {"other", "free"}]
  /\ job \in Jobs
  /\ step = [c \in Callers |-> "idle"]
  /\ tries = [c \in Callers |-> 0]
  /\ name \in {f \in [Callers -> Names] : \A c, d \in Callers : f[c] = f[d]}
  /\ outcome = [c \in Callers |-> "none"]
  /\ began = [c \in Callers |-> 0]
  /\ robbed = FALSE
  /\ freed = {}

-----------------------------------------------------------------------------
\* Other programs.

Appends ==
  /\ place # "none"
  /\ lines < MaxLines
  /\ lines' = lines + 1
  /\ UNCHANGED <<across, regular, place, copy, parent, temps, callVars, fileHistory>>

RemovesSource ==
  /\ place = "source"
  /\ place' = "none"
  /\ robbed' = TRUE
  /\ UNCHANGED <<across, regular, lines, copy, parent, temps, callVars, began, freed>>

\* It comes, or goes again while it is empty.
ParentChanges ==
  /\ \/ parent \in {"none", "barred", "file"} /\ parent' = "dir"
     \/ /\ parent = "dir" /\ place \notin Callers /\ \A c \in Callers : copy[c] = -1
        /\ parent' = "none"
  /\ UNCHANGED <<across, regular, place, lines, copy, temps, callVars, fileHistory>>

TakesName(n) ==
  /\ temps[n] = "free"
  /\ temps' = [temps EXCEPT ![n] = "other"]
  /\ UNCHANGED <<across, regular, place, lines, copy, parent, callVars, fileHistory>>

FreesName(n) ==
  /\ temps[n] # "free"
  /\ temps' = [temps EXCEPT ![n] = "free"]
  /\ freed' = freed \cup {n}
  /\ UNCHANGED <<across, regular, place, lines, copy, parent, callVars, began, robbed>>

\* Bound: they leave alone what no call is about.
Asked(what) == \E c \in Callers : job[c] \in what

OthersAct ==
  \/ Asked({"move", "copy"}) /\ (Appends \/ RemovesSource \/ ParentChanges)
  \/ Asked({"temporary"}) /\ \E n \in Names : TakesName(n) \/ FreesName(n)

-----------------------------------------------------------------------------
\* The calls.

Goto(c, s) == step' = [step EXCEPT ![c] = s] /\ UNCHANGED outcome

Ends(c, r) == step' = [step EXCEPT ![c] = "done"] /\ outcome' = [outcome EXCEPT ![c] = r]

\* What no step of a call but those that say so changes.
Rests == UNCHANGED <<across, regular, temps, job, tries, name, fileHistory>>

Begin(c) ==
  /\ step[c] = "idle"
  /\ job[c] # "none"
  /\ Goto(c, CASE job[c] = "move" -> "mkdir" [] job[c] = "copy" -> "regular" [] OTHER -> "tempDir")
  /\ began' = [began EXCEPT ![c] = IF place = "none" THEN 0 ELSE lines]
  /\ UNCHANGED <<fileVars, job, tries, name, robbed, freed>>

BehindParent(c) == IF step[c] \in {"mkdir", "look"} THEN "rename" ELSE "open"

\* createDirectories; that it is there already is no error.
MakeParent(c) ==
  /\ step[c] \in {"mkdir", "mkdirAgain"}
  /\ IF parent \in {"none", "dir", "closed"}
     THEN Goto(c, BehindParent(c)) /\ parent' = IF parent = "none" THEN "dir" ELSE parent
     ELSE Goto(c, IF step[c] = "mkdir" THEN "look" ELSE "lookAgain") /\ UNCHANGED parent
  /\ UNCHANGED <<place, lines, copy>>
  /\ Rests

\* ... nor that it is there by now.  Is it not, a component above it was in
\* the way, or closed.
LookForParent(c) ==
  /\ step[c] \in {"look", "lookAgain"}
  /\ CASE parent \in {"dir", "closed"} -> Goto(c, BehindParent(c))
       [] parent = "file" -> Ends(c, "fileAlreadyExists")
       [] OTHER -> \E e \in {"permissionDenied", "notADirectory", "errno"} : Ends(c, e)
  /\ UNCHANGED <<place, lines, copy, parent>>
  /\ Rests

\* rename(2) looks at the devices before it looks at the source.
Rename(c) ==
  /\ step[c] = "rename"
  /\ CASE parent # "dir" -> Ends(c, "errno") /\ UNCHANGED <<place, copy>>
       [] parent = "dir" /\ across -> Goto(c, "regular") /\ UNCHANGED <<place, copy>>
       [] parent = "dir" /\ ~across ->
            IF place = "source" /\ (regular \/ copy[c] = -1)
            THEN Ends(c, "ok") /\ place' = c /\ copy' = [copy EXCEPT ![c] = -1]
            ELSE Ends(c, "errno") /\ UNCHANGED <<place, copy>>
  /\ UNCHANGED <<lines, parent>>
  /\ Rests

\* copyFile: is_regular_file(source).
CheckRegular(c) ==
  /\ step[c] = "regular"
  /\ CASE place # "source" -> Ends(c, "errno")
       [] place = "source" /\ ~regular -> Ends(c, "invalidArgument")
       [] place = "source" /\ regular -> Goto(c, "mkdirAgain")
  /\ UNCHANGED <<place, lines, copy, parent>>
  /\ Rests

\* copy_file opens the source, and the target with O_TRUNC; from here on the
\* source's name does not matter.
OpenBoth(c) ==
  /\ step[c] = "open"
  /\ IF place = "source" /\ parent = "dir"
     THEN Goto(c, "data") /\ copy' = [copy EXCEPT ![c] = 0]
     ELSE Ends(c, "errno") /\ UNCHANGED copy
  /\ UNCHANGED <<place, lines, parent>>
  /\ Rests

\* Mutant: a short write goes unnoticed.
CopyDataShort(c) ==
  /\ step[c] = "data"
  /\ \E k \in 0 .. lines : copy' = [copy EXCEPT ![c] = k]
  /\ IF job[c] = "move" THEN Goto(c, "exists") ELSE Ends(c, "ok")
  /\ UNCHANGED <<place, lines, parent>>
  /\ Rests

\* All lines there are now, or an error behind some of them.
CopyData(c) ==
  /\ step[c] = "data"
  /\ \/ /\ copy' = [copy EXCEPT ![c] = lines]
        /\ IF job[c] = "move" THEN Goto(c, "exists") ELSE Ends(c, "ok")
     \/ /\ \E k \in 0 .. lines : copy' = [copy EXCEPT ![c] = k]
        /\ Ends(c, "errno")
  /\ UNCHANGED <<place, lines, parent>>
  /\ Rests

\* remove: exists(source).  moveFile has one error for all of remove's.
CheckSource(c) ==
  /\ step[c] = "exists"
  /\ IF place = "source" THEN Goto(c, "unlink") ELSE Ends(c, "ioError")
  /\ UNCHANGED <<place, lines, copy, parent>>
  /\ Rests

\* std::filesystem::remove: that it is gone is no error.
Unlink(c) ==
  /\ step[c] = "unlink"
  /\ \/ Ends(c, "ok") /\ place' = IF place = "source" THEN "none" ELSE place
     \/ place = "source" /\ Ends(c, "ioError") /\ UNCHANGED place
  /\ UNCHANGED <<lines, copy, parent>>
  /\ Rests

\* The directory for temporaries is there, or not, or not to be found out.
CheckTempDirectory(c) ==
  /\ step[c] = "tempDir"
  /\ Goto(c, "draw") \/ Ends(c, "tempDirectoryError") \/ Ends(c, "errno")
  /\ UNCHANGED <<place, lines, copy, parent>>
  /\ Rests

\* Mutant: a name that nobody had is opened, in a step of its own, without
\* O_EXCL.
DrawNameShared(c) ==
  /\ step[c] = "draw"
  /\ IF tries[c] = 0
     THEN /\ \E n \in Names : temps[n] = "free" /\ name' = [name EXCEPT ![c] = n]
          /\ tries' = [tries EXCEPT ![c] = 1]
          /\ UNCHANGED <<temps, step, outcome>>
     ELSE /\ temps' = [temps EXCEPT ![name[c]] = c]
          /\ Ends(c, "ok") /\ UNCHANGED <<name, tries>>
  /\ UNCHANGED <<across, regular, place, lines, copy, parent, job, fileHistory>>

\* Mutant: the retries are not counted.
DrawNameForEver(c) ==
  /\ step[c] = "draw"
  /\ \E n \in Names :
       IF temps[n] = "free"
       THEN /\ temps' = [temps EXCEPT ![n] = c] /\ name' = [name EXCEPT ![c] = n]
            /\ Ends(c, "ok") /\ UNCHANGED tries
       ELSE /\ tries' = [tries EXCEPT ![c] = 1 - @]
            /\ UNCHANGED <<temps, name, step, outcome>>
  /\ UNCHANGED <<across, regular, place, lines, copy, parent, job, fileHistory>>

\* A random name, and open with O_CREAT and O_EXCL, or mkdir: it is made, or
\* fails for good, or is somebody's and another name is drawn.
DrawName(c) ==
  /\ step[c] = "draw"
  /\ \E n \in Names :
       IF tries[c] = Retries
       THEN Ends(c, "ioError") /\ UNCHANGED <<temps, name, tries>>
       ELSE \/ /\ temps[n] = "free"
               /\ temps' = [temps EXCEPT ![n] = c] /\ name' = [name EXCEPT ![c] = n]
               /\ Ends(c, "ok") /\ UNCHANGED tries
            \/ /\ temps[n] # "free"
               /\ tries' = [tries EXCEPT ![c] = @ + 1]
               /\ UNCHANGED <<temps, name, step, outcome>>
            \/ Ends(c, "errno") /\ UNCHANGED <<temps, name, tries>>
  /\ UNCHANGED <<across, regular, place, lines, copy, parent, job, fileHistory>>

CallStep(c) ==
  \/ MakeParent(c) \/ LookForParent(c) \/ Rename(c) \/ CheckRegular(c) \/ OpenBoth(c)
  \/ CopyData(c) \/ CheckSource(c) \/ Unlink(c) \/ CheckTempDirectory(c) \/ DrawName(c)

\* A crash.
Killed(c) ==
  /\ step[c] \notin {"idle", "done", "dead"}
  /\ Goto(c, "dead")
  /\ UNCHANGED <<fileVars, job, tries, name, fileHistory>>

OpsNext == OthersAct \/ \E c \in Callers : Begin(c) \/ CallStep(c) \/ Killed(c)

OpsSpec == OpsInit /\ [][OpsNext]_opsVars

-----------------------------------------------------------------------------
(* Properties *)

Movers == {c \in Callers : job[c] = "move" /\ step[c] # "idle"}

\* The first n lines are in one place.
Whole(n) == n = 0 \/ place # "none" \/ \E c \in Callers : copy[c] >= n

\* A move loses no line that the file had when the move began: at every
\* moment, after a crash as well as after an error, they are all in the
\* source or all in a copy; with several movers, those that were there when
\* the first one began (filesystem_operations.cpp:267-301).
NothingLost == ~robbed /\ Movers # {} => \E c \in Movers : Whole(began[c])

\* "Moved" means that the target has the lines and the source is gone,
\* "copied" that the target has them; a move that fails has left the source
\* where it was, unless another mover was told that the file is now its.
ToldTruly ==
  \A c \in Callers :
    /\ job[c] \in {"move", "copy"} /\ outcome[c] = "ok" => place = c \/ copy[c] >= began[c]
    /\ job[c] = "move" /\ outcome[c] = "ok" => place # "source"
    /\ job[c] = "move" /\ outcome[c] \notin {"none", "ok"} /\ began[c] > 0 /\ ~robbed =>
         place = "source" \/ \E d \in Movers \ {c} : outcome[d] = "ok"

\* Both of these: the files are never worse off than the caller is told.
MovesKeepLines == NothingLost /\ ToldTruly

\* A temporary belongs to the one caller that was told its name, while nobody
\* removes it, and a call that failed has left none behind; the names drawn
\* may be anybody's (filesystem_operations.cpp:336-413).
OwnTemporary ==
  \A c \in Callers : job[c] = "temporary" /\ step[c] = "done" =>
    IF outcome[c] = "ok" THEN name[c] \in freed \/ temps[name[c]] = c
    ELSE \A n \in Names : temps[n] # c
=============================================================================
