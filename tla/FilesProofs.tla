---------------------------- MODULE FilesProofs ----------------------------
(***************************************************************************)
(* Theorems about module Files and the three modules it composes, for any  *)
(* number of callers, names and lines, any retries and any sizes of pipe   *)
(* and buffer.  Each part has an invariant of its own, since a step of one *)
(* leaves the variables of the others alone.                               *)
(***************************************************************************)
EXTENDS Files, SequenceTheorems, WellFoundedInduction, TLAPS

-----------------------------------------------------------------------------
(***************************************************************************)
(* Induction over the naturals, and the existence of functions defined by  *)
(* recursion, for sets instead of predicates: what is to be shown of every *)
(* number is put as the set of the numbers that have it, and the step of a *)
(* recursion as a function.  So both can be instantiated by name.          *)
(***************************************************************************)
\* A set with 0 and the successor of each of its numbers has all of them:
\* of those that are missing none would be the least.
LEMMA NaturalInduction ==
  ASSUME NEW S, 0 \in S, \A n \in Nat : n \in S => n + 1 \in S
  PROVE  Nat \subseteq S
<1> DEFINE T == Nat \ S
<1> SUFFICES ASSUME T # {} PROVE FALSE
  OBVIOUS
<1>1. PICK x \in T : \A y \in T : ~(<<y, x>> \in OpToRel(<, Nat))
  BY NatLessThanWellFounded, WFMin
<1>2. x # 0 /\ x - 1 \in Nat
  OBVIOUS
<1>3. x - 1 \in T
  BY <1>2
<1>4. <<x - 1, x>> \in OpToRel(<, Nat)
  BY <1>2 DEF OpToRel
<1> QED
  BY <1>1, <1>3, <1>4

\* f begins with a and goes on with the steps of D.
Recurs(f, n, S, a, D) ==
  f \in [0 .. n -> S] /\ f[0] = a /\ \A k \in 1 .. n : f[k] = D[k][f[k - 1]]

\* There is such a function, for any begin and any steps.
LEMMA FiniteRecursion ==
  ASSUME NEW n \in Nat, NEW S, NEW a \in S, NEW D \in [1 .. n -> [S -> S]]
  PROVE  \E f : Recurs(f, n, S, a, D)
<1> USE DEF Recurs
<1> DEFINE T == {m \in Nat : m <= n =>
          \E f \in [0 .. m -> S] : f[0] = a /\ \A k \in 1 .. m : f[k] = D[k][f[k - 1]]}
<1>1. 0 \in T
  <2> DEFINE z == [k \in 0 .. 0 |-> a]
  <2>1. z \in [0 .. 0 -> S] /\ z[0] = a /\ 1 .. 0 = {}
    OBVIOUS
  <2> QED
    BY <2>1
<1>2. ASSUME NEW m \in Nat, m \in T PROVE m + 1 \in T
  <2> SUFFICES ASSUME m + 1 <= n
      PROVE \E f \in [0 .. m + 1 -> S] : f[0] = a /\ \A k \in 1 .. m + 1 : f[k] = D[k][f[k - 1]]
    BY <1>2
  <2>1. PICK f \in [0 .. m -> S] : f[0] = a /\ \A k \in 1 .. m : f[k] = D[k][f[k - 1]]
    BY <1>2
  <2> DEFINE g == [k \in 0 .. m + 1 |-> IF k <= m THEN f[k] ELSE D[m + 1][f[m]]]
  <2>2. g \in [0 .. m + 1 -> S]
    OBVIOUS
  <2>3. g[0] = a
    BY <2>1
  <2>4. \A k \in 1 .. m + 1 : g[k] = D[k][g[k - 1]]
    BY <2>1
  <2> QED
    BY <2>2, <2>3, <2>4
<1>3. Nat \subseteq T
  <2> HIDE DEF T
  <2> QED
    BY <1>1, <1>2, NaturalInduction
<1> QED
  BY <1>3

-----------------------------------------------------------------------------
(* executeCommand: nothing the command wrote to the pipe is anywhere but   *)
(* in the output, in the buffer or in the pipe; the reading goes on until  *)
(* nobody has the pipe open; and the errors are read behind that, when the *)
(* shell has ended.                                                        *)

\* Before the shell is started, and what comes behind the reading.
Prepares == xpc \in {"off", "tempDir", "mkstemp", "popen"}
HasRead == xpc \in {"pclose", "open", "readErrors", "unlink"}
HasWaited == xpc \in {"open", "readErrors", "unlink"}

\* What the variables say of the command, whatever the call is doing.
CommandInv ==
  /\ shell = "none" => late = "none" /\ writers = {}
  /\ shell = "redirect" => late = "none" /\ writers = {"shell"}
  /\ "shell" \in writers => shell \in {"redirect", "runs"}
  /\ "late" \in writers => late = "runs"
  /\ shell = "runs" => file \/ lost
  /\ shell # "ended" => complaints = 0
  /\ shell \in {"none", "redirect"} => printed = 0 /\ owes["shell"] = 0
  /\ late = "none" => owes["late"] = 0
  /\ complaints <= errors
  /\ stderrStr <= errors

\* Where the call is, and what it knows there.
CallInv ==
  /\ Prepares => shell = "none"
  /\ xpc = "read" => shell # "none"
  /\ HasRead => pipe = 0 /\ buffer = 0 /\ writers = {} /\ shell # "none"
  /\ HasWaited => shell = "ended"
  /\ shell = "redirect" => stderrStr = 0 /\ ~lost
  /\ shell \in {"none", "redirect"} => ~lost
  /\ xpc \in {"off", "tempDir", "mkstemp", "popen", "read", "pclose", "open"} => stderrStr = 0
  /\ xpc \in {"off", "tempDir", "mkstemp"} => ~file
  /\ xpc = "open" => file \/ lost \/ complaints = 0
  /\ xpc = "unlink" => lost \/ complaints <= stderrStr
  /\ xpc # "done" => answer = "none"
  /\ xpc = "done" => writers = {} /\ shell \in {"none", "ended"}
  /\ shell = "ended" /\ xpc \in {"read", "pclose"} => file \/ lost \/ complaints = 0

ExecuteInv ==
  /\ ExecuteTypeOK
  /\ printed = stdoutStr + buffer + pipe
  /\ printed + owes["shell"] + owes["late"] <= MaxOutput
  /\ CommandInv
  /\ CallInv
  /\ CommandHeard

ExecuteNext == ExecuteStep \/ CommandStep \/ ClearsDirectory

\* No command was executed: the invariant holds.
LEMMA InitExecute == ExecuteInit => ExecuteInv
<1> SUFFICES ASSUME ExecuteInit PROVE ExecuteInv
  OBVIOUS
<1> USE ExecuteAssumption DEF ExecuteInit
<1>1. ExecuteTypeOK
  <2>1. file \in BOOLEAN /\ lost \in BOOLEAN
    OBVIOUS
  <2> QED
    BY <2>1 DEF ExecuteTypeOK
<1>2. CommandInv
  BY DEF CommandInv, Writers
<1>3. CallInv
  BY DEF CallInv, Prepares, HasRead, HasWaited
<1>4. CommandHeard
  BY DEF CommandHeard
<1>5. /\ printed = stdoutStr + buffer + pipe
      /\ printed + owes["shell"] + owes["late"] <= MaxOutput
  BY DEF Writers
<1> QED
  BY <1>1, <1>2, <1>3, <1>4, <1>5 DEF ExecuteInv

\* The command, and those who clear its directory.
LEMMA CommandExecute ==
  ASSUME ExecuteInv, CommandStep \/ ClearsDirectory
  PROVE  ExecuteInv'
<1> USE ExecuteAssumption DEF ExecuteInv, ExecuteTypeOK, CommandInv, CallInv, CommandHeard,
          Prepares, HasRead, HasWaited, callState, Runs, Writers
<1>1. CASE Redirect
  <2>1. /\ owes' \in [Writers -> 0 .. MaxOutput] /\ owes'["late"] = 0
        /\ printed + owes'["shell"] + owes'["late"] <= MaxOutput
        /\ file' \in BOOLEAN
    <3> HIDE DEF CallInv, CommandHeard
    <3>1. shell = "redirect" /\ late = "none" /\ printed = 0
      BY <1>1 DEF Redirect
    <3>2. owes["late"] = 0 /\ owes["shell"] = 0 /\ owes \in [Writers -> 0 .. MaxOutput]
      BY <3>1
    <3>3. file' \in BOOLEAN
      <4>1. file \in BOOLEAN
        OBVIOUS
      <4>2. file' = TRUE \/ file' = file
        BY <1>1 DEF Redirect
      <4> QED
        BY ONLY <4>1, <4>2
    <3>4. CASE \E k \in 0 .. MaxOutput : owes' = [owes EXCEPT !["shell"] = k]
      <4>1. PICK k \in 0 .. MaxOutput : owes' = [owes EXCEPT !["shell"] = k]
        BY <3>4
      <4>2. owes'["shell"] = k /\ owes'["late"] = 0 /\ owes' \in [Writers -> 0 .. MaxOutput]
        BY <3>2, <4>1
      <4> QED
        BY <3>1, <3>3, <4>2
    <3>5. CASE owes' = owes
      BY <3>1, <3>2, <3>3, <3>5
    <3> QED
      BY <1>1, <3>4, <3>5 DEF Redirect
  <2>2. /\ shell = "redirect"
        /\ \/ shell' = "runs" /\ file' = TRUE /\ UNCHANGED writers
           \/ shell' = "ended" /\ writers' = {} /\ owes' = owes /\ UNCHANGED file
        /\ errors' = 0
        /\ UNCHANGED <<late, pipe, printed, complaints, lost, callState>>
    BY ONLY <1>1 DEF Redirect, callState
  <2>3. ExecuteTypeOK'
    <3>1. lost' \in BOOLEAN /\ file' \in BOOLEAN
      BY <2>1, <2>2
    <3> HIDE DEF CommandInv, CallInv, CommandHeard
    <3>2. /\ xpc' = xpc /\ answer' = answer /\ buffer' = buffer
          /\ stdoutStr' = stdoutStr /\ stderrStr' = stderrStr
      BY ONLY <2>2 DEF callState
    <3>3. /\ {stdoutStr', stderrStr', errors', printed', complaints'} \subseteq 0 .. MaxOutput
          /\ shell' \in {"none", "redirect", "runs", "ended"} /\ late' = late
          /\ writers' \subseteq Writers /\ pipe' = pipe
      <4>1. ExecuteTypeOK /\ 0 \in 0 .. MaxOutput
        OBVIOUS
      <4> QED
        BY ONLY <2>2, <3>2, <4>1 DEF ExecuteTypeOK
    <3>4. ExecuteTypeOK
      OBVIOUS
    <3>5. /\ xpc' = xpc /\ answer' = answer /\ buffer' = buffer /\ pipe' = pipe
          /\ owes' \in [Writers -> 0 .. MaxOutput]
      BY ONLY <2>1, <3>2, <3>3
    <3> QED
      BY ONLY <3>1, <3>3, <3>4, <3>5 DEF ExecuteTypeOK
  <2>4. CommandInv' /\ printed' + owes'["shell"] + owes'["late"] <= MaxOutput
    <3>1. printed' = printed /\ stderrStr' = stderrStr /\ complaints = 0
      BY <2>2
    <3>2. stderrStr = 0 /\ printed = 0 /\ complaints <= errors
      BY <2>2
    <3>3. shell' \in {"runs", "ended"} /\ late' = late /\ late = "none"
      BY <2>2
    <3>4. shell' = "runs" => file'
      BY <2>2
    <3>5. writers' \subseteq {"shell"} /\ ("shell" \in writers' => shell' = "runs")
      BY <2>2
    <3>6. errors' = 0 /\ complaints' = complaints
      BY <2>2
    <3> QED
      BY ONLY <2>1, <3>1, <3>2, <3>3, <3>4, <3>5, <3>6 DEF CommandInv
  <2>5. CallInv' /\ CommandHeard' /\ printed' = stdoutStr' + buffer' + pipe'
    BY <2>2
  <2> HIDE DEF ExecuteTypeOK, CommandInv, CallInv, CommandHeard
  <2> QED
    BY ONLY <2>3, <2>4, <2>5 DEF ExecuteInv
<1>2. CASE StartsLate
  <2>1. /\ owes' \in [Writers -> 0 .. MaxOutput]
        /\ owes'["shell"] = owes["shell"] /\ printed' = printed
        /\ printed' + owes'["shell"] + owes'["late"] <= MaxOutput
    BY <1>2 DEF StartsLate
  <2>2. /\ shell = "runs" /\ late = "none" /\ late' = "runs"
        /\ \/ "shell" \in writers /\ writers' = writers \cup {"late"}
           \/ writers' = writers
        /\ UNCHANGED <<shell, pipe, errors, printed, complaints, lost, file, callState>>
    BY <1>2 DEF StartsLate
  <2> QED
    BY <2>1, <2>2
<1>3. ASSUME NEW p \in {"shell", "late"}, Prints(p) PROVE ExecuteInv'
  BY <1>3 DEF Prints
<1>4. ASSUME NEW p \in {"shell", "late"}, Complains(p) PROVE ExecuteInv'
  BY <1>4 DEF Complains
<1>5. ASSUME NEW p \in {"shell", "late"}, ClosesOutput(p) PROVE ExecuteInv'
  BY <1>5 DEF ClosesOutput
<1>6. ASSUME NEW p \in {"shell", "late"}, Exits(p) PROVE ExecuteInv'
  BY <1>6 DEF Exits
<1>7. CASE ClearsDirectory
  BY <1>7 DEF ClearsDirectory
<1> QED
  BY <1>1, <1>2, <1>3, <1>4, <1>5, <1>6, <1>7 DEF CommandStep

\* The call.
LEMMA CallExecute ==
  ASSUME ExecuteInv, ExecuteStep
  PROVE  ExecuteInv'
<1> USE ExecuteAssumption DEF ExecuteInv, ExecuteTypeOK, CommandInv, CallInv, CommandHeard,
          Prepares, HasRead, HasWaited, commandState
<1>1. CASE FindDirectory
  BY <1>1 DEF FindDirectory
<1>2. CASE MakeFile
  <2>1. file' \in BOOLEAN
    BY <1>2 DEF MakeFile
  <2> QED
    <3>1. ExecuteTypeOK'
      BY <1>2, <2>1 DEF MakeFile
    <3>2. CommandInv' /\ printed' + owes'["shell"] + owes'["late"] <= MaxOutput
      BY <1>2, <2>1 DEF MakeFile
    <3>3. CallInv' /\ CommandHeard' /\ printed' = stdoutStr' + buffer' + pipe'
      BY <1>2, <2>1 DEF MakeFile
    <3> HIDE DEF ExecuteTypeOK, CommandInv, CallInv, CommandHeard
    <3> QED
      BY ONLY <3>1, <3>2, <3>3 DEF ExecuteInv
<1>3. CASE OpenPipe
  BY <1>3 DEF OpenPipe, Writers
<1>4. CASE ReadOutput
  BY <1>4 DEF ReadOutput
<1>5. CASE WaitForShell
  BY <1>5 DEF WaitForShell
<1>6. CASE OpenErrors
  BY <1>6 DEF OpenErrors
<1>7. CASE ReadErrors
  BY <1>7 DEF ReadErrors
<1>8. CASE RemoveFile
  <2>1. file' \in BOOLEAN
    BY <1>8 DEF RemoveFile
  <2> QED
    BY <1>8, <2>1 DEF RemoveFile
<1> QED
  BY <1>1, <1>2, <1>3, <1>4, <1>5, <1>6, <1>7, <1>8 DEF ExecuteStep

\* Every step of a command, of its caller and of other programs keeps it.
LEMMA NextExecute == ExecuteInv /\ [ExecuteNext]_executeVars => ExecuteInv'
<1>1. ASSUME ExecuteInv, UNCHANGED executeVars PROVE ExecuteInv'
  BY <1>1 DEF executeVars, callState, commandState, ExecuteInv, ExecuteTypeOK, CommandInv, CallInv,
     CommandHeard, Prepares, HasRead, HasWaited
<1> QED
  BY <1>1, CommandExecute, CallExecute DEF ExecuteNext

-----------------------------------------------------------------------------
(* Moving, copying and making temporaries.                                 *)

\* Which job a caller at a step has.
StepsOfJobs ==
  \A c \in Callers :
    /\ step[c] \in {"mkdir", "look", "rename", "exists", "unlink"} => job[c] = "move"
    /\ step[c] \in {"regular", "mkdirAgain", "lookAgain", "open", "data"} =>
         job[c] \in {"move", "copy"}
    /\ step[c] \in {"tempDir", "draw"} => job[c] = "temporary"
    /\ step[c] # "done" => outcome[c] = "none"
    /\ step[c] = "idle" => began[c] = 0

\* A caller that goes on to remove the source has copied what it is to move.
CopiedBeforeRemoved ==
  \A c \in Callers : step[c] \in {"exists", "unlink"} => copy[c] >= began[c]

BeganBehind == \A c \in Callers : began[c] <= lines

\* The source is not where it was because there never was one, or because a
\* mover was told that it has moved it.
SomebodyMovedIt ==
  ~robbed /\ place # "source" =>
    \/ place = "none" /\ \A c \in Callers : began[c] = 0
    \/ \E d \in Callers : job[d] = "move" /\ step[d] = "done" /\ outcome[d] = "ok"

\* What "ok" means to the callers who move and copy.
OkIsTrue ==
  \A c \in Callers :
    /\ job[c] \in {"move", "copy"} /\ outcome[c] = "ok" => place = c \/ copy[c] >= began[c]
    /\ job[c] = "move" /\ outcome[c] = "ok" => place # "source"

\* Only a caller that was told so has a temporary.
MadeAndTold ==
  \A n \in Names, c \in Callers :
    temps[n] = c =>
      job[c] = "temporary" /\ step[c] = "done" /\ outcome[c] = "ok"

ToldAndKept ==
  \A c \in Callers : job[c] = "temporary" /\ step[c] = "done" /\ outcome[c] = "ok" =>
    name[c] \in freed \/ temps[name[c]] = c

OpsInv ==
  /\ OpsTypeOK
  /\ StepsOfJobs
  /\ CopiedBeforeRemoved
  /\ BeganBehind
  /\ SomebodyMovedIt
  /\ OkIsTrue
  /\ MadeAndTold
  /\ ToldAndKept

\* No operation has begun: the operations' invariant holds.
LEMMA InitOps == OpsInit => OpsInv
<1> SUFFICES ASSUME OpsInit PROVE OpsInv
  OBVIOUS
<1> USE FileOpsAssumption DEF OpsInit
<1>1. OpsTypeOK
  <2>1. across \in BOOLEAN /\ regular \in BOOLEAN /\ robbed \in BOOLEAN
    OBVIOUS
  <2>2. /\ lines \in 0 .. MaxLines /\ place \in Callers \cup {"source", "none"}
        /\ copy \in [Callers -> -1 .. MaxLines]
    OBVIOUS
  <2>3. /\ temps \in [Names -> Callers \cup {"other", "free"}]
        /\ parent \in Parents
        /\ job \in [Callers -> {"none", "move", "copy", "temporary"}]
        /\ step \in [Callers -> CallSteps]
        /\ outcome \in [Callers -> Outcomes]
        /\ name \in [Callers -> Names]
        /\ freed \subseteq Names
    BY DEF CallSteps, Outcomes
  <2>4. tries \in [Callers -> 0 .. Retries] /\ began \in [Callers -> 0 .. MaxLines]
    OBVIOUS
  <2> QED
    BY <2>1, <2>2, <2>3, <2>4 DEF OpsTypeOK
<1>2. StepsOfJobs /\ CopiedBeforeRemoved /\ BeganBehind /\ OkIsTrue
  BY DEF StepsOfJobs, CopiedBeforeRemoved, BeganBehind, OkIsTrue
<1>3. SomebodyMovedIt
  BY DEF SomebodyMovedIt
<1>4. MadeAndTold /\ ToldAndKept
  BY DEF MadeAndTold, ToldAndKept
<1> QED
  BY <1>1, <1>2, <1>3, <1>4 DEF OpsInv

\* It gives both of the properties.
LEMMA OpsInvImplies == OpsInv => MovesKeepLines /\ OwnTemporary
<1> SUFFICES ASSUME OpsInv PROVE MovesKeepLines /\ OwnTemporary
  OBVIOUS
<1> USE FileOpsAssumption DEF OpsInv
<1>1. NothingLost
  <2> SUFFICES ASSUME ~robbed, NEW m \in Movers PROVE \E c \in Movers : Whole(began[c])
    BY DEF NothingLost
  <2>1. CASE place # "none"
    BY <2>1 DEF Whole
  <2>2. CASE place = "none" /\ began[m] = 0
    BY <2>2 DEF Whole
  <2>3. CASE place = "none" /\ began[m] # 0
    <3>1. m \in Callers
      BY DEF Movers
    <3>2. PICK d \in Callers : job[d] = "move" /\ step[d] = "done" /\ outcome[d] = "ok"
      BY <2>3, <3>1 DEF SomebodyMovedIt
    <3>3. d \in Movers /\ copy[d] >= began[d]
      BY <2>3, <3>2 DEF Movers, OkIsTrue
    <3> QED
      BY <3>3, <3>2 DEF Whole
  <2> QED
    BY <2>1, <2>2, <2>3
<1>2. ToldTruly
  <2> SUFFICES ASSUME NEW c \in Callers,
                      job[c] = "move", outcome[c] \notin {"none", "ok"}, began[c] > 0, ~robbed,
                      place # "source"
               PROVE  \E d \in Movers \ {c} : outcome[d] = "ok"
    BY DEF ToldTruly, OkIsTrue
  <2> QED
    BY DEF SomebodyMovedIt, Movers
<1>3. OwnTemporary
  BY DEF OwnTemporary, MadeAndTold, ToldAndKept
<1> QED
  BY <1>1, <1>2, <1>3 DEF MovesKeepLines

\* Other programs: the files get longer, the source may go, the parent comes
\* and goes, names are taken and freed.
LEMMA OthersOps == ASSUME OpsInv, OthersAct PROVE OpsInv'
<1> USE FileOpsAssumption DEF callVars, fileHistory
<1>1. CASE Appends
  <2>1. OpsTypeOK'
    BY <1>1 DEF Appends, OpsInv, OpsTypeOK
  <2> QED
    BY <1>1, <2>1 DEF Appends, OpsInv, OpsTypeOK, StepsOfJobs, CopiedBeforeRemoved, BeganBehind,
       SomebodyMovedIt, OkIsTrue, MadeAndTold, ToldAndKept
<1>2. CASE RemovesSource
  <2>1. OpsTypeOK'
    BY <1>2 DEF RemovesSource, OpsInv, OpsTypeOK
  <2> QED
    BY <1>2, <2>1 DEF RemovesSource, OpsInv, OpsTypeOK, StepsOfJobs, CopiedBeforeRemoved, BeganBehind,
       SomebodyMovedIt, OkIsTrue, MadeAndTold, ToldAndKept
<1>3. CASE ParentChanges
  <2>1. OpsTypeOK'
    BY <1>3 DEF ParentChanges, OpsInv, OpsTypeOK, Parents
  <2> QED
    BY <1>3, <2>1 DEF ParentChanges, OpsInv, OpsTypeOK, StepsOfJobs, CopiedBeforeRemoved, BeganBehind,
       SomebodyMovedIt, OkIsTrue, MadeAndTold, ToldAndKept
<1>4. ASSUME NEW n \in Names, TakesName(n) PROVE OpsInv'
  <2>1. OpsTypeOK'
    BY <1>4 DEF TakesName, OpsInv, OpsTypeOK
  <2> QED
    BY <1>4, <2>1 DEF TakesName, OpsInv, OpsTypeOK, StepsOfJobs, CopiedBeforeRemoved, BeganBehind,
       SomebodyMovedIt, OkIsTrue, MadeAndTold, ToldAndKept
<1>5. ASSUME NEW n \in Names, FreesName(n) PROVE OpsInv'
  <2>1. OpsTypeOK'
    BY <1>5 DEF FreesName, OpsInv, OpsTypeOK
  <2> QED
    BY <1>5, <2>1 DEF FreesName, OpsInv, OpsTypeOK, StepsOfJobs, CopiedBeforeRemoved, BeganBehind,
       SomebodyMovedIt, OkIsTrue, MadeAndTold, ToldAndKept
<1> QED
  BY <1>1, <1>2, <1>3, <1>4, <1>5 DEF OthersAct

\* The calls, and a crash.
LEMMA CallOps ==
  ASSUME OpsInv, NEW c \in Callers, Begin(c) \/ CallStep(c) \/ Killed(c)
  PROVE  OpsInv'
<1> USE FileOpsAssumption DEF Goto, Ends, Rests, fileHistory, fileVars, OpsInv, OpsTypeOK, StepsOfJobs,
      CopiedBeforeRemoved, BeganBehind, SomebodyMovedIt, OkIsTrue, MadeAndTold, ToldAndKept,
      CallSteps, Outcomes
<1>1. CASE Begin(c)
  BY <1>1 DEF Begin
<1>2. CASE Killed(c)
  BY <1>2 DEF Killed
<1>3. CASE MakeParent(c)
  BY <1>3 DEF MakeParent, BehindParent, Parents
<1>4. CASE LookForParent(c)
  BY <1>4 DEF LookForParent, BehindParent
<1>5. CASE Rename(c)
  <2>1. CASE Goto(c, "regular") /\ UNCHANGED <<place, copy>>
    BY <1>5, <2>1 DEF Rename
  <2>2. CASE Ends(c, "errno") /\ UNCHANGED <<place, copy>>
    BY <1>5, <2>2 DEF Rename
  <2>3. CASE /\ place = "source" /\ Ends(c, "ok") /\ place' = c
             /\ copy' = [copy EXCEPT ![c] = -1]
    BY <1>5, <2>3 DEF Rename
  <2> QED
    BY <1>5, <2>1, <2>2, <2>3 DEF Rename
<1>6. CASE CheckRegular(c)
  <2>1. CASE Goto(c, "mkdirAgain")
    BY <1>6, <2>1 DEF CheckRegular
  <2>2. ASSUME NEW e \in {"errno", "invalidArgument"}, Ends(c, e) PROVE OpsInv'
    BY <1>6, <2>2 DEF CheckRegular
  <2> QED
    BY <1>6, <2>1, <2>2 DEF CheckRegular
<1>7. CASE OpenBoth(c)
  BY <1>7 DEF OpenBoth
<1>8. CASE CopyData(c)
  BY <1>8 DEF CopyData
<1>9. CASE CheckSource(c)
  BY <1>9 DEF CheckSource
<1>10. CASE Unlink(c)
  BY <1>10 DEF Unlink
<1>11. CASE CheckTempDirectory(c)
  BY <1>11 DEF CheckTempDirectory
<1>12. CASE DrawName(c)
  <2>1. PICK n \in Names :
          \/ Ends(c, "ioError") /\ UNCHANGED <<temps, name, tries>>
          \/ /\ temps[n] = "free"
             /\ temps' = [temps EXCEPT ![n] = c] /\ name' = [name EXCEPT ![c] = n]
             /\ Ends(c, "ok") /\ UNCHANGED tries
          \/ /\ tries[c] # Retries
             /\ tries' = [tries EXCEPT ![c] = @ + 1]
             /\ UNCHANGED <<temps, name, step, outcome>>
          \/ Ends(c, "errno") /\ UNCHANGED <<temps, name, tries>>
    BY <1>12 DEF DrawName
  <2>2. CASE Ends(c, "ioError") /\ UNCHANGED <<temps, name, tries>>
    BY <1>12, <2>2 DEF DrawName
  <2>3. CASE /\ temps[n] = "free"
             /\ temps' = [temps EXCEPT ![n] = c] /\ name' = [name EXCEPT ![c] = n]
             /\ Ends(c, "ok") /\ UNCHANGED tries
    BY <1>12, <2>3 DEF DrawName
  <2>4. CASE /\ tries[c] # Retries
             /\ tries' = [tries EXCEPT ![c] = @ + 1]
             /\ UNCHANGED <<temps, name, step, outcome>>
    BY <1>12, <2>4 DEF DrawName
  <2>5. CASE Ends(c, "errno") /\ UNCHANGED <<temps, name, tries>>
    BY <1>12, <2>5 DEF DrawName
  <2> QED
    BY <2>1, <2>2, <2>3, <2>4, <2>5
<1> QED
  BY <1>1, <1>2, <1>3, <1>4, <1>5, <1>6, <1>7, <1>8, <1>9, <1>10, <1>11, <1>12 DEF CallStep

\* Any step of a caller or of another program.
LEMMA NextOps == OpsInv /\ [OpsNext]_opsVars => OpsInv'
<1> SUFFICES ASSUME OpsInv, [OpsNext]_opsVars PROVE OpsInv'
  OBVIOUS
<1>1. CASE UNCHANGED opsVars
  BY <1>1 DEF opsVars, fileVars, callVars, fileHistory, OpsInv, OpsTypeOK, StepsOfJobs,
       CopiedBeforeRemoved, BeganBehind, SomebodyMovedIt, OkIsTrue, MadeAndTold, ToldAndKept
<1>2. CASE OthersAct
  BY <1>2, OthersOps
<1>3. ASSUME NEW c \in Callers, Begin(c) \/ CallStep(c) \/ Killed(c) PROVE OpsInv'
  BY <1>3, CallOps
<1> QED
  BY <1>1, <1>2, <1>3 DEF OpsNext

-----------------------------------------------------------------------------
(* Paths.                                                                  *)

\* q goes on where p ends, or ends there too.
Begins(q, p) == Len(p) <= Len(q) /\ \A k \in 1 .. Len(p) : q[k] = p[k]

\* A path with an entry more, and its upper parts.
LEMMA LongerPath ==
  ASSUME NEW p \in Seq(Nodes), NEW n \in Nodes
  PROVE  LET q == Append(p, n) IN
         /\ q \in Seq(Nodes) /\ q # << >> /\ Len(q) = Len(p) + 1
         /\ Last(q) = n /\ q[Len(q)] = n
         /\ \A k \in 1 .. Len(p) : q[k] = p[k]
         /\ Begins(q, p)
BY AppendProperties DEF Begins, Last

\* Paths with the same begin have the same upper parts there.
LEMMA SameUpper ==
  ASSUME NEW p \in Seq(Nodes), NEW q \in Seq(Nodes), Begins(q, p), NEW k \in 1 .. Len(p)
  PROVE  Upper(q, k) = Upper(p, k)
<1>1. k \in Int /\ k <= Len(q) /\ k <= Len(p) /\ Len(p) \in Nat /\ Len(q) \in Nat
  BY DEF Begins
<1>2. \A i \in 1 .. k : q[i] \in Nodes /\ p[i] \in Nodes /\ q[i] = p[i]
  BY <1>1, ElementOfSeq DEF Begins
<1>3. /\ SubSeq(p, 1, k) \in Seq(Nodes) /\ Len(SubSeq(p, 1, k)) = k
      /\ \A i \in 1 .. k : SubSeq(p, 1, k)[i] = p[i]
  BY <1>1, <1>2, SubSeqProperties
<1>4. /\ SubSeq(q, 1, k) \in Seq(Nodes) /\ Len(SubSeq(q, 1, k)) = k
      /\ \A i \in 1 .. k : SubSeq(q, 1, k)[i] = q[i]
  BY <1>1, <1>2, SubSeqProperties
<1> QED
  BY <1>2, <1>3, <1>4, SeqEqual DEF Upper

\* The part of a path up to the end of its begin is the begin.
LEMMA WholeUpper ==
  ASSUME NEW p \in Seq(Nodes), NEW q \in Seq(Nodes), Begins(q, p), p # << >>
  PROVE  Upper(q, Len(p)) = p
<1>1. Len(p) \in 1 .. Len(p)
  BY EmptySeq
<1>2. Upper(q, Len(p)) = Upper(p, Len(p))
  BY <1>1, SameUpper
<1> QED
  BY <1>2, SubSeqFull DEF Upper

\* An upper part is a path, with the nodes of the whole.
LEMMA UpperIsPath ==
  ASSUME NEW p \in Seq(Nodes), NEW k \in 1 .. Len(p)
  PROVE  /\ Upper(p, k) \in Seq(Nodes) /\ Len(Upper(p, k)) = k
         /\ \A i \in 1 .. k : Upper(p, k)[i] = p[i]
         /\ Begins(p, Upper(p, k)) /\ Last(Upper(p, k)) = p[k]
<1>1. k \in Int /\ k <= Len(p) /\ 1 \in Int /\ Len(p) \in Nat
  OBVIOUS
<1>2. \A i \in 1 .. k : p[i] \in Nodes
  BY <1>1, ElementOfSeq
<1> QED
  BY <1>1, <1>2, SubSeqProperties DEF Upper, Begins, Last

\* The node a path ends with.
EndOf(p) == IF p = << >> THEN start ELSE Last(p)

\* The recursion of Way has a solution, and so its equations hold.
LEMMA WaySteps ==
  ASSUME NEW tree, NEW from, NEW path \in Seq(Nodes)
  PROVE LET At == Way(tree, from, path) IN
        /\ At[0] = Behind(from)
        /\ \A k \in 1 .. Len(path) :
             At[k] = IF At[k - 1] \in Dirs \ Locked /\ tree[path[k]] = At[k - 1]
                     THEN Behind(path[k]) ELSE Nowhere
<1> DEFINE n == Len(path)
           S == {Behind(from), Nowhere} \cup {Behind(path[k]) : k \in 1 .. n}
           D == [k \in 1 .. n |-> [v \in S |->
                   IF v \in Dirs \ Locked /\ tree[path[k]] = v THEN Behind(path[k]) ELSE Nowhere]]
           F(g) == [k \in 0 .. n |-> IF k = 0 THEN Behind(from)
                     ELSE IF g[k - 1] \in Dirs \ Locked /\ tree[path[k]] = g[k - 1]
                     THEN Behind(path[k]) ELSE Nowhere]
<1>1. n \in Nat
  OBVIOUS
<1>2. D \in [1 .. n -> [S -> S]]
  OBVIOUS
<1>3. PICK f \in [0 .. n -> S] : f[0] = Behind(from) /\ \A k \in 1 .. n : f[k] = D[k][f[k - 1]]
  <2> DEFINE a == Behind(from)
  <2>1. a \in S
    OBVIOUS
  <2> HIDE DEF D, n, S, a
  <2>2. \E f : Recurs(f, n, S, a, D)
    BY <1>1, <1>2, <2>1, FiniteRecursion
  <2> QED
    BY <2>2 DEF Recurs, a
<1>4. f = F(f)
  <2>1. \A k \in 1 .. n : k - 1 \in 0 .. n /\ f[k - 1] \in S
    BY <1>1
  <2>2. ASSUME NEW k \in 1 .. n PROVE f[k] = F(f)[k]
    <3>1. f[k] = D[k][f[k - 1]] /\ f[k - 1] \in S
      BY <1>3, <2>1
    <3>2. D[k][f[k - 1]] = IF f[k - 1] \in Dirs \ Locked /\ tree[path[k]] = f[k - 1]
                           THEN Behind(path[k]) ELSE Nowhere
      <4> HIDE DEF S
      <4> QED
        BY <3>1
    <3>3. k # 0 /\ k \in 0 .. n
      BY <1>1
    <3> QED
      BY <3>1, <3>2, <3>3
  <2> QED
    BY <1>3, <2>2, <1>1
<1>5. Way(tree, from, path) = F(Way(tree, from, path))
  <2>1. Way(tree, from, path) = CHOOSE g : g = F(g)
    BY DEF Way
  <2> HIDE DEF F
  <2> QED
    BY <1>4, <2>1
<1> QED
  BY <1>5, <1>1

\* A path ends behind its last node, or nowhere.
LEMMA ResolveEither ==
  ASSUME NEW path \in Seq(Nodes)
  PROVE  /\ Way(dir, start, path)[Len(path)] \in {Behind(EndOf(path)), Nowhere}
         /\ Resolve(path) \in {Behind(EndOf(path)), Nowhere}
<1> DEFINE At == Way(dir, start, path)
<1>1. CASE path = << >>
  <2>1. At[0] = Behind(start) /\ Len(path) = 0
    BY <1>1, WaySteps, EmptySeq
  <2> QED
    BY <1>1, <2>1 DEF Resolve, EndOf
<1>2. CASE path # << >>
  <2>1. Len(path) \in 1 .. Len(path)
    BY <1>2, EmptySeq
  <2>2. At[Len(path)] \in {Behind(path[Len(path)]), Nowhere}
    <3> HIDE DEF At
    <3> QED
      BY <2>1, WaySteps DEF At
  <2> QED
    BY <1>2, <2>2 DEF Resolve, EndOf, Last
<1> QED
  BY <1>1, <1>2

\* A path on which nothing moves, nor behind its end, ends where it did.
LEMMA ResolveSame ==
  ASSUME NEW path \in Seq(Nodes), start' = start,
         \A k \in 1 .. Len(path) : dir'[path[k]] = dir[path[k]],
         Behind(EndOf(path)) \in Nodes => dir'[Behind(EndOf(path))] = dir[Behind(EndOf(path))]
  PROVE  Resolve(path)' = Resolve(path)
<1> DEFINE Old == Way(dir, start, path)
           New == Way(dir', start', path)
           T == {k \in Nat : k <= Len(path) => New[k] = Old[k]}
<1>1. 0 \in T
  BY WaySteps
<1>2. ASSUME NEW k \in Nat, k \in T PROVE k + 1 \in T
  <2> SUFFICES ASSUME k + 1 <= Len(path) PROVE New[k + 1] = Old[k + 1]
    OBVIOUS
  <2>1. k + 1 \in 1 .. Len(path) /\ (k + 1) - 1 = k /\ New[k] = Old[k]
    BY <1>2
  <2>2. Old[k + 1] = IF Old[k] \in Dirs \ Locked /\ dir[path[k + 1]] = Old[k]
                     THEN Behind(path[k + 1]) ELSE Nowhere
    <3> HIDE DEF Old
    <3> QED
      BY <2>1, WaySteps DEF Old
  <2>3. New[k + 1] = IF New[k] \in Dirs \ Locked /\ dir'[path[k + 1]] = New[k]
                     THEN Behind(path[k + 1]) ELSE Nowhere
    <3> HIDE DEF New
    <3> QED
      BY <2>1, WaySteps DEF New
  <2> QED
    BY <2>1, <2>2, <2>3
<1>3. New[Len(path)] = Old[Len(path)]
  <2>1. Nat \subseteq T
    <3> HIDE DEF T
    <3> QED
      BY <1>1, <1>2, NaturalInduction
  <2> QED
    BY <2>1
<1>4. ASSUME NEW e, e = Old[Len(path)]
      PROVE  (e = Top \/ (e \in Nodes /\ dir'[e] # Nowhere)) <=> There(e)
  <2>1. e \in {Behind(EndOf(path)), Nowhere}
    BY <1>4, ResolveEither
  <2>2. e = Nowhere => e \notin Nodes
    BY TraverseAssumption DEF Nowhere
  <2> QED
    BY <2>1, <2>2 DEF There
<1> HIDE DEF New, Old
<1> QED
  BY <1>3, <1>4 DEF Resolve, Links, There, New, Old

-----------------------------------------------------------------------------
(* traverseDirectory: the frames are the parts of one path, what is still  *)
(* to be called is behind what they have left, and nothing that was called *)
(* is; an entry of the tree that is owed is called or to be called.        *)

\* The paths the recursion is on, with the one it is about to open.
OnWay == {frames[i].path : i \in DOMAIN frames} \cup (IF wpc = "open" THEN {here} ELSE {})

\* p is behind an entry that a directory has left, or behind the one to open.
Awaited(p) ==
  \/ \E i \in DOMAIN frames :
       /\ Begins(p, frames[i].path)
       /\ i <= Len(p) /\ p[i] \in frames[i].left
  \/ wpc = "open" /\ Begins(p, here) /\ Len(p) > Len(here)

\* Each frame is for an entry of the one below, that is not left there.
Stacked ==
  /\ wpc \in {"off", "start"} => frames = << >> /\ here = << >> /\ called = << >>
  /\ \A i \in DOMAIN frames : Len(frames[i].path) = i - 1
  /\ \A i, j \in DOMAIN frames :
       i < j => Begins(frames[j].path, frames[i].path) /\ frames[j].path[i] \notin frames[i].left
  /\ wpc = "open" =>
       /\ Len(here) = Len(frames)
       /\ \A i \in DOMAIN frames : Begins(here, frames[i].path) /\ here[i] \notin frames[i].left
  /\ \A i \in DOMAIN frames : options.maxDepth = Unlimited \/ i - 1 <= options.maxDepth

\* Nothing is called for a second time.
Fresh ==
  /\ \A p \in Range(called) : p # << >> /\ ~Awaited(p)
  /\ wpc = "open" /\ here # << >> /\ options.directories => here \in Range(called)

\* What the upper parts of these paths are: called for and not skipped, and
\* links only if they are to be followed; if nothing has changed, where the
\* path says, and followed rightly.
Entered ==
  \A q \in OnWay : \A k \in 1 .. Len(q) :
    /\ options.directories =>
         /\ Upper(q, k) \in Range(called) /\ Upper(q, k) \notin skipped
         /\ options.follow \/ Kind[q[k]] # "link"
    /\ changes = 0 =>
         /\ dir[q[k]] = Behind(IF k = 1 THEN start ELSE q[k - 1])
         /\ Descends(Upper(q, k)) /\ Upper(q, k) \notin skipped

\* What a directory has left is in it, if nothing has changed.
LeftInside ==
  changes = 0 =>
    \A i \in DOMAIN frames : \A n \in frames[i].left : dir[n] = Behind(EndOf(frames[i].path))

\* What is owed is called for, or it is still to come, or the call fails.
Complete ==
  \A p \in Seq(Nodes) \ {<< >>} :
    Owed(p) /\ Wanted(p) /\ StayedPut(p) =>
      \/ p \in Range(called) \/ Awaited(p)
      \/ wpc \in {"off", "start"} \/ (wpc = "done" /\ told # "ok")

\* A call that is told to be complete has read every directory to its end.
ReadToTheEnd == told = "ok" => wpc = "done" /\ frames = << >>

TraverseInv ==
  WalkTypeOK /\ Stacked /\ Fresh /\ Entered /\ LeftInside /\ InOrder /\ NoneTooMany /\ Complete

\* No traversal has begun: the invariant holds.
LEMMA InitTraverse == WalkInit => TraverseInv
<1> SUFFICES ASSUME WalkInit PROVE TraverseInv
  OBVIOUS
<1>1. Range(called) = {} /\ DOMAIN called = {} /\ DOMAIN frames = {} /\ Len(here) = 0
  BY DEF WalkInit, Range
<1>2. WalkTypeOK
  BY TraverseAssumption DEF WalkInit, WalkTypeOK
<1>3. Stacked /\ Fresh /\ LeftInside /\ InOrder /\ NoneTooMany /\ Complete
  BY <1>1 DEF WalkInit, Stacked, Fresh, LeftInside, InOrder, NoneTooMany, Complete
<1>4. Entered
  BY <1>1 DEF WalkInit, Entered, OnWay
<1> QED
  BY <1>2, <1>3, <1>4 DEF TraverseInv

\* What a directory is that is being read.
Frame == [path : Seq(Nodes), left : SUBSET Nodes]

\* The open directories are a sequence of frames.
LEMMA FramesType ==
  ASSUME WalkTypeOK
  PROVE  /\ frames \in Seq(Frame) /\ Len(frames) \in Nat /\ DOMAIN frames = 1 .. Len(frames)
         /\ \A i \in DOMAIN frames : /\ frames[i] \in Frame
                                     /\ frames[i].path \in Seq(Nodes) /\ frames[i].left \subseteq Nodes
<1>1. frames \in Seq(Frame)
  BY DEF WalkTypeOK, Frame
<1>2. \A i \in 1 .. Len(frames) : frames[i] \in Frame
  BY <1>1, ElementOfSeq
<1> QED
  BY <1>1, <1>2, LenProperties DEF Frame

\* The entry is taken from what the last directory has left.
LEMMA Visited ==
  ASSUME WalkTypeOK, NEW n \in Nodes, VisitEntry(n)
  PROVE  /\ Len(frames) \in DOMAIN frames /\ Last(frames) = frames[Len(frames)]
         /\ n \in frames[Len(frames)].left
         /\ Append(Last(frames).path, n) \in Seq(Nodes)
         /\ frames' \in Seq(Frame) /\ Len(frames') = Len(frames) /\ DOMAIN frames' = DOMAIN frames
         /\ \A i \in DOMAIN frames :
              /\ frames'[i].path = frames[i].path
              /\ frames'[i].left = IF i = Len(frames) THEN frames[i].left \ {n} ELSE frames[i].left
<1> DEFINE f == [frames[Len(frames)] EXCEPT !.left = @ \ {n}]
<1>1. /\ frames \in Seq(Frame) /\ Len(frames) \in 1 .. Len(frames)
      /\ DOMAIN frames = 1 .. Len(frames) /\ frames[Len(frames)] \in Frame
  BY FramesType, EmptySeq DEF VisitEntry
<1>2. f \in Frame /\ f.path = frames[Len(frames)].path /\ f.left = frames[Len(frames)].left \ {n}
  BY <1>1 DEF Frame
<1>3. frames' = [frames EXCEPT ![Len(frames)] = f]
  BY DEF VisitEntry
<1>4. /\ frames' \in Seq(Frame) /\ Len(frames') = Len(frames)
      /\ \A j \in 1 .. Len(frames) : frames'[j] = IF j = Len(frames) THEN f ELSE frames[j]
  <2> HIDE DEF f
  <2> QED
    BY <1>1, <1>2, <1>3, ExceptSeq
<1>5. DOMAIN frames' = DOMAIN frames
  BY <1>1, <1>4, LenProperties
<1>6. /\ n \in frames[Len(frames)].left /\ frames[Len(frames)].path \in Seq(Nodes)
      /\ Last(frames) = frames[Len(frames)]
  BY <1>1 DEF VisitEntry, Last, Frame
<1>7. Append(Last(frames).path, n) \in Seq(Nodes)
  BY <1>6, AppendProperties
<1> HIDE DEF f
<1> QED
  BY <1>1, <1>2, <1>4, <1>5, <1>6, <1>7

\* The directory is put on top of the others.
LEMMA Opened ==
  ASSUME WalkTypeOK,
         frames' = Append(frames, [path |-> here, left |-> Children(Resolve(here))])
  PROVE  /\ frames' \in Seq(Frame) /\ Len(frames') = Len(frames) + 1
         /\ DOMAIN frames' = 1 .. Len(frames) + 1
         /\ \A i \in DOMAIN frames : i \in DOMAIN frames' /\ frames'[i] = frames[i]
         /\ frames'[Len(frames) + 1].path = here
         /\ frames'[Len(frames) + 1].left = Children(Resolve(here))
<1> DEFINE f == [path |-> here, left |-> Children(Resolve(here))]
<1>1. f \in Frame /\ f.path = here /\ f.left = Children(Resolve(here))
  BY DEF Frame, Children, WalkTypeOK
<1>2. /\ frames' \in Seq(Frame) /\ Len(frames') = Len(frames) + 1
      /\ \A i \in 1 .. Len(frames) : frames'[i] = frames[i]
      /\ frames'[Len(frames) + 1] = f
  <2> HIDE DEF f
  <2> QED
    BY <1>1, FramesType, AppendProperties DEF f
<1>3. DOMAIN frames' = 1 .. Len(frames) + 1
  BY <1>2, LenProperties
<1> HIDE DEF f
<1> QED
  BY <1>1, <1>2, <1>3, FramesType

\* The last directory is read to its end.
LEMMA LevelLeft ==
  ASSUME WalkTypeOK, frames # << >>, frames' = Front(frames)
  PROVE  /\ frames' \in Seq(Frame) /\ Len(frames') = Len(frames) - 1
         /\ DOMAIN frames' = 1 .. Len(frames) - 1
         /\ \A i \in DOMAIN frames' : i \in DOMAIN frames /\ frames'[i] = frames[i]
         /\ Len(frames) \in DOMAIN frames /\ Last(frames) = frames[Len(frames)]
<1>1. /\ frames \in Seq(Frame) /\ Len(frames) \in Nat \ {0}
      /\ \A i \in 1 .. Len(frames) - 1 : frames[i] \in Frame
  BY FramesType, EmptySeq
<1>2. /\ frames' \in Seq(Frame) /\ Len(frames') = Len(frames) - 1
      /\ \A i \in 1 .. Len(frames) - 1 : frames'[i] = frames[i]
  <2> DEFINE k == Len(frames) - 1
  <2>1. k \in Int /\ 1 \in Int /\ k >= 0
    BY <1>1
  <2>2. \A i \in 1 .. k : frames[i] \in Frame
    BY <1>1
  <2> HIDE DEF k
  <2>3. /\ SubSeq(frames, 1, k) \in Seq(Frame) /\ Len(SubSeq(frames, 1, k)) = k
        /\ \A i \in 1 .. k : SubSeq(frames, 1, k)[i] = frames[i]
    BY <2>1, <2>2, SubSeqProperties
  <2> QED
    BY <2>3 DEF Front, k
<1>3. DOMAIN frames' = 1 .. Len(frames) - 1
  BY <1>1, <1>2, LenProperties
<1> QED
  BY <1>1, <1>2, <1>3, FramesType DEF Last

\* What is in a sequence that has one more.
LEMMA AppendRange ==
  ASSUME NEW S, NEW seq \in Seq(S), NEW e \in S
  PROVE  Range(Append(seq, e)) = Range(seq) \cup {e}
<1> DEFINE q == Append(seq, e)
<1>1. /\ q \in Seq(S) /\ Len(q) = Len(seq) + 1 /\ Len(seq) \in Nat
      /\ \A i \in 1 .. Len(seq) : q[i] = seq[i]
      /\ q[Len(seq) + 1] = e
  BY AppendProperties, LenProperties
<1>2. Range(q) = {q[i] : i \in 1 .. Len(q)} /\ Range(seq) = {seq[i] : i \in 1 .. Len(seq)}
  BY <1>1, RangeEquality
<1> HIDE DEF q
<1>3. 1 .. Len(q) = (1 .. Len(seq)) \cup {Len(seq) + 1}
  BY <1>1
<1>4. Range(q) = Range(seq) \cup {e}
  BY <1>1, <1>2, <1>3
<1> QED
  BY <1>4 DEF q

\* Every step keeps the types.
LEMMA TypeTraverse ==
  ASSUME WalkTypeOK, WalkNext
  PROVE  WalkTypeOK'
<1> USE TraverseAssumption DEF WalkTypeOK
<1>1. CASE Start
  BY <1>1 DEF Start, Returns
<1>2. CASE OpenDirectory
  <2>3. frames' \in Seq(Frame)
    BY <1>2, FramesType, Opened DEF OpenDirectory
  <2> QED
    BY <1>2, <2>3 DEF OpenDirectory, Returns, Frame
<1>3. ASSUME NEW n \in Nodes, VisitEntry(n) PROVE WalkTypeOK'
  <2> DEFINE path == Append(Last(frames).path, n)
  <2>2. frames' \in Seq(Frame) /\ path \in Seq(Nodes)
    BY <1>3, Visited
  <2>4. CASE wpc' = "done" /\ told' = "errno" /\ UNCHANGED <<here, called, skipped>>
    BY <1>3, <2>2, <2>4 DEF VisitEntry, Frame
  <2>5. ASSUME NEW control \in {"Continue", "skipDir", "stop"},
               control \in IF Wanted(path) THEN {"Continue", "skipDir", "stop"} ELSE {"Continue"},
               called' = IF Wanted(path) THEN Append(called, path) ELSE called,
               skipped' = IF control = "skipDir" THEN skipped \cup {path} ELSE skipped,
               \/ wpc' = "done" /\ told' = "stopped" /\ UNCHANGED here
               \/ wpc' = "open" /\ here' = path /\ UNCHANGED told
               \/ UNCHANGED <<wpc, here, told>>
        PROVE  WalkTypeOK'
    <3>1. called' \in Seq(Seq(Nodes))
      <4>1. Append(called, path) \in Seq(Seq(Nodes))
        BY <2>2, AppendProperties
      <4> QED
        BY <2>5, <4>1
    <3>2. Range(called) \subseteq Range(called') /\ (Wanted(path) => path \in Range(called'))
      <4> HIDE DEF path
      <4>1. Range(Append(called, path)) = Range(called) \cup {path}
        BY <2>2, AppendRange
      <4>2. CASE Wanted(path)
        BY <4>1, <4>2, <2>5
      <4>3. CASE ~Wanted(path)
        BY <4>3, <2>5
      <4> QED
        BY <4>2, <4>3
    <3>3. skipped' \subseteq Range(called')
      BY <2>5, <3>2
    <3> QED
      BY <1>3, <2>2, <2>5, <3>1, <3>3 DEF VisitEntry, Frame
  <2> QED
    BY <1>3, <2>4, <2>5 DEF VisitEntry, Returns
<1>4. CASE LeaveDirectory
  <2>1. frames' \in Seq(Frame)
    BY <1>4, FramesType, LevelLeft DEF LeaveDirectory
  <2> QED
    BY <1>4, <2>1 DEF LeaveDirectory, Returns, Frame
<1>5. CASE IncrementThrows
  BY <1>5 DEF IncrementThrows, Returns
<1>6. CASE WalkOthers
  <2>1. PICK n \in Nodes, d \in Dirs \cup {Nowhere} : OthersChange(n, d)
    BY <1>6 DEF WalkOthers
  <2> QED
    BY <2>1 DEF OthersChange, walkState
<1> QED
  BY <1>1, <1>2, <1>3, <1>4, <1>5, <1>6 DEF WalkNext, WalkStep

\* A step of the traversal leaves the tree alone, and what is in it wanted.
LEMMA SameTree ==
  ASSUME UNCHANGED <<dir, options, start>>, skipped \subseteq skipped'
  PROVE  \A p : /\ Resolve(p)' = Resolve(p)
                /\ Wanted(p)' <=> Wanted(p)
                /\ Descends(p)' <=> Descends(p)
                /\ Owed(p)' => Owed(p)
                /\ skipped' = skipped /\ Owed(p) => Owed(p)'
                /\ Owed(p) /\ (\A k \in 1 .. Len(p) - 1 : Upper(p, k) \notin skipped') => Owed(p)'
<1> SUFFICES ASSUME NEW p
    PROVE  /\ Resolve(p)' = Resolve(p)
           /\ Wanted(p)' <=> Wanted(p)
           /\ Descends(p)' <=> Descends(p)
           /\ Owed(p)' => Owed(p)
           /\ skipped' = skipped /\ Owed(p) => Owed(p)'
           /\ Owed(p) /\ (\A k \in 1 .. Len(p) - 1 : Upper(p, k) \notin skipped') => Owed(p)'
  OBVIOUS
<1>1. \A q : Resolve(q)' = Resolve(q)
  BY DEF Resolve, There, Links
<1>2. \A q : Directory(q)' <=> Directory(q)
  BY <1>1 DEF Directory
<1>3. \A q : Descends(q)' <=> Descends(q)
  BY <1>2 DEF Descends
<1>4. Wanted(p)' <=> Wanted(p)
  BY <1>2 DEF Wanted
<1>5. Owed(p)' => Owed(p)
  BY <1>3 DEF Owed
<1>6. Owed(p) /\ (\A k \in 1 .. Len(p) - 1 : Upper(p, k) \notin skipped') => Owed(p)'
  BY <1>3 DEF Owed
<1>7. skipped' = skipped /\ Owed(p) => Owed(p)'
  BY <1>6 DEF Owed
<1> QED
  BY <1>1, <1>3, <1>4, <1>5, <1>6, <1>7

\* A directory is called for if directories are.
LEMMA WantedDirectories ==
  \A p : Descends(p) => Directory(p) /\ (Wanted(p) <=> options.directories)
BY DEF Descends, Wanted

\* A traversal begins in its root, and has nothing yet.
LEMMA StartTraverse ==
  ASSUME TraverseInv, Start
  PROVE  TraverseInv'
<1>1. /\ frames = << >> /\ here = << >> /\ called = << >> /\ skipped = {}
      /\ UNCHANGED <<dir, options, start, frames, here, called, skipped, changes, steady>>
      /\ wpc' = "open" \/ (wpc' = "done" /\ told' = "fileNotFound")
  <2>1. frames = << >> /\ here = << >> /\ called = << >>
    BY DEF TraverseInv, Stacked, Start
  <2>2. Range(called) = {}
    BY <2>1 DEF Range
  <2>3. skipped = {}
    BY <2>2 DEF TraverseInv, WalkTypeOK
  <2>4. /\ UNCHANGED <<dir, options, start, frames, here, called, skipped, changes, steady>>
        /\ wpc' = "open" \/ (wpc' = "done" /\ told' = "fileNotFound")
    BY DEF Start, Returns
  <2> QED
    BY <2>1, <2>3, <2>4
<1>2. Range(called) = {} /\ DOMAIN called = {} /\ DOMAIN frames = {} /\ Len(here) = 0
  BY <1>1 DEF Range
<1>3. WalkTypeOK'
  BY TypeTraverse DEF TraverseInv, WalkNext, WalkStep
<1>4. Stacked' /\ Fresh' /\ LeftInside' /\ InOrder' /\ NoneTooMany'
  BY <1>1, <1>2 DEF Stacked, Fresh, LeftInside, InOrder, NoneTooMany
<1>5. Entered'
  BY <1>1, <1>2 DEF Entered, OnWay
<1>6. Complete'
  <2>1. ASSUME NEW p \in Seq(Nodes) \ {<< >>} PROVE Begins(p, << >>) /\ Len(p) > 0
    BY <2>1, EmptySeq DEF Begins
  <2> QED
    BY <1>1, <1>2, <2>1 DEF Complete, Awaited
<1> QED
  BY <1>3, <1>4, <1>5, <1>6 DEF TraverseInv

\* A traversal that throws has no result.
LEMMA ThrowTraverse ==
  ASSUME TraverseInv, IncrementThrows
  PROVE  TraverseInv'
<1>1. /\ UNCHANGED <<dir, options, start, frames, here, called, skipped, changes, steady>>
      /\ wpc = "entries" /\ wpc' = "done" /\ told' = "thrown"
  BY DEF IncrementThrows, Returns
<1>2. WalkTypeOK'
  BY TypeTraverse DEF TraverseInv, WalkNext, WalkStep
<1>3. \A p : Awaited(p)' => Awaited(p)
  BY <1>1 DEF Awaited
<1>4. Stacked' /\ Fresh' /\ LeftInside' /\ InOrder' /\ Complete'
  BY <1>1, <1>3 DEF TraverseInv, Stacked, Fresh, LeftInside, InOrder, Complete, EndOf, Last
<1>5. OnWay' = OnWay
  BY <1>1 DEF OnWay
<1>6. Entered'
  BY <1>1, <1>5, SameTree DEF TraverseInv, Entered
<1>7. NoneTooMany'
  BY <1>1, SameTree DEF TraverseInv, NoneTooMany
<1> QED
  BY <1>2, <1>4, <1>6, <1>7 DEF TraverseInv

\* A directory is left when all that was in it was seen.
LEMMA LeaveTraverse ==
  ASSUME TraverseInv, LeaveDirectory
  PROVE  TraverseInv'
<1>1. /\ UNCHANGED <<dir, options, start, here, called, skipped, changes, steady>>
      /\ wpc = "entries" /\ wpc' # "open" /\ wpc' \notin {"off", "start"}
  BY DEF LeaveDirectory, Returns
<1>2. WalkTypeOK /\ WalkTypeOK'
  BY TypeTraverse DEF TraverseInv, WalkNext, WalkStep
<1>3. /\ \A i \in DOMAIN frames' : i \in DOMAIN frames /\ frames'[i] = frames[i]
      /\ \A i \in DOMAIN frames : i \notin DOMAIN frames' => frames[i].left = {}
  <2>1. CASE frames = << >>
    BY <2>1 DEF LeaveDirectory
  <2>2. CASE frames # << >>
    <3>1. frames' = Front(frames) /\ Last(frames).left = {}
      BY <2>2 DEF LeaveDirectory
    <3> QED
      BY <1>2, <2>2, <3>1, LevelLeft, FramesType
  <2> QED
    BY <2>1, <2>2
<1>4. \A p : Awaited(p)' <=> Awaited(p)
  BY <1>1, <1>2, <1>3, FramesType DEF Awaited
<1>5. Stacked'
  BY <1>1, <1>3 DEF TraverseInv, Stacked
<1>6. Fresh'
  BY <1>1, <1>4 DEF TraverseInv, Fresh
<1>7. OnWay' \subseteq OnWay
  BY <1>1, <1>3 DEF OnWay
<1>8. Entered'
  BY <1>1, <1>7, SameTree DEF TraverseInv, Entered
<1>9. LeftInside'
  BY <1>1, <1>3 DEF TraverseInv, LeftInside, EndOf
<1>10. InOrder'
  BY <1>1 DEF TraverseInv, InOrder
<1>11. NoneTooMany'
  BY <1>1, SameTree DEF TraverseInv, NoneTooMany
<1>12. Complete'
  BY <1>1, <1>4, SameTree DEF TraverseInv, Complete, StayedPut
<1> QED
  BY <1>2, <1>5, <1>6, <1>8, <1>9, <1>10, <1>11, <1>12 DEF TraverseInv

\* A directory that is opened is a new one on the path, with its entries unseen.
LEMMA OpenTraverse ==
  ASSUME TraverseInv, OpenDirectory
  PROVE  TraverseInv'
<1>1. /\ UNCHANGED <<dir, options, start, here, called, skipped, changes, steady>>
      /\ wpc = "open" /\ wpc' # "open" /\ wpc' \notin {"off", "start"}
  BY DEF OpenDirectory, Returns
<1>2. WalkTypeOK /\ WalkTypeOK'
  BY TypeTraverse DEF TraverseInv, WalkNext, WalkStep
<1>3. here \in Seq(Nodes) /\ Len(here) = Len(frames) /\ options.maxDepth \in Int /\ Len(here) \in Nat
  BY <1>1, <1>2, TraverseAssumption DEF WalkTypeOK, TraverseInv, Stacked
<1>4. InOrder'
  BY <1>1 DEF TraverseInv, InOrder
<1>5. NoneTooMany'
  BY <1>1, SameTree DEF TraverseInv, NoneTooMany
\* The directory is too deep, or it cannot be opened.
<1>6. CASE UNCHANGED frames
  <2>1. \A p : Awaited(p)' => Awaited(p)
    BY <1>1, <1>6 DEF Awaited
  <2>2. Stacked' /\ Fresh' /\ LeftInside'
    BY <1>1, <1>6, <2>1 DEF TraverseInv, Stacked, Fresh, LeftInside, EndOf
  <2>3. OnWay' \subseteq OnWay
    BY <1>1, <1>6 DEF OnWay
  <2>4. Entered'
    BY <1>1, <2>3, SameTree DEF TraverseInv, Entered
  <2>5. Complete'
    <3>1. CASE wpc' = "done" /\ told' = "errno"
      BY <3>1 DEF Complete
    <3>2. CASE options.maxDepth # Unlimited /\ Len(here) > options.maxDepth
      <4>1. ASSUME NEW p \in Seq(Nodes) \ {<< >>}, Owed(p), Awaited(p)
            PROVE  Awaited(p)'
        <5>1. ~(Len(p) > Len(here))
          BY <1>3, <3>2, <4>1 DEF Owed
        <5> QED
          BY <1>6, <4>1, <5>1 DEF Awaited
      <4> QED
        BY <1>1, <4>1, SameTree DEF TraverseInv, Complete, StayedPut
    <3>3. frames # Append(frames, [path |-> here, left |-> Children(Resolve(here))])
      BY <1>2, <1>3, <1>6, Opened
    <3> QED
      BY <1>6, <3>1, <3>2, <3>3 DEF OpenDirectory, Returns
  <2> QED
    BY <1>2, <1>4, <1>5, <2>2, <2>4, <2>5 DEF TraverseInv
\* It is opened.
<1>7. CASE /\ frames' = Append(frames, [path |-> here, left |-> Children(Resolve(here))])
           /\ options.maxDepth = Unlimited \/ Len(here) <= options.maxDepth
           /\ Resolve(here) \in Dirs
  <2> DEFINE top == Len(frames) + 1
  <2>1. /\ DOMAIN frames' = 1 .. top /\ DOMAIN frames = 1 .. Len(frames)
        /\ \A i \in DOMAIN frames : i \in DOMAIN frames' /\ frames'[i] = frames[i]
        /\ frames'[top].path = here /\ frames'[top].left = Children(Resolve(here))
    BY <1>2, <1>7, Opened, FramesType
  <2>2. Resolve(here) = Behind(EndOf(here))
    <3>1. Nowhere \notin Dirs
      BY TraverseAssumption DEF Dirs, Nowhere, Top
    <3> QED
      BY <1>3, <1>7, <3>1, ResolveEither
  <2>3. Stacked'
    <3>1. \A i \in DOMAIN frames' : Len(frames'[i].path) = i - 1
      BY <1>3, <2>1 DEF TraverseInv, Stacked
    <3>2. \A i, j \in DOMAIN frames' : i < j =>
            Begins(frames'[j].path, frames'[i].path) /\ frames'[j].path[i] \notin frames'[i].left
      BY <1>1, <1>3, <2>1 DEF TraverseInv, Stacked
    <3>3. \A i \in DOMAIN frames' : options.maxDepth = Unlimited \/ i - 1 <= options.maxDepth
      BY <1>3, <1>7, <2>1 DEF TraverseInv, Stacked
    <3> QED
      BY <1>1, <3>1, <3>2, <3>3 DEF Stacked
  <2>4. \A p : Awaited(p)' => Awaited(p)
    BY <1>1, <1>3, <2>1 DEF Awaited
  <2>5. Fresh'
    BY <1>1, <2>4 DEF TraverseInv, Fresh
  <2>6. OnWay' \subseteq OnWay
    BY <1>1, <2>1 DEF OnWay
  <2>7. Entered'
    BY <1>1, <2>6, SameTree DEF TraverseInv, Entered
  <2>8. LeftInside'
    BY <1>1, <2>1, <2>2 DEF TraverseInv, LeftInside, EndOf, Children
  <2>9. Complete'
    <3>1. ASSUME NEW p \in Seq(Nodes) \ {<< >>}, Owed(p), Awaited(p)
          PROVE  Awaited(p)'
      <4>1. CASE Begins(p, here) /\ Len(p) > Len(here)
        <5>1. Len(p) \in Nat /\ top \in DOMAIN p /\ top <= Len(p) /\ p[top] \in Nodes
          BY <1>3, <3>1, <4>1, LenProperties
        <5>2. dir[p[top]] = Behind(IF top = 1 THEN start ELSE p[top - 1])
          BY <3>1, <5>1 DEF Owed
        <5>3. (IF top = 1 THEN start ELSE p[top - 1]) = EndOf(here)
          BY <1>3, <4>1 DEF EndOf, Last, Begins
        <5> QED
          BY <2>1, <2>2, <4>1, <5>1, <5>2, <5>3 DEF Awaited, Children
      <4>2. CASE \E i \in DOMAIN frames :
                   Begins(p, frames[i].path) /\ i <= Len(p) /\ p[i] \in frames[i].left
        BY <2>1, <4>2 DEF Awaited
      <4> QED
        BY <3>1, <4>1, <4>2 DEF Awaited
    <3> QED
      BY <1>1, <3>1, SameTree DEF TraverseInv, Complete, StayedPut
  <2> QED
    BY <1>2, <1>4, <1>5, <2>3, <2>5, <2>7, <2>8, <2>9 DEF TraverseInv
<1> QED
  BY <1>3, <1>6, <1>7 DEF OpenDirectory, Returns

\* An entry that is visited is in the result, and entered if it is to be.
LEMMA VisitTraverse ==
  ASSUME TraverseInv, NEW n \in Nodes, VisitEntry(n)
  PROVE  TraverseInv'
<1> DEFINE top == Len(frames)
           upper == Last(frames).path
           path == Append(upper, n)
           Errs == wpc' = "done" /\ told' = "errno" /\ UNCHANGED <<here, called, skipped>>
           Calls == /\ called' = IF Wanted(path) THEN Append(called, path) ELSE called
                    /\ skipped' = skipped \/ (skipped' = skipped \cup {path} /\ Wanted(path))
                    /\ \/ wpc' = "done" /\ told' = "stopped"
                       \/ wpc' = "open" /\ here' = path /\ skipped' = skipped /\ Descends(path)
                       \/ wpc' = "entries" /\ (~Descends(path) \/ path \in skipped')
<1>1. /\ UNCHANGED <<dir, options, start, changes, steady>>
      /\ wpc = "entries" /\ wpc' \notin {"off", "start"}
      /\ Errs \/ Calls
  <2> HIDE DEF path
  <2> QED
    BY DEF VisitEntry, Returns, path
<1>2. WalkTypeOK /\ WalkTypeOK'
  BY TypeTraverse DEF TraverseInv, WalkNext, WalkStep
<1>3. /\ top \in DOMAIN frames /\ DOMAIN frames = 1 .. top /\ top \in Nat /\ upper = frames[top].path
      /\ n \in frames[top].left /\ upper \in Seq(Nodes) /\ Len(upper) = top - 1
      /\ DOMAIN frames' = DOMAIN frames /\ Len(frames') = top
      /\ \A i \in DOMAIN frames :
           /\ frames'[i].path = frames[i].path
           /\ frames'[i].left = IF i = top THEN frames[i].left \ {n} ELSE frames[i].left
  BY <1>2, Visited, FramesType DEF TraverseInv, Stacked
<1> HIDE DEF top, upper
<1>4. /\ path \in Seq(Nodes) /\ path # << >> /\ Len(path) = top /\ Last(path) = n /\ path[top] = n
      /\ Begins(path, upper) /\ \A k \in 1 .. top - 1 : path[k] = upper[k]
  BY <1>3, LongerPath
<1>5. /\ \A k \in 1 .. top - 1 : Upper(path, k) = Upper(upper, k)
      /\ Upper(path, top) = path
      /\ \A p \in Seq(Nodes) : Begins(p, path) => Upper(p, top) = path
  <2>1. ASSUME NEW k \in 1 .. top - 1 PROVE Upper(path, k) = Upper(upper, k)
    <3>1. k \in 1 .. Len(upper)
      BY <1>3
    <3>2. upper \in Seq(Nodes) /\ path \in Seq(Nodes) /\ Begins(path, upper)
      BY <1>3, <1>4
    <3> HIDE DEF path
    <3> QED
      BY <3>1, <3>2, SameUpper
  <2>2. Upper(path, top) = path
    BY <1>4, SubSeqFull DEF Upper
  <2>3. \A p \in Seq(Nodes) : Begins(p, path) => Upper(p, top) = path
    <3> HIDE DEF path
    <3> QED
      BY <1>4, WholeUpper
  <2> QED
    BY <2>1, <2>2, <2>3
<1> HIDE DEF path, Errs, Calls
<1>6. Awaited(path) /\ path \notin Range(called)
  <2>1. Awaited(path)
    BY <1>3, <1>4 DEF Awaited, Begins
  <2> QED
    BY <2>1 DEF TraverseInv, Fresh
<1>7. /\ Range(called) \subseteq Range(called') /\ Range(called') \subseteq Range(called) \cup {path}
      /\ path \in Range(called') => Wanted(path)
      /\ Wanted(path) => Errs \/ path \in Range(called')
      /\ skipped \subseteq skipped' /\ skipped' \subseteq skipped \cup {path}
      /\ path \in skipped' => Wanted(path)
      /\ skipped \subseteq Range(called)
  <2>1. Range(Append(called, path)) = Range(called) \cup {path}
    BY <1>2, <1>4, AppendRange DEF WalkTypeOK
  <2>2. skipped \subseteq Range(called)
    BY <1>2 DEF WalkTypeOK
  <2>3. CASE Errs
    BY <1>6, <2>2, <2>3 DEF Errs
  <2>4. CASE Calls /\ Wanted(path)
    BY <2>1, <2>2, <2>4 DEF Calls
  <2>5. CASE Calls /\ ~Wanted(path)
    BY <1>6, <2>2, <2>5 DEF Calls
  <2> QED
    BY <1>1, <2>3, <2>4, <2>5
<1>8. Stacked'
  <2>1. \A i \in DOMAIN frames' : Len(frames'[i].path) = i - 1
    BY <1>3 DEF TraverseInv, Stacked
  <2>2. \A i, j \in DOMAIN frames' : i < j =>
          Begins(frames'[j].path, frames'[i].path) /\ frames'[j].path[i] \notin frames'[i].left
    <3> SUFFICES ASSUME NEW i \in DOMAIN frames, NEW j \in DOMAIN frames, i < j
        PROVE  /\ Begins(frames'[j].path, frames'[i].path)
               /\ frames'[j].path[i] \notin frames'[i].left
      BY <1>3
    <3>1. Begins(frames[j].path, frames[i].path) /\ frames[j].path[i] \notin frames[i].left
      BY DEF TraverseInv, Stacked
    <3>2. /\ frames'[i].path = frames[i].path /\ frames'[j].path = frames[j].path
          /\ frames'[i].left \subseteq frames[i].left
      BY <1>3
    <3> QED
      BY <3>1, <3>2
  <2>3. ASSUME wpc' = "open"
        PROVE  /\ Len(here') = Len(frames')
               /\ \A i \in DOMAIN frames' :
                    Begins(here', frames'[i].path) /\ here'[i] \notin frames'[i].left
    <3>1. here' = path
      BY <1>1, <2>3 DEF Errs, Calls
    <3>2. ASSUME NEW i \in DOMAIN frames'
          PROVE  Begins(path, frames'[i].path) /\ path[i] \notin frames'[i].left
      <4>1. CASE i = top
        BY <1>3, <1>4, <4>1
      <4>2. CASE i < top
        <5>1. Begins(upper, frames[i].path) /\ upper[i] \notin frames[i].left
          BY <1>3, <4>2 DEF TraverseInv, Stacked
        <5>2. Len(frames[i].path) = i - 1 /\ i \in 1 .. top - 1
          BY <1>3, <4>2 DEF TraverseInv, Stacked
        <5>3. /\ frames'[i].path = frames[i].path /\ frames'[i].left = frames[i].left
              /\ i - 1 <= top /\ i \in Int
          <6>1. i \in DOMAIN frames /\ i # top
            BY <1>3, <5>2
          <6>2. frames'[i].path = frames[i].path /\ frames'[i].left = frames[i].left
            BY <1>3, <6>1
          <6>3. i - 1 <= top /\ i \in Int
            <7>1. top \in Nat
              BY <1>3
            <7> QED
              BY <5>2, <7>1
          <6> QED
            BY <6>2, <6>3
        <5>4. \A k \in 1 .. i - 1 : path[k] = frames[i].path[k]
          <6>1. \A k \in 1 .. i - 1 : upper[k] = frames[i].path[k]
            BY <5>1, <5>2 DEF Begins
          <6>2. \A k \in 1 .. i - 1 : k \in 1 .. top - 1
            BY <1>3, <5>2
          <6> QED
            BY <1>4, <6>1, <6>2
        <5>5. path[i] = upper[i]
          BY <1>4, <5>2
        <5>6. Begins(path, frames[i].path)
          BY <1>3, <1>4, <5>2, <5>3, <5>4 DEF Begins
        <5> QED
          BY <5>1, <5>3, <5>5, <5>6
      <4> QED
        BY <1>3, <4>1, <4>2
    <3> QED
      BY <1>3, <1>4, <3>1, <3>2
  <2>4. \A i \in DOMAIN frames' : options'.maxDepth = Unlimited \/ i - 1 <= options'.maxDepth
    BY <1>1, <1>3 DEF TraverseInv, Stacked
  <2> QED
    BY <1>1, <2>1, <2>2, <2>3, <2>4 DEF Stacked
<1>9. \A p \in Seq(Nodes) : Awaited(p)' => Awaited(p) /\ p # path
  <2> SUFFICES ASSUME NEW p \in Seq(Nodes), Awaited(p)' PROVE Awaited(p) /\ p # path
    OBVIOUS
  <2>1. CASE \E i \in DOMAIN frames' :
               Begins(p, frames'[i].path) /\ i <= Len(p) /\ p[i] \in frames'[i].left
    <3>1. PICK i \in DOMAIN frames' :
               Begins(p, frames'[i].path) /\ i <= Len(p) /\ p[i] \in frames'[i].left
      BY <2>1
    <3>2. Awaited(p)
      BY <1>3, <3>1 DEF Awaited
    <3>3. path[i] \notin frames'[i].left
      <4>1. CASE i = top
        BY <1>3, <1>4, <4>1
      <4>2. CASE i < top
        <5>1. upper[i] \notin frames[i].left /\ i \in 1 .. top - 1
          BY <1>3, <3>1, <4>2 DEF TraverseInv, Stacked
        <5> QED
          BY <1>3, <1>4, <4>2, <5>1
      <4> QED
        BY <1>3, <3>1, <4>1, <4>2
    <3> QED
      BY <3>1, <3>2, <3>3
  <2>2. CASE wpc' = "open" /\ Begins(p, here') /\ Len(p) > Len(here')
    <3>1. here' = path /\ Begins(p, path) /\ Len(p) > top
      BY <1>1, <1>4, <2>2 DEF Errs, Calls
    <3>2. Begins(p, upper) /\ p[top] = n /\ top <= Len(p)
      BY <1>3, <1>4, <3>1 DEF Begins
    <3> QED
      BY <1>3, <1>4, <3>1, <3>2 DEF Awaited
  <2> QED
    BY <2>1, <2>2 DEF Awaited
<1>10. Fresh'
  <2>1. \A p \in Range(called') : p \in Seq(Nodes)
    BY <1>2, RangeOfSeq DEF WalkTypeOK
  <2>2. \A p \in Range(called') : p # << >> /\ ~Awaited(p)'
    BY <1>4, <1>7, <1>9, <2>1 DEF TraverseInv, Fresh
  <2>3. wpc' = "open" /\ options'.directories => here' \in Range(called')
    BY <1>1, <1>7, WantedDirectories DEF Errs, Calls
  <2> QED
    BY <2>2, <2>3 DEF Fresh
<1>11. /\ \A i \in DOMAIN frames : frames[i].path \in Seq(Nodes) /\ frames[i].path \in OnWay
       /\ \A q \in OnWay' : q \in OnWay \/ (q = path /\ wpc' = "open")
       /\ upper \in OnWay
  <2>1. \A i \in DOMAIN frames : frames[i].path \in Seq(Nodes) /\ frames[i].path \in OnWay
    BY <1>2, FramesType DEF OnWay
  <2>2. \A q \in OnWay' : q \in OnWay \/ (q = path /\ wpc' = "open")
    <3>1. wpc' = "open" => here' = path
      BY <1>1 DEF Errs, Calls
    <3>2. \A i \in DOMAIN frames' : frames'[i].path \in OnWay
      BY <1>3, <2>1
    <3> QED
      BY <3>1, <3>2 DEF OnWay
  <2> QED
    BY <1>3, <2>1, <2>2
\* An upper part of a path that the recursion is on is not the one skipped.
<1>12. ASSUME NEW q \in OnWay, NEW k \in 1 .. Len(q),
              options.directories \/ changes = 0
       PROVE  Upper(q, k) \notin skipped /\ Upper(q, k) \notin skipped'
  <2>1. CASE options.directories
    BY <1>6, <1>7, <2>1 DEF TraverseInv, Entered
  <2>2. CASE ~options.directories
    <3>1. Descends(Upper(q, k)) /\ Upper(q, k) \notin skipped
      BY <1>12, <2>2 DEF TraverseInv, Entered
    <3>2. ~Wanted(Upper(q, k))
      BY <2>2, <3>1, WantedDirectories
    <3> QED
      BY <1>7, <3>1, <3>2
  <2> QED
    BY <2>1, <2>2
\* What is known of the upper parts of the new path.
<1>13. ASSUME NEW k \in 1 .. top - 1
       PROVE  /\ options.directories =>
                   /\ Upper(path, k) \in Range(called) /\ Upper(path, k) \notin skipped'
                   /\ options.follow \/ Kind[path[k]] # "link"
              /\ changes = 0 =>
                   /\ dir[path[k]] = Behind(IF k = 1 THEN start ELSE path[k - 1])
                   /\ Descends(Upper(path, k)) /\ Upper(path, k) \notin skipped'
  <2>1. k \in 1 .. Len(upper) /\ Upper(path, k) = Upper(upper, k) /\ path[k] = upper[k]
    BY <1>3, <1>4, <1>5
  <2>2. k # 1 => path[k - 1] = upper[k - 1]
    BY <1>3, <1>4
  <2> QED
    BY <1>11, <1>12, <2>1, <2>2 DEF TraverseInv, Entered
<1>14. changes = 0 => dir[path[top]] = Behind(IF top = 1 THEN start ELSE path[top - 1])
  <2> SUFFICES ASSUME changes = 0
      PROVE  dir[path[top]] = Behind(IF top = 1 THEN start ELSE path[top - 1])
    OBVIOUS
  <2>1. dir[n] = Behind(EndOf(upper))
    BY <1>3 DEF TraverseInv, LeftInside
  <2>2. EndOf(upper) = IF top = 1 THEN start ELSE path[top - 1]
    <3>1. CASE upper = << >>
      BY <1>3, <3>1, EmptySeq DEF EndOf
    <3>2. CASE upper # << >>
      <4>1. top - 1 \in 1 .. top - 1 /\ top # 1
        BY <1>3, <3>2, EmptySeq
      <4> QED
        BY <1>3, <1>4, <3>2, <4>1 DEF EndOf, Last
    <3> QED
      BY <3>1, <3>2
  <2> QED
    BY <1>4, <2>1, <2>2
<1>15. Entered'
  <2>1. ASSUME NEW q \in OnWay, NEW k \in 1 .. Len(q)
        PROVE  /\ options.directories =>
                    /\ Upper(q, k) \in Range(called') /\ Upper(q, k) \notin skipped'
                    /\ options.follow \/ Kind[q[k]] # "link"
               /\ changes = 0 =>
                    /\ dir[q[k]] = Behind(IF k = 1 THEN start ELSE q[k - 1])
                    /\ Descends(Upper(q, k)) /\ Upper(q, k) \notin skipped'
    BY <1>7, <1>12, <2>1 DEF TraverseInv, Entered
  <2>2. ASSUME wpc' = "open", NEW k \in 1 .. Len(path)
        PROVE  /\ options.directories =>
                    /\ Upper(path, k) \in Range(called') /\ Upper(path, k) \notin skipped'
                    /\ options.follow \/ Kind[path[k]] # "link"
               /\ changes = 0 =>
                    /\ dir[path[k]] = Behind(IF k = 1 THEN start ELSE path[k - 1])
                    /\ Descends(Upper(path, k)) /\ Upper(path, k) \notin skipped'
    <3>1. CASE k \in 1 .. top - 1
      BY <1>7, <1>13, <3>1
    <3>2. CASE k = top
      <4>1. Descends(path) /\ skipped' = skipped /\ path \notin skipped
        BY <1>1, <1>6, <1>7, <2>2 DEF Errs, Calls
      <4>2. options.directories => path \in Range(called')
        BY <1>7, <2>2, <4>1, WantedDirectories DEF Errs
      <4>3. options.follow \/ Kind[path[top]] # "link"
        BY <1>4, <4>1 DEF Descends
      <4> QED
        BY <1>5, <1>14, <3>2, <4>1, <4>2, <4>3
    <3> QED
      BY <1>3, <1>4, <3>1, <3>2
  <2>3. \A q : Descends(q)' <=> Descends(q)
    BY <1>1, <1>7, SameTree
  <2> QED
    BY <1>1, <1>11, <2>1, <2>2, <2>3 DEF Entered
<1>16. LeftInside'
  <2> SUFFICES ASSUME changes = 0, NEW i \in DOMAIN frames, NEW m \in frames'[i].left
      PROVE  dir[m] = Behind(IF frames'[i].path = << >> THEN start ELSE Last(frames'[i].path))
    BY <1>1, <1>3 DEF LeftInside, EndOf
  <2>1. m \in frames[i].left /\ frames'[i].path = frames[i].path
    BY <1>3
  <2> QED
    BY <2>1 DEF TraverseInv, LeftInside, EndOf
\* An upper part of a called path is not the one skipped.
<1>17. ASSUME NEW i \in DOMAIN called, NEW k \in 1 .. Len(called[i]) - 1,
              options.directories \/ changes = 0
       PROVE  Upper(called[i], k) \notin skipped /\ Upper(called[i], k) \notin skipped'
  <2>1. CASE options.directories
    <3>1. /\ \E j \in 1 .. i - 1 : called[j] = Upper(called[i], k)
          /\ Upper(called[i], k) \notin skipped
      BY <2>1 DEF TraverseInv, InOrder
    <3>2. DOMAIN called = 1 .. Len(called) /\ i \in Nat
      BY <1>2, LenProperties DEF WalkTypeOK
    <3>3. Upper(called[i], k) \in Range(called)
      BY <3>1, <3>2 DEF Range
    <3> QED
      BY <1>6, <1>7, <3>1, <3>3
  <2>2. CASE ~options.directories
    <3>1. Descends(Upper(called[i], k)) /\ Upper(called[i], k) \notin skipped
      <4>1. called[i] \in Range(called)
        BY DEF Range
      <4> QED
        BY <1>17, <2>2, <4>1 DEF TraverseInv, NoneTooMany, Owed
    <3>2. ~Wanted(Upper(called[i], k))
      BY <2>2, <3>1, WantedDirectories
    <3> QED
      BY <1>7, <3>1, <3>2
  <2> QED
    BY <1>17, <2>1, <2>2
\* What is called is what was called, and perhaps the path.
<1>18. /\ called \in Seq(Seq(Nodes)) /\ Len(called) \in Nat /\ DOMAIN called = 1 .. Len(called)
       /\ \A j \in DOMAIN called : j \in DOMAIN called' /\ called'[j] = called[j]
       /\ \A i \in DOMAIN called' :
            \/ i \in DOMAIN called /\ called'[i] = called[i]
            \/ i = Len(called) + 1 /\ called'[i] = path
  <2>1. called \in Seq(Seq(Nodes)) /\ Len(called) \in Nat /\ DOMAIN called = 1 .. Len(called)
    BY <1>2, LenProperties DEF WalkTypeOK
  <2>2. CASE called' = called
    BY <2>1, <2>2
  <2>3. CASE called' = Append(called, path)
    <3>1. /\ called' \in Seq(Seq(Nodes)) /\ Len(called') = Len(called) + 1
          /\ called'[Len(called) + 1] = path
          /\ \A i \in 1 .. Len(called) : called'[i] = called[i]
      BY <1>4, <2>1, <2>3, AppendProperties
    <3>2. DOMAIN called' = 1 .. Len(called) + 1
      BY <3>1, LenProperties
    <3>3. \A i \in 1 .. Len(called) + 1 : i \in 1 .. Len(called) \/ i = Len(called) + 1
      BY <2>1
    <3>4. \A i \in 1 .. Len(called) : i \in 1 .. Len(called) + 1
      BY <2>1
    <3> HIDE <2>3
    <3> QED
      BY <2>1, <3>1, <3>2, <3>3, <3>4
  <2> QED
    BY <1>1, <2>1, <2>2, <2>3 DEF Errs, Calls
<1>19. InOrder'
  <2>1. \A i \in DOMAIN called : called[i] # path
    BY <1>6 DEF Range
  <2>2. \A i, j \in DOMAIN called' : called'[i] = called'[j] => i = j
    <3> SUFFICES ASSUME NEW i \in DOMAIN called', NEW j \in DOMAIN called', called'[i] = called'[j]
        PROVE  i = j
      OBVIOUS
    <3>1. CASE i \in DOMAIN called /\ j \in DOMAIN called
      <4>1. called[i] = called[j]
        BY <1>18, <3>1
      <4> QED
        BY <3>1, <4>1 DEF TraverseInv, InOrder
    <3> QED
      BY <1>18, <2>1, <3>1
  <2>3. ASSUME NEW i \in DOMAIN called', NEW k \in 1 .. Len(called'[i]) - 1, options.directories
        PROVE  /\ \E j \in 1 .. i - 1 : called'[j] = Upper(called'[i], k)
               /\ Upper(called'[i], k) \notin skipped'
               /\ options.follow \/ Kind[called'[i][k]] # "link"
    <3>1. CASE i \in DOMAIN called /\ called'[i] = called[i]
      <4>1. k \in 1 .. Len(called[i]) - 1
        BY <3>1
      <4>2. /\ \E j \in 1 .. i - 1 : called[j] = Upper(called[i], k)
            /\ options.follow \/ Kind[called[i][k]] # "link"
        BY <2>3, <3>1, <4>1 DEF TraverseInv, InOrder
      <4>3. \A j \in 1 .. i - 1 : called'[j] = called[j]
        <5>1. \A j \in 1 .. i - 1 : j \in 1 .. Len(called)
          BY <1>18, <3>1
        <5> QED
          BY <1>18, <5>1
      <4> QED
        BY <1>17, <2>3, <3>1, <4>1, <4>2, <4>3
    <3>2. CASE i = Len(called) + 1 /\ called'[i] = path
      <4>1. k \in 1 .. top - 1
        BY <1>4, <3>2
      <4>2. /\ Upper(path, k) \in Range(called) /\ Upper(path, k) \notin skipped'
            /\ options.follow \/ Kind[path[k]] # "link"
        BY <1>13, <2>3, <4>1
      <4>3. \E j \in 1 .. i - 1 : called'[j] = Upper(path, k)
        <5>1. PICK j \in DOMAIN called : called[j] = Upper(path, k)
          BY <4>2 DEF Range
        <5>2. j \in 1 .. i - 1 /\ called'[j] = Upper(path, k)
          BY <1>18, <3>2, <5>1
        <5> QED
          BY <5>2
      <4> QED
        BY <3>2, <4>2, <4>3
    <3> QED
      BY <1>18, <3>1, <3>2
  <2>4. \A p \in Range(called') : options.maxDepth = Unlimited \/ Len(p) <= options.maxDepth + 1
    <3>1. options.maxDepth \in Int
      BY <1>2, TraverseAssumption DEF WalkTypeOK
    <3>2. options.maxDepth = Unlimited \/ Len(path) <= options.maxDepth + 1
      BY <1>3, <1>4, <3>1 DEF TraverseInv, Stacked
    <3> QED
      BY <1>7, <3>2 DEF TraverseInv, InOrder
  <2> QED
    BY <1>1, <2>2, <2>3, <2>4 DEF InOrder
<1>20. NoneTooMany'
  <2> SUFFICES ASSUME changes = 0, NEW p \in Range(called') PROVE Owed(p)' /\ Wanted(p)'
    BY <1>1 DEF NoneTooMany
  <2>1. CASE p \in Range(called)
    <3>1. Owed(p) /\ Wanted(p)
      BY <2>1 DEF TraverseInv, NoneTooMany
    <3>2. \A k \in 1 .. Len(p) - 1 : Upper(p, k) \notin skipped'
      BY <1>17, <2>1 DEF Range
    <3> QED
      BY <1>1, <1>7, <3>1, <3>2, SameTree
  <2>2. CASE p = path
    <3>1. \A k \in DOMAIN path : dir[path[k]] = Behind(IF k = 1 THEN start ELSE path[k - 1])
      <4>1. DOMAIN path = 1 .. top
        BY <1>4, LenProperties
      <4>2. \A k \in 1 .. top : k = top \/ k \in 1 .. top - 1
        BY <1>3
      <4> QED
        BY <1>13, <1>14, <4>1, <4>2
    <3>2. \A k \in 1 .. Len(path) - 1 : /\ Descends(Upper(path, k)) /\ Upper(path, k) \notin skipped
                                        /\ Upper(path, k) \notin skipped'
      BY <1>4, <1>7, <1>13
    <3>3. options.maxDepth = Unlimited \/ Len(path) <= options.maxDepth + 1
      BY <1>1, <1>19, <2>2 DEF InOrder
    <3>4. Owed(path)
      BY <3>1, <3>2, <3>3 DEF Owed
    <3> QED
      BY <1>1, <1>7, <2>2, <3>2, <3>4, SameTree
  <2> QED
    BY <1>7, <2>1, <2>2
<1>21. Complete'
  <2> SUFFICES ASSUME NEW p \in Seq(Nodes) \ {<< >>}, Owed(p)', Wanted(p)', StayedPut(p)'
      PROVE  p \in Range(called') \/ Awaited(p)' \/ (wpc' = "done" /\ told' # "ok")
    BY DEF Complete
  <2>1. Owed(p) /\ Wanted(p) /\ StayedPut(p)
    BY <1>1, <1>7, SameTree DEF StayedPut
  <2>2. p \in Range(called) \/ Awaited(p)
    BY <1>1, <2>1 DEF TraverseInv, Complete
  <2>3. CASE p \in Range(called)
    BY <1>7, <2>3
  <2>4. CASE Errs
    BY <2>4 DEF Errs
  <2>5. CASE Calls /\ Awaited(p)
    <3>1. PICK i \in DOMAIN frames :
            Begins(p, frames[i].path) /\ i <= Len(p) /\ p[i] \in frames[i].left
      BY <1>1, <2>5 DEF Awaited
    <3>2. CASE i # top \/ p[top] # n
      BY <1>3, <3>1, <3>2 DEF Awaited
    <3>3. CASE i = top /\ p[top] = n
      <4>1. Begins(p, path) /\ Len(p) \in Nat
        BY <1>3, <1>4, <3>1, <3>3 DEF Begins
      <4>2. Upper(p, top) = path
        BY <1>5, <4>1
      <4>3. CASE Len(p) = top
        <5>1. p = path
          BY <1>4, <4>1, <4>3, SeqEqual DEF Begins
        <5> QED
          BY <1>7, <2>1, <2>4, <5>1
      <4>4. CASE Len(p) > top
        <5>1. top \in 1 .. Len(p) - 1
          BY <1>3, <4>1, <4>4
        <5>2. Descends(path)
          BY <2>1, <4>2, <5>1 DEF Owed
        <5>3. path \notin skipped'
          BY <4>2, <5>1 DEF Owed
        <5>4. CASE wpc' = "open" /\ here' = path
          BY <1>4, <4>1, <4>4, <5>4 DEF Awaited
        <5> QED
          BY <2>5, <5>2, <5>3, <5>4 DEF Calls
      <4>5. top <= Len(p)
        BY <3>1, <3>3
      <4> QED
        BY <1>3, <4>1, <4>3, <4>4, <4>5
    <3> QED
      BY <3>2, <3>3
  <2> QED
    BY <1>1, <2>2, <2>3, <2>4, <2>5
<1> QED
  BY <1>2, <1>8, <1>10, <1>15, <1>16, <1>19, <1>20, <1>21 DEF TraverseInv

\* Other programs: what has stayed put is owed as before.
LEMMA OthersTraverse ==
  ASSUME TraverseInv, WalkOthers
  PROVE  TraverseInv'
<1>1. PICK n \in Nodes : /\ \A m \in Nodes : m # n => dir'[m] = dir[m]
                         /\ steady' = steady \ {n} /\ changes' = changes + 1
                         /\ UNCHANGED <<options, start, wpc, frames, here, called, skipped, told>>
  BY DEF WalkOthers, OthersChange, walkState, TraverseInv, WalkTypeOK
<1>2. WalkTypeOK /\ WalkTypeOK'
  BY TypeTraverse DEF TraverseInv, WalkNext
<1>3. changes' # 0 /\ steady \subseteq Nodes
  BY <1>1, <1>2, TraverseAssumption DEF WalkTypeOK
<1>4. \A p : Awaited(p)' <=> Awaited(p)
  BY <1>1 DEF Awaited
<1>5. Stacked' /\ Fresh' /\ LeftInside' /\ InOrder' /\ NoneTooMany'
  BY <1>1, <1>3, <1>4 DEF TraverseInv, Stacked, Fresh, LeftInside, InOrder, NoneTooMany
<1>6. Entered'
  BY <1>1, <1>3 DEF TraverseInv, Entered, OnWay
<1>7. ASSUME NEW p \in Seq(Nodes) \ {<< >>}, StayedPut(p)'
      PROVE  StayedPut(p) /\ Resolve(p)' = Resolve(p) /\ (Directory(p)' <=> Directory(p))
  <2>1. \A k \in DOMAIN p : /\ p[k] \in steady /\ p[k] # n
                            /\ Behind(p[k]) \in steady \cup {Top} /\ Behind(p[k]) # n
    <3>1. n # Top
      BY TraverseAssumption DEF Top
    <3> QED
      BY <1>1, <1>7, <3>1 DEF StayedPut
  <2>2. StayedPut(p)
    BY <2>1 DEF StayedPut
  <2>3. Resolve(p)' = Resolve(p)
    <3>1. Len(p) \in DOMAIN p /\ DOMAIN p = 1 .. Len(p) /\ EndOf(p) = p[Len(p)]
      BY EmptySeq, LenProperties DEF EndOf, Last
    <3>2. \A k \in 1 .. Len(p) : dir'[p[k]] = dir[p[k]]
      BY <1>1, <1>3, <2>1, <3>1
    <3>3. Behind(EndOf(p)) \in Nodes => dir'[Behind(EndOf(p))] = dir[Behind(EndOf(p))]
      BY <1>1, <2>1, <3>1
    <3> QED
      BY <1>1, <3>2, <3>3, ResolveSame
  <2> QED
    BY <1>1, <2>2, <2>3 DEF Directory
<1>8. Complete'
  <2> SUFFICES ASSUME NEW p \in Seq(Nodes) \ {<< >>}, Owed(p)', Wanted(p)', StayedPut(p)'
      PROVE  Owed(p) /\ Wanted(p) /\ StayedPut(p)
    BY <1>1, <1>4 DEF TraverseInv, Complete
  <2>1. Wanted(p) /\ StayedPut(p)
    BY <1>1, <1>7 DEF Wanted
  <2>2. ASSUME NEW k \in DOMAIN p
        PROVE  dir[p[k]] = Behind(IF k = 1 THEN start ELSE p[k - 1])
    <3>1. dir'[p[k]] = Behind(IF k = 1 THEN start ELSE p[k - 1])
      BY <1>1 DEF Owed
    <3>2. p[k] \in Nodes /\ p[k] # n
      BY <1>1, <1>3 DEF StayedPut
    <3> QED
      BY <1>1, <3>1, <3>2
  <2>3. ASSUME NEW k \in 1 .. Len(p) - 1
        PROVE  Descends(Upper(p, k)) /\ Upper(p, k) \notin skipped
    <3>1. Descends(Upper(p, k))' /\ Upper(p, k) \notin skipped
      BY <1>1 DEF Owed
    <3>2. k \in 1 .. Len(p)
      OBVIOUS
    <3>3. /\ Upper(p, k) \in Seq(Nodes) /\ Len(Upper(p, k)) = k
          /\ \A i \in 1 .. k : Upper(p, k)[i] = p[i]
      BY <3>2, UpperIsPath
    <3>4. StayedPut(Upper(p, k))'
      <4>1. DOMAIN Upper(p, k) = 1 .. k /\ \A i \in 1 .. k : i \in DOMAIN p
        BY <3>2, <3>3, LenProperties
      <4> QED
        BY <3>3, <4>1 DEF StayedPut
    <3>5. Directory(Upper(p, k))' <=> Directory(Upper(p, k))
      <4>1. Upper(p, k) # << >>
        BY <3>2, <3>3, EmptySeq
      <4> QED
        BY <1>7, <3>3, <3>4, <4>1
    <3> QED
      BY <1>1, <3>1, <3>5 DEF Descends
  <2> QED
    BY <1>1, <2>1, <2>2, <2>3 DEF Owed
<1> QED
  BY <1>2, <1>5, <1>6, <1>8 DEF TraverseInv

\* It is only the return from the first directory that is told as such.
LEMMA EndTraverse == ReadToTheEnd /\ [WalkNext]_walkVars => ReadToTheEnd'
<1> SUFFICES ASSUME ReadToTheEnd, [WalkNext]_walkVars PROVE ReadToTheEnd'
  OBVIOUS
<1> USE DEF ReadToTheEnd
<1>1. CASE UNCHANGED walkVars
  BY <1>1 DEF walkVars, walkState
<1>2. CASE Start \/ OpenDirectory \/ IncrementThrows
  BY <1>2 DEF Start, OpenDirectory, IncrementThrows, Returns
<1>3. CASE LeaveDirectory
  BY <1>3 DEF LeaveDirectory, Returns
<1>4. ASSUME NEW n \in Nodes, VisitEntry(n) PROVE told' # "ok"
  <2>1. told' \in {told, "errno", "stopped"} /\ wpc = "entries"
    BY <1>4 DEF VisitEntry, Returns
  <2> QED
    BY <2>1
<1>5. CASE WalkOthers
  BY <1>5 DEF WalkOthers, OthersChange, walkState
<1> QED
  BY <1>1, <1>2, <1>3, <1>4, <1>5 DEF WalkNext, WalkStep

\* Any step of the traversal or of another program.
LEMMA NextTraverse == TraverseInv /\ [WalkNext]_walkVars => TraverseInv'
<1> SUFFICES ASSUME TraverseInv, [WalkNext]_walkVars PROVE TraverseInv'
  OBVIOUS
<1>1. CASE UNCHANGED walkVars
  <2>1. UNCHANGED <<dir, options, start, wpc, frames, here, called, skipped, told, changes, steady>>
    BY <1>1 DEF walkVars, walkState
  <2>2. WalkTypeOK' /\ Stacked' /\ LeftInside' /\ InOrder'
    <3>1. WalkTypeOK'
      BY <2>1 DEF TraverseInv, WalkTypeOK
    <3>2. Stacked' /\ LeftInside'
      BY <2>1 DEF TraverseInv, Stacked, LeftInside, EndOf
    <3>3. InOrder'
      BY <2>1 DEF TraverseInv, InOrder
    <3> QED
      BY <3>1, <3>2, <3>3
  <2>3. Fresh' /\ Complete'
    BY <2>1, SameTree DEF TraverseInv, Fresh, Awaited, Complete, StayedPut
  <2>4. OnWay' = OnWay
    BY <2>1 DEF OnWay
  <2>5. Entered' /\ NoneTooMany'
    BY <2>1, <2>4, SameTree DEF TraverseInv, Entered, NoneTooMany
  <2> QED
    BY <2>2, <2>3, <2>5 DEF TraverseInv
<1> QED
  BY <1>1, StartTraverse, OpenTraverse, VisitTraverse, LeaveTraverse, ThrowTraverse, OthersTraverse
  DEF WalkNext, WalkStep

\* A traversal that was read to its end has all there is.
LEMMA TraverseInvImplies == TraverseInv /\ ReadToTheEnd => WalkedWhole
<1> SUFFICES ASSUME TraverseInv, wpc = "done", told = "ok", frames = << >>,
                    NEW p \in Paths, Owed(p), Wanted(p), StayedPut(p)
             PROVE  p \in Range(called)
  BY DEF TraverseInv, ReadToTheEnd, WalkedWhole, NoneLeftOut
<1>1. p \in Seq(Nodes) \ {<< >>}
  <2>1. PICK k \in 1 .. MaxPath : p \in [1 .. k -> Nodes]
    BY DEF Paths
  <2>2. p \in Seq(Nodes)
    BY <2>1, TraverseAssumption, SeqDef
  <2>3. 1 \in DOMAIN p
    BY <2>1, TraverseAssumption
  <2> QED
    BY <2>2, <2>3
<1>2. ~Awaited(p)
  BY DEF Awaited
<1> QED
  BY <1>1, <1>2 DEF TraverseInv, Complete

-----------------------------------------------------------------------------
(* The calls together.                                                     *)

FilesInv == OpsInv /\ TraverseInv /\ ReadToTheEnd /\ ExecuteInv

\* A step of one part leaves the others alone.
LEMMA PartsStep == [Next]_vars => [OpsNext]_opsVars /\ [WalkNext]_walkVars /\ [ExecuteNext]_executeVars
<1> SUFFICES ASSUME [Next]_vars
    PROVE  [OpsNext]_opsVars /\ [WalkNext]_walkVars /\ [ExecuteNext]_executeVars
  OBVIOUS
<1>1. CASE UNCHANGED vars
  BY <1>1 DEF vars
<1>2. CASE OthersStep
  BY <1>2 DEF OthersStep, OpsNext, WalkNext, ExecuteNext
<1>3. ASSUME NEW c \in Callers, OpsStep(c)
      PROVE  [OpsNext]_opsVars /\ [WalkNext]_walkVars /\ [ExecuteNext]_executeVars
  BY <1>3 DEF OpsStep, OpsNext
<1>4. CASE TraverseStep
  BY <1>4 DEF TraverseStep, WalkNext
<1>5. CASE RunStep
  BY <1>5 DEF RunStep, ExecuteNext
<1> QED
  BY <1>1, <1>2, <1>3, <1>4, <1>5 DEF Next

\* The invariants of the parts hold together.
THEOREM FilesInvariant == Spec => []FilesInv
<1>1. Init => FilesInv
  <2>1. WalkInit => ReadToTheEnd
    BY DEF WalkInit, ReadToTheEnd
  <2> QED
    BY <2>1, InitOps, InitTraverse, InitExecute DEF Init, FilesInv
<1>2. FilesInv /\ [Next]_vars => FilesInv'
  BY PartsStep, NextOps, NextTraverse, EndTraverse, NextExecute DEF FilesInv
<1> QED
  BY <1>1, <1>2, PTL DEF Spec

\* However many move, copy and make temporaries at once, and wherever one of
\* them is killed: no line is lost or doubled that nobody else has taken, and
\* what a call says is what it has done (filesystem_operations.cpp:157-372).
THEOREM LinesKept == Spec => []MovesKeepLines
<1>1. FilesInv => MovesKeepLines
  BY OpsInvImplies DEF FilesInv
<1> QED
  BY <1>1, FilesInvariant, PTL

\* No two calls ever own the same temporary, and every variable keeps its type
\* (filesystem_operations.cpp:301-372).
THEOREM TemporariesKept == Spec => []TemporariesOwned
<1>1. FilesInv => TemporariesOwned
  BY OpsInvImplies DEF FilesInv, OpsInv, TraverseInv, ExecuteInv, TemporariesOwned, TypeOK
<1> QED
  BY <1>1, FilesInvariant, PTL

\* traverseDirectory calls for everything that stayed within reach, whatever
\* trees, links, limits and changes there are; for nothing twice, and for a
\* directory before what is in it (filesystem_operations.cpp:51-154).
THEOREM TraversalComplete == Spec => []WalkedWhole
<1>1. FilesInv => WalkedWhole
  BY TraverseInvImplies DEF FilesInv
<1> QED
  BY <1>1, FilesInvariant, PTL

\* executeCommand has all the output of the command when it succeeds, and all
\* the errors if their file was not taken away (system.cpp:66-119).
THEOREM OutputHeard == Spec => []CommandHeard
<1>1. FilesInv => CommandHeard
  BY DEF FilesInv, ExecuteInv
<1> QED
  BY <1>1, FilesInvariant, PTL

-----------------------------------------------------------------------------
(***************************************************************************)
(* Why the operations come back.  Each call goes through its system calls  *)
(* in one direction; only the drawing of names is repeated, each time      *)
(* counted.  So a caller takes 12 steps and Retries more at most, and no   *)
(* other caller or program gives it more to do.                            *)
(***************************************************************************)
StepsLeft(c) ==
  CASE step[c] = "idle" -> 12
    [] step[c] = "mkdir" -> 11
    [] step[c] = "look" -> 10
    [] step[c] = "rename" -> 9
    [] step[c] = "regular" -> 8
    [] step[c] = "mkdirAgain" -> 7
    [] step[c] = "lookAgain" -> 6
    [] step[c] = "open" -> 5
    [] step[c] = "data" -> 4
    [] step[c] = "exists" -> 3
    [] step[c] \in {"unlink", "tempDir"} -> 2
    [] step[c] = "draw" -> 1
    [] OTHER -> 0

CallGoesOn(c) ==
  \/ StepsLeft(c)' < StepsLeft(c) /\ tries'[c] = tries[c]
  \/ StepsLeft(c)' = StepsLeft(c) /\ tries[c] < tries'[c] /\ tries'[c] <= Retries

OwnPace ==
  \A c \in Callers :
    IF Begin(c) \/ CallStep(c) \/ Killed(c) THEN CallGoesOn(c)
    ELSE UNCHANGED <<step[c], tries[c]>>

\* A step of a caller takes it on, and leaves every other where it is.
LEMMA CallerGoesOn ==
  ASSUME OpsTypeOK, NEW c \in Callers, Begin(c) \/ CallStep(c) \/ Killed(c)
  PROVE  CallGoesOn(c) /\ \A d \in Callers \ {c} : UNCHANGED <<step[d], tries[d]>>
<1>1. step \in [Callers -> CallSteps] /\ tries \in [Callers -> 0 .. Retries] /\ Retries \in Nat
  BY FileOpsAssumption DEF OpsTypeOK
<1>2. CASE DrawName(c) /\ step' = step
  <2>1. /\ step[c] = "draw" /\ tries[c] # Retries
        /\ tries' = [tries EXCEPT ![c] = tries[c] + 1]
    BY <1>1, <1>2 DEF DrawName, Ends
  <2> QED
    BY <1>1, <1>2, <2>1 DEF CallGoesOn, StepsLeft
<1>3. CASE ~(DrawName(c) /\ step' = step)
  <2>1. tries' = tries
    BY <1>3 DEF Begin, Killed, CallStep, MakeParent, LookForParent, Rename, CheckRegular, OpenBoth,
       CopyData, CheckSource, Unlink, CheckTempDirectory, DrawName, Rests
  <2>2. ASSUME NEW s, step' = [step EXCEPT ![c] = s]
        PROVE  step'[c] = s /\ \A d \in Callers \ {c} : step'[d] = step[d]
    BY <1>1, <2>2
  <2>3. \A s, r : /\ Goto(c, s) => step' = [step EXCEPT ![c] = s]
                  /\ Ends(c, r) => step' = [step EXCEPT ![c] = "done"]
    BY DEF Goto, Ends
  <2>4. /\ \A d \in Callers \ {c} : step'[d] = step[d]
        /\ StepsLeft(c)' < StepsLeft(c)
    <3>1. CASE Begin(c)
      <4>1. /\ step[c] = "idle"
            /\ Goto(c, "mkdir") \/ Goto(c, "regular") \/ Goto(c, "tempDir")
        <5>1. /\ step[c] = "idle"
              /\ Goto(c, CASE job[c] = "move" -> "mkdir" [] job[c] = "copy" -> "regular"
                           [] OTHER -> "tempDir")
          BY <3>1 DEF Begin
        <5> QED
          BY <5>1
      <4> QED
        BY <2>2, <2>3, <4>1 DEF StepsLeft
    <3>2. CASE Killed(c)
      <4>1. step[c] \in CallSteps \ {"idle", "done", "dead"} /\ Goto(c, "dead")
        BY <1>1, <3>2 DEF Killed
      <4> QED
        BY <2>2, <2>3, <4>1 DEF StepsLeft, CallSteps
    <3>3. CASE MakeParent(c)
      <4>1. \/ step[c] = "mkdir" /\ (Goto(c, "rename") \/ Goto(c, "look"))
            \/ step[c] = "mkdirAgain" /\ (Goto(c, "open") \/ Goto(c, "lookAgain"))
        BY <1>1, <3>3 DEF MakeParent, BehindParent
      <4> QED
        BY <2>2, <2>3, <4>1 DEF StepsLeft
    <3>4. CASE LookForParent(c)
      <4>1. \/ step[c] = "look" /\ (Goto(c, "rename") \/ \E r : Ends(c, r))
            \/ step[c] = "lookAgain" /\ (Goto(c, "open") \/ \E r : Ends(c, r))
        BY <1>1, <3>4 DEF LookForParent, BehindParent
      <4> QED
        BY <2>2, <2>3, <4>1 DEF StepsLeft
    <3>5. CASE Rename(c)
      <4>1. step[c] = "rename" /\ (Goto(c, "regular") \/ \E r : Ends(c, r))
        BY <1>1, <3>5 DEF Rename
      <4> QED
        BY <2>2, <2>3, <4>1 DEF StepsLeft
    <3>6. CASE CheckRegular(c)
      <4>1. step[c] = "regular" /\ (Goto(c, "mkdirAgain") \/ \E r : Ends(c, r))
        BY <1>1, <3>6 DEF CheckRegular
      <4> QED
        BY <2>2, <2>3, <4>1 DEF StepsLeft
    <3>7. CASE OpenBoth(c)
      <4>1. step[c] = "open" /\ (Goto(c, "data") \/ \E r : Ends(c, r))
        BY <1>1, <3>7 DEF OpenBoth
      <4> QED
        BY <2>2, <2>3, <4>1 DEF StepsLeft
    <3>8. CASE CopyData(c)
      <4>1. step[c] = "data" /\ (Goto(c, "exists") \/ \E r : Ends(c, r))
        BY <1>1, <3>8 DEF CopyData
      <4> QED
        BY <2>2, <2>3, <4>1 DEF StepsLeft
    <3>9. CASE CheckSource(c)
      <4>1. step[c] = "exists" /\ (Goto(c, "unlink") \/ \E r : Ends(c, r))
        BY <1>1, <3>9 DEF CheckSource
      <4> QED
        BY <2>2, <2>3, <4>1 DEF StepsLeft
    <3>10. CASE Unlink(c)
      <4>1. step[c] = "unlink" /\ \E r : Ends(c, r)
        BY <1>1, <3>10 DEF Unlink
      <4> QED
        BY <2>2, <2>3, <4>1 DEF StepsLeft
    <3>11. CASE CheckTempDirectory(c)
      <4>1. step[c] = "tempDir" /\ (Goto(c, "draw") \/ \E r : Ends(c, r))
        BY <1>1, <3>11 DEF CheckTempDirectory
      <4> QED
        BY <2>2, <2>3, <4>1 DEF StepsLeft
    <3>12. CASE DrawName(c)
      <4>1. step[c] = "draw" /\ \E r : Ends(c, r)
        BY <1>1, <1>3, <3>12 DEF DrawName
      <4> QED
        BY <2>2, <2>3, <4>1 DEF StepsLeft
    <3> QED
      BY <3>1, <3>2, <3>3, <3>4, <3>5, <3>6, <3>7, <3>8, <3>9, <3>10, <3>11, <3>12 DEF CallStep
  <2> QED
    BY <2>1, <2>4 DEF CallGoesOn
<1> QED
  BY <1>2, <1>3

\* No call of the file operations is kept going by others: not by a parent
\* directory that comes and goes, nor by names that are always taken
\* (filesystem_operations.cpp:157-413).
THEOREM RetriesBounded == Spec => [][OwnPace]_opsVars
<1>1. ASSUME OpsTypeOK, [OpsNext]_opsVars PROVE [OwnPace]_opsVars
  <2>1. ASSUME NEW c \in Callers, Begin(c) \/ CallStep(c) \/ Killed(c) PROVE CallGoesOn(c)
    BY <1>1, <2>1, CallerGoesOn
  <2>2. ASSUME NEW c \in Callers, ~(Begin(c) \/ CallStep(c) \/ Killed(c))
        PROVE  UNCHANGED <<step[c], tries[c]>>
    <3>1. CASE OthersAct
      BY <3>1 DEF OthersAct, Appends, RemovesSource, ParentChanges, TakesName, FreesName, callVars
    <3>2. ASSUME NEW d \in Callers, Begin(d) \/ CallStep(d) \/ Killed(d)
          PROVE  UNCHANGED <<step[c], tries[c]>>
      <4>1. c # d
        BY <2>2, <3>2
      <4> QED
        BY <1>1, <3>2, <4>1, CallerGoesOn
    <3>3. CASE UNCHANGED opsVars
      BY <3>3 DEF opsVars, callVars
    <3> QED
      BY <1>1, <3>1, <3>2, <3>3 DEF OpsNext
  <2> QED
    BY <2>1, <2>2 DEF OwnPace
<1>2. FilesInv => OpsTypeOK
  BY DEF FilesInv, OpsInv
<1>3. [Next]_vars => [OpsNext]_opsVars
  BY PartsStep
<1> QED
  BY <1>1, <1>2, <1>3, FilesInvariant, PTL DEF Spec
=============================================================================
