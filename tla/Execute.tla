------------------------------ MODULE Execute ------------------------------
(***************************************************************************)
(* executeCommand (utils/system.cpp:43-122): a shell behind a pipe for its *)
(* output, and a temporary file for its errors, which is read when the     *)
(* shell has ended.  The shell may leave a process behind it that has both *)
(* still open.                                                             *)
(*                                                                         *)
(* A text is the number of its units; the pipe keeps them in order.        *)
(***************************************************************************)
EXTENDS Integers

CONSTANTS
  BufferSize,   \* 4096, in units
  PipeSize,     \* what the kernel's pipe holds
  MaxOutput     \* bound: the units a command writes, to its output and to its errors

ASSUME ExecuteAssumption ==
  /\ BufferSize \in Nat \ {0}
  /\ PipeSize \in Nat \ {0}
  /\ MaxOutput \in Nat

VARIABLES
  xpc,        \* the next step of the call
  answer,     \* "none", "ok", "error" or "thrown"
  stdoutStr, stderrStr,
  buffer,     \* units read into the buffer by the fread under way
  shell,      \* kernel: "none", "redirect", "runs" or "ended"
  late,       \* kernel: the shell's background process, "none", "runs" or "ended"
  writers,    \* kernel: which of the two have the pipe open
  owes,       \* kernel: the units each of the two has still to write to it
  pipe,       \* kernel: units in the pipe
  file,       \* kernel: whether the file for errors has its name
  errors,     \* kernel: units in it
  printed,    \* history: all units written to the pipe
  complaints, \* history: those written to the file when the shell ended
  lost        \* history: whether another program removed that file

Writers == {"shell", "late"}
callState == <<xpc, answer, stdoutStr, stderrStr, buffer>>
commandState == <<shell, late, writers, owes, pipe, errors, printed, complaints, lost>>
executeVars == <<callState, commandState, file>>

ExecuteTypeOK ==
  /\ xpc \in {"off", "tempDir", "mkstemp", "popen", "read", "pclose", "open", "readErrors",
              "unlink", "done"}
  /\ answer \in {"none", "ok", "error", "thrown"}
  /\ {stdoutStr, stderrStr, errors, printed, complaints} \subseteq 0 .. MaxOutput
  /\ buffer \in 0 .. BufferSize
  /\ shell \in {"none", "redirect", "runs", "ended"}
  /\ late \in {"none", "runs", "ended"}
  /\ writers \subseteq Writers
  /\ owes \in [Writers -> 0 .. MaxOutput]
  /\ pipe \in 0 .. PipeSize
  /\ file \in BOOLEAN /\ lost \in BOOLEAN

ExecuteInit ==
  /\ xpc \in {"off", "tempDir"}
  /\ answer = "none"
  /\ stdoutStr = 0 /\ stderrStr = 0 /\ buffer = 0
  /\ shell = "none" /\ late = "none" /\ writers = {} /\ owes = [p \in Writers |-> 0]
  /\ pipe = 0 /\ file = FALSE /\ errors = 0
  /\ printed = 0 /\ complaints = 0 /\ lost = FALSE

-----------------------------------------------------------------------------
\* The command.

\* The shell opens the file before it starts the command, be it that it has
\* to make it again; without it there is no command.  What a command is going
\* to write is its own affair.
Redirect ==
  /\ shell = "redirect"
  /\ \/ /\ shell' = "runs" /\ file' = TRUE
        /\ \E n \in 0 .. MaxOutput : owes' = [owes EXCEPT !["shell"] = n]
        /\ UNCHANGED writers
     \/ shell' = "ended" /\ writers' = {} /\ UNCHANGED <<owes, file>>
  /\ errors' = 0
  /\ UNCHANGED <<late, pipe, printed, complaints, lost, callState>>

Runs(p) == (p = "shell" /\ shell = "runs") \/ (p = "late" /\ late = "runs")

\* Writing waits for room in the pipe.
Prints(p) ==
  /\ Runs(p) /\ p \in writers
  /\ owes[p] > 0 /\ pipe < PipeSize
  /\ owes' = [owes EXCEPT ![p] = @ - 1]
  /\ pipe' = pipe + 1
  /\ printed' = printed + 1
  /\ UNCHANGED <<shell, late, writers, errors, complaints, lost, file, callState>>

Complains(p) ==
  /\ Runs(p)
  /\ errors < MaxOutput
  /\ errors' = errors + 1
  /\ UNCHANGED <<shell, late, writers, owes, pipe, printed, complaints, lost, file, callState>>

\* A process in the background, with the shell's output or another one.
StartsLate ==
  /\ shell = "runs" /\ late = "none"
  /\ late' = "runs"
  /\ \/ /\ "shell" \in writers /\ writers' = writers \cup {"late"}
        /\ \E n \in 0 .. MaxOutput :
             /\ printed + owes["shell"] + n <= MaxOutput
             /\ owes' = [owes EXCEPT !["late"] = n]
     \/ UNCHANGED <<writers, owes>>
  /\ UNCHANGED <<shell, pipe, errors, printed, complaints, lost, file, callState>>

\* exec >&-, when all is written.
ClosesOutput(p) ==
  /\ Runs(p) /\ p \in writers
  /\ owes[p] = 0
  /\ writers' = writers \ {p}
  /\ UNCHANGED <<shell, late, owes, pipe, errors, printed, complaints, lost, file, callState>>

\* The end of a process, killed by another with output still to write or not.
Exits(p) ==
  /\ Runs(p)
  /\ writers' = writers \ {p}
  /\ owes' = [owes EXCEPT ![p] = 0]
  /\ IF p = "shell" THEN shell' = "ended" /\ complaints' = errors /\ UNCHANGED late
     ELSE late' = "ended" /\ UNCHANGED <<shell, complaints>>
  /\ UNCHANGED <<pipe, errors, printed, lost, file, callState>>

\* Its end of itself: a write that waits for room keeps it.
Finishes(p) == owes[p] = 0 /\ Exits(p)

CommandStep ==
  \/ Redirect \/ StartsLate
  \/ \E p \in Writers : Prints(p) \/ Complains(p) \/ ClosesOutput(p) \/ Exits(p)

\* Another program clears the temporary directory.  The shell makes a file
\* anew that was removed before it came to it.
ClearsDirectory ==
  /\ file /\ xpc # "done"
  /\ file' = FALSE
  /\ lost' = (shell # "none" /\ shell # "redirect")
  /\ UNCHANGED <<shell, late, writers, owes, pipe, errors, printed, complaints, callState>>

-----------------------------------------------------------------------------
\* The call.

\* A command that is empty or holds a NUL is refused; temp_directory_path
\* without an error_code throws.
FindDirectory ==
  /\ xpc = "tempDir"
  /\ \/ xpc' = "mkstemp" /\ UNCHANGED answer
     \/ xpc' = "done" /\ answer' \in {"error", "thrown"}
  /\ UNCHANGED <<stdoutStr, stderrStr, buffer, commandState, file>>

MakeFile ==
  /\ xpc = "mkstemp"
  /\ \/ xpc' = "popen" /\ file' = TRUE /\ UNCHANGED answer
     \/ xpc' = "done" /\ answer' = "error" /\ UNCHANGED file
  /\ UNCHANGED <<stdoutStr, stderrStr, buffer, commandState>>

\* Without a shell the file is removed at once.
OpenPipe ==
  /\ xpc = "popen"
  /\ \/ /\ xpc' = "read" /\ shell' = "redirect" /\ writers' = {"shell"}
        /\ UNCHANGED <<answer, file>>
     \/ /\ xpc' = "done" /\ answer' = "error" /\ file' = FALSE
        /\ UNCHANGED <<shell, writers>>
  /\ UNCHANGED <<stdoutStr, stderrStr, buffer, late, owes, pipe, errors, printed, complaints, lost>>

\* Mutant: what is in the pipe is taken for the whole buffer there will be,
\* as read(2) would give it.
ReadOutputShort ==
  /\ xpc = "read"
  /\ \/ /\ pipe > 0 /\ buffer < BufferSize
        /\ pipe' = pipe - 1 /\ buffer' = buffer + 1
        /\ UNCHANGED <<xpc, stdoutStr>>
     \/ /\ buffer = BufferSize \/ (pipe = 0 /\ (buffer > 0 \/ writers = {}))
        /\ stdoutStr' = stdoutStr + buffer /\ buffer' = 0
        /\ xpc' = IF buffer < BufferSize THEN "pclose" ELSE "read"
        /\ UNCHANGED pipe
  /\ UNCHANGED <<answer, stderrStr, shell, late, writers, owes, errors, printed, complaints, lost,
                 file>>

\* Mutant: the call waits for the shell before it reads what it wrote.
ReadOutputLast ==
  /\ xpc = "read"
  /\ shell = "ended"
  /\ \/ /\ pipe > 0 /\ buffer < BufferSize
        /\ pipe' = pipe - 1 /\ buffer' = buffer + 1
        /\ UNCHANGED <<xpc, stdoutStr>>
     \/ /\ buffer = BufferSize \/ (pipe = 0 /\ writers = {})
        /\ stdoutStr' = stdoutStr + buffer /\ buffer' = 0
        /\ xpc' = IF buffer < BufferSize THEN "pclose" ELSE "read"
        /\ UNCHANGED pipe
  /\ UNCHANGED <<answer, stderrStr, shell, late, writers, owes, errors, printed, complaints, lost,
                 file>>

\* fread comes back with a whole buffer, or with less when nobody has the
\* pipe open any more; that is the end of the loop.
ReadOutput ==
  /\ xpc = "read"
  /\ \/ /\ pipe > 0 /\ buffer < BufferSize
        /\ pipe' = pipe - 1 /\ buffer' = buffer + 1
        /\ UNCHANGED <<xpc, stdoutStr>>
     \/ /\ buffer = BufferSize \/ (pipe = 0 /\ writers = {})
        /\ stdoutStr' = stdoutStr + buffer /\ buffer' = 0
        /\ xpc' = IF buffer < BufferSize THEN "pclose" ELSE "read"
        /\ UNCHANGED pipe
  /\ UNCHANGED <<answer, stderrStr, shell, late, writers, owes, errors, printed, complaints, lost,
                 file>>

\* pclose waits for the shell, and for nobody else.
WaitForShell ==
  /\ xpc = "pclose"
  /\ shell = "ended"
  /\ xpc' = "open"
  /\ UNCHANGED <<answer, stdoutStr, stderrStr, buffer, commandState, file>>

\* A file that cannot be opened has nothing to say.
OpenErrors ==
  /\ xpc = "open"
  /\ xpc' = IF file THEN "readErrors" ELSE "unlink"
  /\ UNCHANGED <<answer, stdoutStr, stderrStr, buffer, commandState, file>>

\* The loop again; the file ends where it ends by now.
ReadErrors ==
  /\ xpc = "readErrors"
  /\ LET n == IF errors - stderrStr < BufferSize THEN errors - stderrStr ELSE BufferSize IN
     /\ stderrStr' = stderrStr + n
     /\ xpc' = IF n < BufferSize THEN "unlink" ELSE "readErrors"
  /\ UNCHANGED <<answer, stdoutStr, buffer, commandState, file>>

RemoveFile ==
  /\ xpc = "unlink"
  /\ xpc' = "done" /\ answer' = "ok" /\ file' = FALSE
  /\ UNCHANGED <<stdoutStr, stderrStr, buffer, commandState>>

ExecuteStep ==
  \/ FindDirectory \/ MakeFile \/ OpenPipe \/ ReadOutput \/ WaitForShell
  \/ OpenErrors \/ ReadErrors \/ RemoveFile

-----------------------------------------------------------------------------
(* Properties *)

\* A command is heard to the end: its answer comes when the shell has ended
\* and holds everything it and the processes it left behind wrote to the
\* pipe, in as many pieces as they liked, and at least the errors written
\* before the shell ended, unless another program took the file away; and
\* whatever the answer is, the call leaves no file behind
\* (utils/system.cpp:66-119).
CommandHeard ==
  xpc = "done" =>
    /\ ~file
    /\ answer = "ok" =>
         /\ shell = "ended"
         /\ stdoutStr = printed
         /\ stderrStr <= errors
         /\ lost \/ complaints <= stderrStr
=============================================================================
