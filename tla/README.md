# processAnalyzer in TLA+

processAnalyzer is a C++23 library and a command line tool that reads `/proc`:
it lists and inspects processes, samples rates, prints reports, and signals,
renices and pins processes. It keeps no state of its own between calls. What is
hard about it is not its state but everybody else's: **every call is a sequence
of reads of a table that the kernel changes between any two of them**. PIDs come back as other processes, orphans get another
parent, sockets close, devices and CPUs come and go, counters wrap. The second source of
difficulty is the system report, which samples on five threads at once, and the third is
the file system, which the library's own operations change in several system calls each.

The modules here model that: the calls read by read, the kernel in between, and
what a caller can still rely on.

Paths below are relative to the repository (`src/` is its source directory).

## 1. Inventory

| Component | Source | State | Operations | What makes it correct |
|---|---|---|---|---|
| Process listing and queries | `src/analyzer/base.cpp`, `query.cpp`, `internal/filter_helpers.cpp` | the PIDs not yet read, the rows so far | `getPids`, `snapshot`, `streamPids`, `streamProcesses`, `queryProcesses`, `streamQueryProcesses`, `getChildProcesses`, `getParentProcess` | no PID twice, no survivor lost, one failed read skips one PID, every call returns |
| Process details | `src/analyzer/details.cpp`, `internal/helpers.cpp`, `src/utils/file.cpp` | the `ProcessInfo` being filled | `getProcessDetails`; threads, open files, environment, limits, cgroups, maps | stat must be read, the rest may fail; parts may be of a younger process than stat, never of an older one |
| Descendant walk | `base.cpp:129-159` | stack, visited list, rows | `getAllDescendantProcesses` | rows linked to the root, no process twice but by adoption, the family that stays complete, exact when nothing changes, ends on parent cycles |
| Process forest | `src/cli/output.cpp:239-292` | visited set, indentation | `printProcessForest`, `printForestNode` | every row once, below its parent |
| System rate samplers | `src/analyzer/system.cpp`, `network.cpp:234-313` | the first read | CPU, per core, activity, disk, interface rates | rows paired with their own device, right across a wrap |
| System facts | `system.cpp:58-148, 321-425` | none | boot time, memory, load, disks, host | – |
| Process usage sampling | `src/analyzer/performance.cpp:125-237` | the first read | CPU and I/O usage of one or all processes | usage of one and the same process |
| Process control | `src/analyzer/control.cpp`, `performance.cpp:39-122`, `main.cpp:37-92` | none | `sendSignal`, `setProcessPriority`, `setProcessCpuAffinity` | one process, and an answer that is true |
| System report | `src/main.cpp:134-478` | five futures, the stream's format | `system`, `--watch`, `--format json` | no thread left behind, every sample shown, one window |
| Top ranking | `main.cpp:491-670` | the ranking | `top`, `--watch` | ranking, filter and name of one process |
| Process inspection | `main.cpp:679-922`, `details.cpp:291-550` | the sections still to print | `pid`, `show`, their eleven flags | every section asked for is answered, in order, and the report never goes back to an earlier process |
| Network connections | `network.cpp:126-232` | inodes of the process | `getNetworkConnections` | the connections of the process asked about, all of them and no other's |
| Command line | `src/cli/args.cpp` | the position on the line, the arguments so far | `parseCommandLine`, `hasStaticProcessFilter` | what is accepted can be carried out, and is what was typed |
| Output formats, summary | `src/cli/output.cpp`, `summary.cpp` | none | table, CSV, JSON, NDJSON, vertical; summary | – |
| File system operations | `src/utils/filesystem_operations.cpp` | the file system; the traversal's iterators | move, copy, create, remove, temporary files, traversal | no line lost, a temporary has one owner, a traversal that says so is complete, the calls end |
| Child processes | `src/utils/system.cpp:43-122` | a pipe, a temporary file | `executeCommand` | the whole output, the errors, and an end |
| Strings, time, environment | `src/utils/*.cpp` | none | split, join, parse, format; `getEnv`, `setEnv` | – |

**Interaction.** `main` parses the command line, builds one `ProcessAnalyzer`
and calls it; the analyzer's calls use one another (a listing calls
`getProcessDetails` per PID, the walk calls `getChildProcesses` per PID, which
lists again) and return values or error codes; one of them, `getProcessThreads`,
may also throw. What a listing or the details of one process return goes to the printer
of the format, which for `tree` rebuilds the forest.
The only threads are those of the `system` command: five `std::async` tasks per
frame, each a sampler that sleeps, all of them over one `const` analyzer. The
generators (`streamProcesses`, `streamQueryProcesses`) hand control to their
consumer at every row, and a consumer may drop them there. All other state is
shared with the kernel.

**Hard behaviours.** Exit, reaping and PID reuse between any two reads;
adoption, by init or by a subreaper, in the middle of a tree walk; a directory that can be listed
but not opened, and files readable to different degrees; generators dropped
half way; devices that come, go and come back between two samples, and counters
that wrap; tasks that end in any order, fail or throw; Ctrl-C; a check that is
no longer true when the system call it guards is made; a program killed between
copying a file and removing the original; entries moved while they are traversed.

## 2. Modules

Each component has one module; its variables carry the names of the code's
where there are any. `PROJECT.json` maps every definition to the lines it
stands for. A definition whose comment begins with "Mutant:" is not part of the
model: it is a plausible bug in the definition below it, and shows that the
property it is paired with can fail.

| Module | Models | Notes |
|---|---|---|
| `ProcTable` | the kernel's process table (not code of the repository) | a process is a PID and a birth; `Fork` may give out any free PID, `Exit` hands children to the nearest subreaper above, or to init (any process above in `Subreapers` may be the nearest: a process sets and clears `PR_SET_CHILD_SUBREAPER` when it likes); `lived`, `settled` and `views` are history variables: who has lived since the running call began, who of them has not been adopted since, and which sets of processes were alive together |
| `Details` | `getProcessDetails` as eight separate reads | a row records for each of its parts the birth of the process the part was read from, 0 for a default value; this is what makes mixed rows visible |
| `Collect` | all listing calls on top of `Details` | one action per step of the code: two checks of the parent, failure of the listing, an entry, the end of the listing, next PID, take a row, connections, sort and return, consumer stops |
| `Observation` | what a listing promises, abstractly | the specification that `Collect` implements (`ImplementsObservation`) |
| `Descendants` | `getAllDescendantProcesses` with the `getChildProcesses` calls it makes, and `getParentProcess` | `/proc` is listed entry by entry; a details call is reduced to its stat read; the tree changes between any two |
| `Forest` | `printProcessForest` | the recursion is an agenda of calls still to make |
| `Inspect` | `show` and `pid`: the details (through `Details`), then a call per section; threads, open files, sockets, and the files each section reads | what a section says is the set of births it was read from; sockets have inodes, holders, a table, and another number on their line |
| `Display` | `list`, `name`, `user`, `show`, `pid` up to the printed lines: **composes `Inspect` and `Forest`** (`Tree == INSTANCE Forest`) | the rows of a listing are any that `Collect` may return, the row of `show` is the one `Details` has read |
| `Rates` | the five two-read samplers | counters with a width, devices that come and go; pairing by name or, for the cores, by position |
| `Report` | the `system` command with its five threads | sections in the order of the code, `future.get()` where the code has it, exceptions, unwinding that joins, Ctrl-C, `--watch` |
| `Control` | `signal`, `renice`, `affinity` from main's call on | an order (`Orders`), two checks, one system call, kernel steps in between; processes have threads |
| `Sampling` | usage of processes over a window, and `top` | a call is a sequence of steps (`Window`, then `Ranking`), a details call its stat and io reads; the kernel has a counter per process and a clock; `first` and `second` of a row are the births of the processes its two reads were of |
| `CommandLine` | `parseCommandLine`, an action per argument (or per option with its operand), the validation behind it, `hasStaticProcessFilter` | the grammar is a table per sort of option; what a conversion makes of a token is a constant (`Number`, `Words`) |
| `Commands` | an invocation that may change a process: **composes `CommandLine` and `Control`** through what `main` hands from the one to the other (`Mutation`) | the operation works on parsed fields only; the properties speak of what was typed |
| `FileOps` | `moveFile`, `copyFile`, `createDirectories`, `remove`, `createTemporaryFile`, `createTemporaryDirectory`, system call by system call, by several callers | a caller may be killed between any two (`Killed`); a text is the number of its lines; other programs append, remove, make and take |
| `Traverse` | `traverseDirectory` | the recursion is a stack of iterators; the tree has links, loops, dangling links and directories that cannot be opened, and other programs move entries |
| `Execute` | `executeCommand` | the pipe is a bounded buffer of units; the shell and a process it leaves in the background write to it and to the file for errors, which others may remove; each owes a number of units when it starts and does not end of itself before it has written them, hence waits while the pipe is full |
| `Files` | **composes `FileOps`, `Traverse` and `Execute`** | they share no file: two rest while the third runs |
| `ProcTableProofs` | lemmas on the kernel's steps, sequences and finite sets | used by the five below that have a process table |
| `CollectProofs`, `DescendantsProofs`, `ReportProofs`, `CommandsProofs`, `FilesProofs`, `DisplayProofs`, `SamplingProofs` | theorems | see section 5; `CommandsProofs` has those of `Control` and `CommandLine` too, `ReportProofs` those of `Rates`, `FilesProofs` those of the three that `Files` composes |
| `MC*` | constants for TLC | see section 3 |

How state and actions correspond to the code, for the main modules:

* `Collect`: `pids` is the vector `getPids` returns less what the loop has been
  through (`streamPids` sorts it, the others keep readdir's order, hence
  `Arrangements`), `out` the result vector or what the generator's consumer has
  seen, `cpc`/`dpc` the program counters of the call and of the details call
  inside it. `ListEntry` may give the entries in any order and may or may not
  give one that came or went meanwhile, as readdir may; it gives the ones that
  stayed. Static filters are represented by `ppidFilter`, sorting by three sort
  fields, one with ties (`startTime`); `std::ranges::sort` is not stable, so
  ties come out in any order.
* `Report`: `sampler` is the state of the five futures, `at` the section main
  is at, `format` the sticky state of `std::cout`. `Unwind` can only happen when
  no sampler runs because the destructor of a `std::async` future waits for its
  task.
* `Inspect`: `at` is the place in main's chain of `if (args.show...)`, `ipc` the next read
  of the section it is for, `from` the life whose directory is open or whose first
  sample was taken, `inodes` and `lines` are `socketInodes` and `connections`. A reference
  that the code keeps over a read (an open `/proc/<pid>/fd`, a path it opens again by name)
  is the difference between `ReadLinks`' first and third case: the directory stays the dead
  process's, the names are looked up again. `Say` is the printing of a section or of its error.
* `Commands`: `Parse`, `Dispatch` and `Operate` are the parser's actions, main's `if` on the
  command, and the operation's. `pc` and `cpc` are the two program counters.
* `FileOps`: `step[c]` is caller c's next system call; `mkdirAgain` and `lookAgain` are the
  `createDirectories` that `copyFile` makes when `moveFile` has fallen back on it.
  `place` says where the source is, `copy[c]` how much of it is in c's target.

## 3. Runs

`X.cfg` names the constants, invariants and properties of a run; state counts
are approximate.

| Run | Module / cfg | States | Question and answer |
|---|---|---|---|
| `listing` | `MCCollect.cfg` | 650 000 | Can a listing lose, double or mix up processes while PIDs are reused? No PID twice (`RowsDistinct`); within a row later parts are never of older processes (`PartsInOrder`); a survivor of the caller is read whole (`SurvivorsReadWhole`) and is not lost (`SurvivorsReported`); the call returns; it implements `Observation` |
| `snapshot_instant` | `MCSnapshot.cfg` | – | *violated*: a snapshot is not "at a single point in time" |
| `descendants` | `MCDescendants.cfg` | 1 800 000 | Is every row linked to the root, and a process reported again only because a subreaper has adopted it (`WalkInv`)? Is the walk exact on a table at rest with or without parent cycles (`QuietWalkExact`), complete for chains of parents that live and are not adopted, and right about the parent of a process that is not (`SettledFamilyReported`)? Does it end? Yes |
| `display` | `MCDisplay.cfg` | 334 000 | Is a process that lives through its report told whole, and the sections that cannot be read as such (`SurvivorToldWhole`)? Does the report ever go back to an earlier process (`NeverBack`), does a failing section take others with it (`AnsweredInOrder`), are the connections the process's (`ConnectionsMatchSockets`)? Is every row of a listing printed once and in its place (`PrintedExactlyOnce`, `Indentation`), and does the command end? Yes; no; only the threads'; yes, but for a number that is an inode by accident; yes; yes |
| `rates` | `MCRates.cfg` | 79 700 | Is a lasting device measured exactly, across a wrap and other devices' coming and going, and no other one measured against nothing? Yes (cores: when the CPU list is the same) |
| `core_usage` | `MCCores.cfg` | – | *violated*: CPU hotplug inside the window takes per-core usage out of [0, 100] |
| `report` | `MCReport.cfg` | 226 000 | Does a thread outlive its frame, is a sample forgotten, do waits add up, can the report hang? No, with exceptions at any step |
| `watch_format` | `MCWatch.cfg` | – | *violated*: the second frame of `--watch` prints the load averages in another format |
| `commands` | `MCCommands.cfg` | 597 000 | Is a line accepted exactly if it reads as a command, its operands and options that go together, and does it then mean what was typed last (`ReadAsWritten`)? Can `main` rely on it (`MainCanRely`)? Is what is done what was typed (`DoneAsTyped`), to one process at most (`NeverAGroup`), told truly (`EffectIffSuccess`), and to the caller's process if it stays (`OwnProcessReached`)? Does the invocation end? Yes |
| `sampling` | `MCSampling.cfg` | 1 880 000 | Is a process that stays measured, over at least the window and at most the call (`SurvivorsMeasured`)? Is a negative rate ever of one living process (`NegativeOnlyIfGone`, in `SamplingInv`)? Does `top` rank, filter and name right those who stay (`TopOfSurvivors`)? Yes; no; yes |
| `one_thread` | `MCThreads.cfg` | – | *violated*: `affinity` binds the main thread only |
| `files` | `MCFiles.cfg` | 384 000 | Is a line of a moved file ever in no file, after a crash or an error or with a second mover, and is what the caller is told so (`MovesKeepLines`)? Has a temporary one owner, and a failed call none left (`TemporariesOwned`)? Does a traversal that reports success have called back for everything that stayed, once, in order, and for nothing it should not (`WalkedWhole`: `NoneLeftOut`, `InOrder`, `NoneTooMany`)? Is a command heard to its end, also what it left in the background, and its file gone (`CommandHeard`)? Do the calls end (`CallsEnd`)? No and yes; yes; yes; yes; yes |

**Bounds**, all of them constants or guards named in the module that has them:

* `Pids` (3 or 4, init among them) and `MaxBirths` (2 or 3): one or two processes
  are forked after the start. One fork is enough for a PID to be reused, for a
  process to appear below another parent, and for a row to mix two processes.
  The descendant walk has four PIDs because its cases need a chain of three
  below init; a table with a free PID and two births to come has the shortest behaviour in which a
  process is reported twice (44 steps: 4 is found below the new owner of PID 3, and again
  below the subreaper 2).
* `Subreapers`: {2} in the run of the walk, empty elsewhere; the proofs are for every set. A listing depends on a
  parent only by `ppidFilter` and by the PID that `getChildProcesses` is asked about, and what `SurvivorsReported` and `Observation` say of
  these is said of processes in `settled`. With three PIDs nobody but init could adopt in `MCCollect` and
  still leave a process to read.
* `SockModes`: whether a forked process has a socket, {FALSE} where no property asks.
* `Requests`: seven calls, `getChildProcesses(0)` among them, that between them use every kind, both filters, both
  orders and the parent argument. `Mounts`: a working `/proc`, a missing one,
  one without permission.
* `Listings`: all listings of up to three rows in any order with any parents, and
  of four rows in ascending order with any parents.
* `Asks`: four reports on PID 2, which between them have sections of every kind: one file, two
  reads around a sleep, a directory with its links, sockets, threads, children; and a row
  for a format. `SocketsAt`, `NewSockets`: three inodes, of which one is on another line as
  an ordinary number; one socket shared by two processes, one in a table that is not read. An inode is given out
  once (`KernelOpens`): the kernel counts to 2^32 first. The kernel's sockets rest while no
  section reads them, its processes behind the last read.
* `Modulus` 4 for counters of 32 or 64 bits: the arithmetic is modulo the width
  and uses nothing else of it. `MaxTicks` 3 is below the modulus, as the code
  has to assume (a counter wraps at most once in a window). `MaxPlugs` 1.
* `MaxThreads` 2, `Cpus` {0, 1}, `MaskSize` 2 and `MaxCpu` 3 for 1024 and 4095: an
  index can be usable, absent, beyond the mask, or beyond what is accepted.
* `Sampling`: one call per behaviour, since a call keeps nothing for the next; `MaxClock` 2
  ticks, on one CPU (`Cpus`), which put a process ahead before, within or behind the
  window; `Age` 1, so that a PID's new owner has used less than the old one; one line
  (`count` 1) for three processes, so that the ranking is cut.
* `CommandLines`: every command, none and `help`, with every line of up to
  three of 19 tokens behind it, and commands with the PID given twice. An operand takes two places, an option or a
  command that may take one is decided by one more, so three show every way in which two
  neighbours can be taken for each other. `IntMax` is 100 000, above a port's limit and below
  a number of the instance. The flags and options that are not among the tokens differ from
  one that is in their name and field only; the proofs are for all of them. The process table
  rests until there is an order and behind the answer: before and after, no read of it is made.
* `FileOps`: two callers, two names, `Retries` 2 for 10, `MaxLines` 2. A second caller is enough for every
  step of one to fall between two of the other; a second name for one to be taken and the
  other free; a second line for a copy to be short.
* `Traverse`: six nodes of which one tree has four at most, `MaxChanges` 1 (an entry comes, goes or is moved once,
  at any moment), `MaxLinks` 1 for 40: a loop of links is followed once and refused the second
  time. A directory is read with one system call.
* `Execute`: `BufferSize` 2 for 4096, `PipeSize` 2, `MaxOutput` 5: the pipe fills up and holds the writers back, and
  an output is none, less than a buffer, exactly one or two, or more, and more than pipe and buffer hold together.
  One process in the background.
* No bound on frames of `--watch`: the state of a frame does not grow.

`CHECK_DEADLOCK FALSE` is set where the system stops: everything is printed, a
sampler or a usage call has returned, the report has ended, the files are where they are. The parser ends in a
state that stutters by name (`Done`), and with it an invocation; the listing and the walk
can always be called again.

**Fairness.** Weak fairness of the analyzer's own steps only (`FairSpec` of each
module; `Sampling` has safety properties only): a runnable thread is scheduled. The kernel, other programs, clients, Ctrl-C and
exceptions get none: nothing has to fork, exit, be typed or go wrong. `Files` has it for each
caller by itself, because callers are processes of their own; it is not strong, a caller that
is overtaken for ever is not helped, and `CallsEnd` holds because the retries are bounded. It also assumes
(`CommandGoesOn`) that a command that is executed starts, that it and what it leaves behind write while there is room in
the pipe, and end when all is written (`Finishes`): `executeCommand` has no timeout and waits for both. Nothing makes a process
end that waits for room, so a call that waited for the shell before reading would hang, and `CallsEnd` says that this
one does not. That a process is killed (`Exits`) has no fairness. `Report`
also has it for each sampler's end, which `Rates!SampleEnds` justifies, and
through `Main` for the end of the pause between frames.

## 4. Disagreements met

Each is a run that TLC ends with the behaviour that shows it.

1. `snapshot()` is documented as "at a single point in time"
   (`docs/api-reference.md:27`); it reads processes one after another, and a result
   can hold processes that never were alive together. What it does promise is
   `Observation`.
2. Per-core usage pairs the lines of `/proc/stat` by position
   (`src/analyzer/system.cpp:445-458`); the documents promise each core's own usage
   in [0, 100]. All the other samplers pair by name.
3. `system --watch` "repeats the human-readable report" (`src/main.cpp:273`), but
   `std::fixed` and a precision left in `std::cout` change how the load averages are
   printed from the second frame on.
4. `setProcessCpuAffinity` is documented as "binding a process"
   (`docs/api-reference.md:54`); `sched_setaffinity` binds the one thread whose TID
   is the PID. (`setpriority` is alike in this.)

Others were met and have no run, because what they contradict is not a property of a
behaviour, or because nothing in the repository is contradicted:

* `writeTextFileAtomic` is documented (`docs/utils.md:89`) and does not exist.
* `traverseDirectory` advances its iterator with `++` (`filesystem_operations.cpp:126, 139`), which throws,
  and not with `increment(iterEc)`, which the checks of `iterEc` behind it (`:74, :142`) wait for.
  `IncrementThrows` is that exception.
* A link that leads nowhere ends a traversal with an error (`:90-94`), also when links are not to be followed.
* `getAllDescendantProcesses` can report a process twice. It appends the children of every PID it explores
  (`base.cpp:149-153`) and checks only what it explores. If a PID found below a subreaper is reused and its new owner leaves a
  child behind, that child is reported below the PID and, adopted meanwhile, below the subreaper. And it can miss one: a process
  whose parent exits before it is read, and which passes to a PID that was explored already. The documents promise neither;
  `RepeatedOnlyByAdoption` and `SettledChainsReported` say how far it goes.
* `moveFile` across devices loses what is appended to the source between the copy and the
  removal; `MovesKeepLines` speaks of the lines the file had when the move began.
* `list --pid N` is accepted and ignored (`printUsage` says of `--pid` that it filters), and `show --output` ignores the sections' flags
  (`main.cpp:695`).
* Of somebody else's process, `--open-files` says "No open files found." and `--network` "No network
  connections found.": the error of opening the directory is dropped (`details.cpp:372`).
  `SurvivorToldWhole` has it as it is.
* A process that exits while its threads are listed ends the report with status 1 and without the sections behind
  it (`details.cpp:298-302` throws where the others return an error).

## 5. Proofs

TLC checks the instances above; the following is proved with TLAPS for every set
of PIDs and tables, every bound, every set of requests, modes, listings, trees and commands.
What is assumed is assumed of constants only, by name, and TLC evaluates it in every run:

* `ProcTableAssumption`: at the start init is there, is nobody's child, and every other parent is there.
* `CollectAssumption`, `DescendantsAssumption`, `ReportAssumption`, `ControlAssumption`,
  `RatesAssumption`, `CommandLineAssumption`, `CommandsAssumption`, `SamplingAssumption`, `FileOpsAssumption`,
  `TraverseAssumption`, `ExecuteAssumption`: of which kind the parameters are. A call of `top` names no PID
  and prints a line at least (what `CommandLine` lets through); what a link points to is not an entry that is moved.
* `RatesAssumption`: also, that all devices together gain less than the modulus, 2^64, while a sampler sleeps.
* `NamesAreNoNumbers`: no option's name is a number to `toLong` (they begin with `-` and go on with no digit).
* `InspectAssumption`: also, that nobody has a socket open that there is not yet.
* `DisplayAssumption`: also, that the listings have no PID twice, which is `Collect!RowsDistinct`, proved
  in `CollectProofs`.

Every safety property that a passing run checks has a theorem. Each proof has the same shape: an invariant that is inductive, one
lemma per action (or per thing an action may disturb), and the property from the invariant. What the
invariants say, and why the property alone would not do:

**`ProcTableProofs`** is what the others cite: the kernel's steps once and for all (who is in `lived` is alive
and keeps the birth, births at a PID only grow, parents are there, a parent that changes becomes init or a subreaper, and that of a settled
process does not), and lemmas on sequences, sorted
copies and finite sets. Induction is through the least number that fails (`LeastNumber`),
because a theorem that takes a predicate as its parameter cannot be instantiated here.

**`CollectProofs`**: `TypeCorrect`, `NoPidTwice` (`[]RowsDistinct`), `NoOlderParts`
(`[]PartsInOrder`), `NoSurvivorLost` (`[]SurvivorsReported`), `NoSurvivorTorn`
(`[]SurvivorsReadWhole`), `ListingIsObservation`, `NoReadForNothing`.
*RowsDistinct* is not inductive: nothing in it says that the next PID of the list
has not been reported. The invariant that is, `OnePlace`, says that a PID is in one
place only: on the list, where it stands once; or in the open details frame; or
in one row. Every action moves a PID from one place to the next, a sort permutes
rows, an abandoned generator keeps some of them (`ArrangementsProperties`,
`PrefixProperties`).
*PartsInOrder* needs the frame too: what has been read so far is in order, what
comes next in `PartOrder` is still 0, and no birth recorded is beyond the birth at
its PID now or the birth clock, so that whatever is read next is not older.
`SurvivorInv` turns *one place* into *no loss*: a survivor that was asked for, once listed, is on the list,
in the frame or in a row (`Accounted`); the stat of whatever is in the frame or in a row was of a
process seen alive during the call, and of a survivor every part is its own. Asked for by its parent is a process that has
had that parent since the call began: one that is adopted by the PID in question while the call runs may have been
read before (`AskedBefore` carries a request back in time for those in `settled`).
With it, every step is a step of `Observation` or a stutter of it: a row that is taken is observed, and a call may
return because nobody who lived through it is left out.

**`DescendantsProofs`**: `WalkWellFormed` (`[]WalkInv`), `UndisturbedWalkExact`
(`[]QuietWalkExact`), `FamilyThatStaysReported` (`[]SettledFamilyReported`), `NoStepForNothing`.
The hard part of `WalkInv` is when a process can be found twice although every PID is explored once. `FamilyInv` bounds
it: a process that has a row and is found again below the PID explored now has another parent since (that PID was not
explored before), so it was adopted, and the PID is its adopter's. The root and init cannot be it: the root is explored
first, when there are no rows, and init has no row, hence is explored only as the root. There remain subreapers below the
root, once each, and processes that were adopted; a process in `settled` is reported once.
What has been found is explored, being explored or on the stack, so of a survivor that was explored every child that
was not adopted is reported, and a chain of such children is found link by link (`ExploredOK`, `PendingOK`). When nothing
changes there is one view and the rows are what the table says; they are the smallest set closed under *has its parent
in it*, because the first row outside such a set would have its parent in an earlier row.

**`ReportProofs`**, in two parts. *The report*: `ReportTypeCorrect`, `NoThreadOutlivesItsFrame`, `NoSampleForgotten`,
`OneWindowPerFrame`. The invariant relates the position of main to the samplers: those
of the sections behind it have ended and are shown exactly if they have rates,
those ahead are not shown; all were launched at the beginning of the frame, so
each ends one window after it.
*A sampler* (module `Rates`), for every width of the counters and every set of devices: `NoStrangerMeasured`
(`[]RatesInv`), `SurvivorsMeasuredExactly` (`[]SurvivorsExact`). `SamplerInv` says that what has been read is what stood
there, and what the counters may have done since (`Grown`): a device with the same registration is not behind in any
counter, and has not gained more in all of them than there were ticks, hence less than the modulus; so its unsigned difference is
the true one (`DifferenceExact`), and so is the sum's that decides whether a CPU is shown as idle (`GainsExact`). That a pairing makes
one row of each device both reads list is shown for names (`ByNameMeasures`) and, if the lists are the same, for
positions (`ByPositionMeasures`); it rests on `AscendingEnumerates`: the k-th number of a set is the one with k - 1
below it, and every number is one of these, by counting.

**`CommandsProofs`**, in four parts.
*The operations*: `ControlTypeCorrect`, `OnlyOneProcess` (`[]NeverAGroup`),
`SuccessMeansEffect` (`[]EffectIffSuccess`), `OwnProcessNeverMissed`
(`[]OwnProcessReached`). The invariant says what is known of a command at each of
its steps: nothing has been done or said before the call, only a PID that has been
a directory of `/proc` gets to the call, and therefore `kill` never sees 0 or -1; a
process in `lived` is alive and has a main thread. The kernel's steps are dealt
with by one lemma (`KernelSteps`): they spare the processes that stay.
*The parser*: `ParserTypeCorrect`, `AcceptedCanBeRun` (`[]MainCanRely`), for every
set of tokens, every conversion and every line of any length. The invariant has two parts: a field a
command works on (`Validated`) only ever has a value that passes for its kind, wherever on
the line it was set, which is a fact about the tables of operands and options
(`OperandTable`, `OptionTable`, `FlagTable`, `MayTakeTable`); and as many operands of the command have
values as the position on the line says. No later option takes a value away
(`WithValid`), so at the end they are there.
*The parser against the grammar*: `LineReadAsWritten` (`[]ReadAsWritten`), for lines of any length. `ReadAsWritten`
speaks of every way to read the whole line; the parser has seen a part of it. `ReadInv` says that there is a set of
places, those where the parser has seen an option, which reads what is behind the parser and gives the fields their values
(`Walked`), and that every reading of the whole line has exactly these places so far, and an option where the parser looks for one
(`Agreed`). The second is what makes the refusals right: a token that is no option there, or an option without its operand,
leaves no reading at all. It holds because no name is of two options or of two sorts of option (`NamesApart`),
because an option that must have an operand does not read without one, and because what an option *may* take
cannot be read as an option instead: all of it is numbers, and no name is one (`TakenIsNoName`, which needs `NamesAreNoNumbers`). An
option that is given twice is why values are kept with their places: the last one counts (`LastCounts`, `GivesMore`).
From `Agreed` it also follows that an accepted line has one reading only (`OneWayToRead`).
*The invocation*: what holds of the parser and of the operations holds of what
they are composed to. `ParsesAlone` (`Spec => ParserSpec`) and `OperatesAlone` (`Spec => ControlSpec`) are
refinements by the identity: every step of an invocation is a step of the one or a stutter of it.
The second is not for nothing: `Dispatch` is a `Begin` of `Control` only if what main hands over is one of
the orders the operations are specified for, and that follows from `MainCanRely`
(`OrderOfArguments`). So `NeverAGroup`, `EffectIffSuccess`, `OwnProcessReached` and
`MainCanRely` hold for every line, whatever it says. `OrderComesFromLine` joins the two: from the
dispatch on, the order is what the accepted fields make, and within the operation's range. With `ReadAsWritten` that
is `ChangeWasTyped` (`[]DoneAsTyped`): nothing is done before there is an order, and the fields are those of the reading.
`CommandsAssumption` is what the conversions give: signals, CPUs and PIDs of the ranges the
parser's checks let through.

**`FilesProofs`**: `LinesKept` (`[]MovesKeepLines`), `TemporariesKept` (`[]TemporariesOwned`),
`TraversalComplete` (`[]WalkedWhole`), `OutputHeard` (`[]CommandHeard`), `RetriesBounded`.
Of the operations, for any number of callers and names: who is about to remove the source has a copy with all the lines the
move began with (`CopiedBeforeRemoved`); an answer `ok` means the source is where it was to be, or
somebody else moved it (`OkIsTrue`); a temporary is its maker's from the system call that made it to the
answer that names it (`MadeAndTold`, `ToldAndKept`).
Of the traversal: the paths on the stack are a chain (`Stacked`), what has still to be given was
not called back (`Fresh`), every directory on them was called back before and not skipped (`Entered`), what a directory has left is
in it unless something changed (`LeftInside`), and a path that is owed and stayed put was called back, is behind something
left on the stack, or the call fails (`Complete`). This is for paths of any length; the run looks at those up to `MaxPath`. `Resolve`, which
follows links, is a recursive function; `FiniteRecursion` has its equation.
Of the command: what has been printed is in `stdoutStr`, in the buffer or in the pipe, at every step; the pipe ends only when
neither the shell nor what it left behind can write.

**`DisplayProofs`**: `DisplayTypes`, `EveryRowPrintedOnce` (`[]PrintedExactlyOnce`), `IndentationTrue`
(`[]Indentation`), `ReportWhole` (`[]SurvivorToldWhole`), `ReportNeverBack` (`[]NeverBack`),
`ReportInOrder` (`[]AnsweredInOrder`), `ConnectionsOwn` (`[]ConnectionsMatchSockets`).
Of the forest, for every list of rows (`PrintInv`): in the first pass a root, or a child of a row that is printed, is printed or on the agenda; in the second every row is
(`LeftToPrint`). Depths never grow along the agenda, and the last line printed one level above an agenda entry is its
parent (`DepthsOK`). What the first pass leaves has no root among its ancestors: its parents run into a cycle, which is what
`DepthZeroJustified` allows at depth 0.
Of the report (`ReportInv`): `LivesOK` (each section's births lie between the last one told and the birth at the PID now),
`OrderOK` (what is due by the place main is at has been answered, and nothing else),
`SurvivorOK` (of a process that stays, what a section has read so far is of it) and `SocketsOK` (what the table gave so far of the
inodes collected so far, kept and owned sockets on either side). A step of a section goes on within it, answers, or
breaks the report off (`SectionStep`); that these are all is shown once, for every section.

**`SamplingProofs`**: `SamplingInvariant` (`[]SamplingInv`), `SurvivorsMeasuredAlways`
(`[]SurvivorsMeasured`), `TopTellsTrue` (`[]TopOfSurvivors`).
`CallInv` says for each step of a call what the ones before it left (`ShapeOK`; `StepOrder` fixes which precede which,
for every call): the first read of a survivor is not beyond its counter when the pause began, and the second not before its
counter when the pause ended (`BaseKept`, `RowsKept`); of anybody else, a negative difference is of two births (`BaseHonest`,
`RowsHonest`), since a counter only grows in one life. A survivor asked about is still to be read, being read, or has
its row (`AllPresent`), and no filter, ranking or name takes another's (`FilterOK`, `RankOK`, `NamesOK`).
That a ranking has all the rows is counted: an injection into a set of the same size is onto.

**Progress.** Liveness needs fairness and `ENABLED`, which the prover does not have; but why calls end can be said of their
steps alone, as an action property for every size of the system: each step of a call lowers a measure which nobody else raises.
* `NoReadForNothing`, a listing: a later part of the call, or a PID more listed and none twice, or a PID less to read, or a
  read less of that PID (`CallGoesOn`). That a reading frame is open only while rows are read (`FrameOK`) is needed here, too.
* `NoStepForNothing`, a walk: a PID more is visited, or the next pop is nearer, or a PID more is listed or less unread, or one less on the
  stack (`WalkGoesOn`), each before the next in importance, because children lengthen the stack and a listing the unread.
* `NoArgumentTwice`, the parser: a later argument or a later stage (`LineGoesOn`).
* `RetriesBounded`, a file operation: a later system call, or one of the retries, and a step of anybody else leaves it where it
  is (`OwnPace`).

**Model-checked only.**
* Liveness itself (`CallReturns`, `WalkEnds`, `DisplayEnds`, `SampleEnds`, `ReportGoesOn`, `InvocationEnds`, `CallsEnd`): that
  a step is taken as long as the measure is not at its end.

## 6. Not modelled

* What files of `/proc` contain beyond whose they are: parsing of stat, status, io,
  limits, maps and the addresses in the tables of `/proc/net`. A row's parts stand for all their fields.
* Static filters other than `ppidFilter`: each is a predicate on one row, evaluated
  in the same place.
* The connections that the network filter of a listing asks for: `Collect` takes the outcome from the
  table (`sock`) at one instant; how they are found is in `Inspect`.
* What `toLong`, `std::regex`, the signal names and the CPU list make of a string:
  constants of `CommandLine` and `Commands`. A vector of columns without any counts as given.
* Text: columns, quoting, JSON, messages. `Report` has the stream's number format
  because it is state that outlives a print. A mask with indices beyond 1023 is bound without them
  and printed with them.
* `listDirectory`, `createSymlink`, `readSymlink`, the attribute functions and `path.cpp`: one call of
  `std::filesystem` each, whose error is passed on.
* `readTextFile` of an ordinary file that grows or shrinks, and the write functions: files of `/proc` are
  generated by the kernel on each read, and the program writes no file. That a stream's last
  flush, on a full disk, may fail unseen (`file.cpp:28`) is therefore left out.
* Several threads in one caller of the file operations: they share nothing but the file system,
  so they are callers.
* Signals other than Ctrl-C, `fork` failures, a full disk other than as an error of a copy.
* The exit code of `executeCommand`, a pipe whose reading fails, and a temporary directory whose name is more than one word to
  the shell.
* Reads that the modules take in one step though the code makes several: the links of one `/proc/<pid>/fd`
  (`Inspect!ReadLinks`) and the lines of one `/proc/net` table (`Inspect!ReadTable`; the kernel hands out a table in few
  reads); the details call inside `Inspect!Sample`, of which only the birth matters, with `/proc/stat` always
  readable; a directory of a traversal (`Traverse!OpenDirectory`; the C library reads a directory of this size with
  one system call; one that is larger, from which an entry is moved out and back while it is read, may be given
  twice, and `InOrder` does not cover that).
* Privileges (`CAP_SYS_NICE`, `RLIMIT_NICE`): whether a nice value may be lowered is open (`Denial`).
* System facts, summary, strings, time, environment, errors: no state and nothing concurrent; the reason
  stands with each component in `PROJECT.json`.

## 7. Plan

What is left to be proved is a measure, as in *Progress* above, for the calls that have none yet: a sampling call and a ranking
(`Sampling`), the report on one process and the printing of a forest (`Display`), a traversal (`Traverse`, where a link may lead
back and only `MaxLinks` bounds the path) and a command that is executed (`Execute`).
