---------------------------- MODULE CommandLine ----------------------------
(***************************************************************************)
(* parseCommandLine: a command with its operands, then options one after   *)
(* another, some of which take the next argument and some of which take it *)
(* only if it suits them; at the end the combination is validated.         *)
(*                                                                         *)
(* An argument is a token.  What the conversions of the code make of it is *)
(* a constant: the number it is, if it is one, and the kinds of word it    *)
(* passes for.                                                             *)
(***************************************************************************)
EXTENDS Integers, Sequences

CONSTANTS
  Tokens,         \* the arguments of the instance
  Dashed,         \* those that start with "-"
  Numbers,        \* those that utils::toLong converts
  Number,         \* ... and to what
  Words,          \* by kind of word, the tokens that pass for it
  IntMax,         \* the width of int; long is not bounded
  CommandLines    \* bound: what may be typed

WordKinds == {"state", "sort", "order", "columns", "column", "format", "json", "regex",
              "signal", "cpus"}

ASSUME CommandLineAssumption ==
  /\ Dashed \subseteq Tokens
  /\ Numbers \subseteq Tokens
  /\ Number \in [Numbers -> Int]
  /\ Words \in [WordKinds -> SUBSET Tokens]
  /\ IntMax \in Nat
  /\ CommandLines \subseteq Seq(Tokens)

VARIABLES
  argv,
  pc,        \* "command", "operands", "options", "done"
  i,         \* the argument that is next
  command,
  args,      \* ParsedArguments: a function on the fields that have a value
  result     \* "none" while parsing, "ok", "help" or "error"

parserVars == <<argv, pc, i, command, args, result>>

-----------------------------------------------------------------------------
\* The grammar.

Commands == {"list", "show", "pid", "name", "user", "system", "top", "signal",
             "renice", "affinity", "summary"}

Operand(field, kind) == [field |-> field, kind |-> kind]

\* What must follow a command.
Operands(c) ==
  CASE c = "pid" -> <<Operand("pid", "int")>>
    [] c = "name" -> <<Operand("name", "any")>>
    [] c = "user" -> <<Operand("user", "any")>>
    [] c = "signal" -> <<Operand("pid", "int"), Operand("signalNumber", "signal")>>
    [] c = "renice" -> <<Operand("pid", "int"), Operand("niceValue", "nice")>>
    [] c = "affinity" -> <<Operand("pid", "int"), Operand("affinityCpus", "cpus")>>
    [] OTHER -> << >>

Option(names, field, kind) == [names |-> names, field |-> field, kind |-> kind]

\* Options whose operand must be there.
OptionsWithOperand == {
  Option({"--pid", "-p"}, "pid", "int"),
  Option({"--name"}, "name", "any"),
  Option({"--user", "-u"}, "user", "any"),
  Option({"--state", "-s"}, "stateFilter", "state"),
  Option({"--sort-by"}, "sortBy", "sort"),
  Option({"--sort-order"}, "sortOrder", "order"),
  Option({"--columns"}, "selectedColumns", "columns"),
  Option({"--field"}, "singleField", "column"),
  Option({"--output", "-o"}, "outputFormat", "format"),
  Option({"--ppid"}, "ppidFilter", "int"),
  Option({"--count"}, "topCount", "positive"),
  Option({"--uid"}, "uidFilter", "natural"),
  Option({"--min-rss"}, "minRssKb", "long"),
  Option({"--max-rss"}, "maxRssKb", "long"),
  Option({"--min-vm"}, "minVmKb", "long"),
  Option({"--max-vm"}, "maxVmKb", "long"),
  Option({"--min-threads"}, "minThreads", "long"),
  Option({"--max-threads"}, "maxThreads", "long"),
  Option({"--min-priority"}, "minPriority", "int"),
  Option({"--max-priority"}, "maxPriority", "int"),
  Option({"--cmdline"}, "cmdlineFilter", "any"),
  Option({"--exec-path"}, "executablePathFilter", "any"),
  Option({"--remote-port"}, "networkRemotePort", "port"),
  Option({"--remote-addr"}, "networkRemoteAddrFilter", "any"),
  Option({"--net-protocol"}, "networkProtocol", "any"),
  Option({"--net-state"}, "networkState", "any"),
  Option({"--name-regex"}, "nameRegexPattern", "regex"),
  Option({"--cmdline-regex"}, "cmdlineRegexPattern", "regex"),
  Option({"--exec-path-regex"}, "executablePathRegexPattern", "regex"),
  Option({"--remote-addr-regex"}, "networkRemoteAddrRegexPattern", "regex") }

Flag(names, field) == [names |-> names, field |-> field]

Flags == {
  Flag({"--brief", "-b"}, "briefMode"),
  Flag({"--no-truncate-cmdline"}, "noTruncateCmdline"),
  Flag({"--children"}, "showChildren"),
  Flag({"--descendants"}, "showDescendants"),
  Flag({"--threads"}, "showThreads"),
  Flag({"--open-files"}, "showOpenFiles"),
  Flag({"--env", "--environment"}, "showEnv"),
  Flag({"--maps"}, "showMemoryMaps"),
  Flag({"--limits"}, "showLimits"),
  Flag({"--cgroup"}, "showCgroupInfo"),
  Flag({"--affinity"}, "showAffinity"),
  Flag({"--io"}, "topByIo"),
  Flag({"--mem"}, "topByMem") }

\* Options that take the next argument only if it suits them: what they set
\* before they look, to it if they take it, and otherwise.
OptionsThatMayTake == {
  [names |-> {"--watch"}, kind |-> "positive", before |-> {"watchIntervalSeconds"},
   taken |-> {"watchIntervalSeconds"}, otherwise |-> {}],
  [names |-> {"--perf"}, kind |-> "positive", before |-> {"showPerf"},
   taken |-> {"perfDurationMs"}, otherwise |-> {}],
  [names |-> {"--network"}, kind |-> "port", before |-> {},
   taken |-> {"networkPortFilter"}, otherwise |-> {"showNetworkConnections"}] }

Fields ==
  {"signalNumber", "niceValue", "affinityCpus"}
    \cup {o.field : o \in OptionsWithOperand \cup Flags}
    \cup UNION {o.before \cup o.taken \cup o.otherwise : o \in OptionsThatMayTake}

Default == "default"

Ranges == [int |-> -(IntMax + 1) .. IntMax, long |-> Int, natural |-> 0 .. IntMax,
           positive |-> 1 .. IntMax, port |-> 1 .. 65535, nice |-> -20 .. 19,
           signal |-> 0 .. 64]

\* The conversions: parseIntWithinRange, parsePort, resolveSignal, parseCpuList,
\* stringToProcessSortField, isValidColumn and the conditions around them.
Passes(kind, t) ==
  \/ kind = "any"
  \/ kind \in DOMAIN Ranges /\ t \in Numbers /\ Number[t] \in Ranges[kind]
  \/ kind \in WordKinds /\ t \in Words[kind]

-----------------------------------------------------------------------------
\* The parser.

ParserTypeOK ==
  /\ argv \in Seq(Tokens)
  /\ pc \in {"command", "operands", "options", "done"}
  /\ i \in 1 .. Len(argv) + 1
  /\ command \in Commands \cup {""}
  /\ DOMAIN args \subseteq Fields
  /\ \A f \in DOMAIN args : args[f] \in Tokens \cup {Default}
  /\ result \in {"none", "ok", "help", "error"}

ParserInit ==
  /\ argv \in CommandLines
  /\ pc = "command"
  /\ i = 1
  /\ command = ""
  /\ args = << >>
  /\ result = "none"

More == i <= Len(argv)

Return(r) ==
  /\ pc' = "done"
  /\ result' = r
  /\ UNCHANGED <<argv, i, command, args>>

\* args with fields set to v.
With(a, fields, v) ==
  [f \in DOMAIN a \cup fields |-> IF f \in fields THEN v ELSE a[f]]

\* No command: a list.
DefaultCommand ==
  /\ pc = "command"
  /\ More => argv[i] \in Dashed
  /\ command' = "list"
  /\ pc' = "options"
  /\ UNCHANGED <<argv, i, args, result>>

TakeCommand ==
  /\ pc = "command"
  /\ More
  /\ argv[i] \in Commands \ Dashed
  /\ command' = argv[i]
  /\ i' = i + 1
  /\ pc' = "operands"
  /\ UNCHANGED <<argv, args, result>>

OtherCommand ==
  /\ pc = "command"
  /\ More
  /\ argv[i] \notin Commands \cup Dashed
  /\ Return(IF argv[i] = "help" THEN "help" ELSE "error")

\* The command's k-th operand is the argument behind it and k - 1 others.
TakeOperand ==
  /\ pc = "operands"
  /\ LET k == i - 1 IN
     /\ k <= Len(Operands(command))
     /\ IF More /\ Passes(Operands(command)[k].kind, argv[i])
        THEN /\ args' = With(args, {Operands(command)[k].field}, argv[i])
             /\ i' = i + 1
             /\ UNCHANGED <<argv, pc, command, result>>
        ELSE Return("error")

EndOperands ==
  /\ pc = "operands"
  /\ i - 1 > Len(Operands(command))
  /\ pc' = "options"
  /\ UNCHANGED <<argv, i, command, args, result>>

\* --help wins over everything behind it, and over the validation.
AskHelp ==
  /\ pc = "options"
  /\ More
  /\ argv[i] \in {"--help", "-h"}
  /\ Return("help")

TakeOption(o) ==
  /\ pc = "options"
  /\ More
  /\ argv[i] \in o.names
  /\ IF i < Len(argv) /\ Passes(o.kind, argv[i + 1])
     THEN /\ args' = With(args, {o.field}, argv[i + 1])
          /\ i' = i + 2
          /\ UNCHANGED <<argv, pc, command, result>>
     ELSE Return("error")

TakeFlag(o) ==
  /\ pc = "options"
  /\ More
  /\ argv[i] \in o.names
  /\ args' = With(args, {o.field}, Default)
  /\ i' = i + 1
  /\ UNCHANGED <<argv, pc, command, result>>

\* Mutant: the next argument is skipped whether it was taken or not.
MayTakeSkip(o) ==
  /\ pc = "options"
  /\ More
  /\ argv[i] \in o.names
  /\ args' = IF i < Len(argv) /\ Passes(o.kind, argv[i + 1])
             THEN With(With(args, o.before, Default), o.taken, argv[i + 1])
             ELSE With(args, o.before \cup o.otherwise, Default)
  /\ i' = i + 2
  /\ UNCHANGED <<argv, pc, command, result>>

MayTake(o) ==
  /\ pc = "options"
  /\ More
  /\ argv[i] \in o.names
  /\ IF i < Len(argv) /\ Passes(o.kind, argv[i + 1])
     THEN /\ args' = With(With(args, o.before, Default), o.taken, argv[i + 1])
          /\ i' = i + 2
     ELSE /\ args' = With(args, o.before \cup o.otherwise, Default)
          /\ i' = i + 1
  /\ UNCHANGED <<argv, pc, command, result>>

OptionNames ==
  {"--help", "-h"} \cup UNION {o.names : o \in OptionsWithOperand \cup Flags \cup OptionsThatMayTake}

\* toLong converts all of a token or nothing, and a name begins with "-" and
\* goes on with no digit (string.cpp:284-300).
ASSUME NamesAreNoNumbers == OptionNames \cap Numbers = {}

\* An option nobody knows, or an argument that belongs to none.
Unexpected ==
  /\ pc = "options"
  /\ More
  /\ argv[i] \notin OptionNames
  /\ Return("error")

Given(a, fields) == DOMAIN a \cap fields # {}

Inspections == {"showChildren", "showDescendants", "showOpenFiles", "showNetworkConnections",
                "showThreads", "showEnv", "showMemoryMaps", "showLimits", "showCgroupInfo",
                "showAffinity", "showPerf"}

NetworkFilters == {"networkPortFilter", "networkRemotePort", "networkRemoteAddrFilter",
                   "networkRemoteAddrRegexPattern", "networkProtocol", "networkState"}

\* The final validation: c does not go with a.
Conflict(c, a) ==
  \/ c \in {"show", "pid"} /\ ~Given(a, {"pid"})
  \/ c \notin {"show", "pid"} /\ Given(a, Inspections)
  \/ c \notin {"list", "name", "user"} /\ Given(a, NetworkFilters)
  \/ c \in {"show", "pid"} /\ Given(a, {"ppidFilter"})
  \/ c \notin {"system", "top"} /\ Given(a, {"watchIntervalSeconds"})
  \/ c # "top" /\ Given(a, {"topCount", "topByIo", "topByMem"})
  \/ Given(a, {"topByIo"}) /\ Given(a, {"topByMem"})
  \/ /\ c \in {"system", "top"}
     /\ Given(a, {"outputFormat"}) /\ a["outputFormat"] \notin Words["json"]

Validate ==
  /\ pc = "options"
  /\ ~More
  /\ Return(IF Conflict(command, args) THEN "error" ELSE "ok")

Done ==
  /\ pc = "done"
  /\ UNCHANGED parserVars

ParserNext ==
  \/ DefaultCommand \/ TakeCommand \/ OtherCommand
  \/ TakeOperand \/ EndOperands
  \/ AskHelp \/ Unexpected
  \/ \E o \in OptionsWithOperand : TakeOption(o)
  \/ \E o \in Flags : TakeFlag(o)
  \/ \E o \in OptionsThatMayTake : MayTake(o)
  \/ Validate \/ Done

ParserSpec == ParserInit /\ [][ParserNext]_parserVars

-----------------------------------------------------------------------------
\* What main makes of it.

\* The fields that populate the ProcessFilter, but for the connections.
Criteria ==
  {"name", "nameRegexPattern", "cmdlineRegexPattern", "executablePathFilter",
   "executablePathRegexPattern", "user", "ppidFilter", "stateFilter", "minRssKb", "maxRssKb",
   "minThreads", "maxThreads", "uidFilter", "cmdlineFilter", "minVmKb", "maxVmKb",
   "minPriority", "maxPriority"}

\* Mutant: the patterns are not among them (as they once were not).
HasStaticProcessFilterNoRegex(a) ==
  Given(a, {"name", "cmdlineFilter", "executablePathFilter", "user", "stateFilter", "uidFilter",
            "ppidFilter", "minRssKb", "maxRssKb", "minVmKb", "maxVmKb", "minThreads",
            "maxThreads", "minPriority", "maxPriority"})

\* hasStaticProcessFilter: whether top filters at all.
HasStaticProcessFilter(a) ==
  Given(a, {"name", "nameRegexPattern", "cmdlineFilter", "cmdlineRegexPattern",
            "executablePathFilter", "executablePathRegexPattern", "user", "stateFilter",
            "uidFilter", "ppidFilter", "minRssKb", "maxRssKb", "minVmKb", "maxVmKb",
            "minThreads", "maxThreads", "minPriority", "maxPriority"})

-----------------------------------------------------------------------------
(* Properties *)

ValidField(field, kind) == field \in DOMAIN args /\ Passes(kind, args[field])

\* What main relies on of arguments that were accepted: a command has its
\* operands, and they are in the ranges that Control starts from, whatever
\* options came behind them (main.cpp:38-92, 679-684); of the options that
\* exclude one another there is one; and top's gate is open exactly if the
\* filter it guards has a criterion (args.h:71-76, main.cpp:98-116).
MainCanRely ==
  result = "ok" =>
    /\ command \in {"show", "pid", "signal", "renice", "affinity"} => ValidField("pid", "int")
    /\ command = "signal" => ValidField("signalNumber", "signal")
    /\ command = "renice" => ValidField("niceValue", "nice")
    /\ command = "affinity" => ValidField("affinityCpus", "cpus")
    /\ ~({"topByIo", "topByMem"} \subseteq DOMAIN args)
    /\ HasStaticProcessFilter(args) <=> Given(args, Criteria)

(***************************************************************************)
(* A line read as a grammar reads it: starts is the set of places where an *)
(* option stands, and every other place behind the operands has the        *)
(* operand of the option before it.                                        *)
(***************************************************************************)
Implied == argv = << >> \/ argv[1] \in Dashed
Command == IF Implied THEN "list" ELSE argv[1]
First == IF Implied THEN 1 ELSE 2 + Len(Operands(Command))

\* What an option at s sets, with or without an operand; nothing if it is
\* none, or the operand is not its.
Sets(s, withOperand) ==
  IF withOperand
  THEN UNION {
         {<<o.field, argv[s + 1]>> : o \in {o \in OptionsWithOperand :
            argv[s] \in o.names /\ Passes(o.kind, argv[s + 1])}},
         UNION {(o.before \ o.taken) \X {Default} \cup o.taken \X {argv[s + 1]} :
            o \in {o \in OptionsThatMayTake : argv[s] \in o.names /\ Passes(o.kind, argv[s + 1])}} }
  ELSE UNION {
         {<<o.field, Default>> : o \in {o \in Flags : argv[s] \in o.names}},
         UNION {(o.before \cup o.otherwise) \X {Default} :
            o \in {o \in OptionsThatMayTake : argv[s] \in o.names}} }

SetsIn(starts, s) == Sets(s, s < Len(argv) /\ s + 1 \notin starts)

IsReading(starts) ==
  /\ Command \in Commands
  /\ First <= Len(argv) + 1
  /\ \A k \in 2 .. First - 1 : Passes(Operands(Command)[k - 1].kind, argv[k])
  /\ \A j \in First .. Len(argv) : j \in starts \/ (j > First /\ j - 1 \in starts)
  /\ \A s \in starts : SetsIn(starts, s) # {}

\* The values a reading gives to fields: the last one counts.
Meaning(starts) ==
  LET settings == {<<k, <<Operands(Command)[k - 1].field, argv[k]>>>> : k \in 2 .. First - 1}
                    \cup UNION {{s} \X SetsIn(starts, s) : s \in starts}
      Last(f) == CHOOSE x \in settings : /\ x[2][1] = f
                                         /\ \A y \in settings : y[2][1] = f => y[1] <= x[1] IN
  [f \in {x[2][1] : x \in settings} |-> Last(f)[2][2]]

\* The parser takes every argument once and for what it is: a line is
\* accepted exactly if it can be read, and its fields go together, and then
\* the fields have the values that were typed for them last (args.cpp:219-791).
ReadAsWritten ==
  LET readings == {starts \in SUBSET (First .. Len(argv)) : IsReading(starts)} IN
  /\ result = "ok" => \E r \in readings :
       command = Command /\ args = Meaning(r) /\ ~Conflict(Command, Meaning(r))
  /\ result = "error" => \A r \in readings : Conflict(Command, Meaning(r))
=============================================================================
