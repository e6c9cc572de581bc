--------------------------- MODULE CollectProofs ---------------------------
(***************************************************************************)
(* Theorems about module Collect, for every set of PIDs, every bound on    *)
(* births, every set of requests and of initial tables: the type           *)
(* invariant; that a call never reports a PID twice; that within a row no  *)
(* part is older than one read before it; that a survivor is reported, and *)
(* read whole; that a call implements the abstract observation; and that   *)
(* every step brings it nearer to its end.                                 *)
(***************************************************************************)
EXTENDS Collect, ProcTableProofs, SequenceTheorems

(***************************************************************************)
(* A details frame is open only while rows are read, and for a real PID;   *)
(* it is complete and holds a value when the network filter is looked at.  *)
(***************************************************************************)
FrameOK ==
  /\ dpc # "idle" => row.pid \in Pids /\ cpc \in {"rows", "net"}
  /\ cpc = "net" => dpc = "done" /\ derr = "none"

(***************************************************************************)
(* Why no PID is reported twice.  A PID is in one place only: still on the *)
(* list (where it stands once), in the open frame, or in one row.          *)
(***************************************************************************)
ListDistinct == \A i, j \in DOMAIN pids : pids[i] = pids[j] => i = j
ListNotReported ==
  \A i \in DOMAIN pids : \A k \in DOMAIN out : pids[i] # out[k].pid
FrameNotElsewhere ==
  dpc # "idle" =>
    /\ \A i \in DOMAIN pids : pids[i] # row.pid
    /\ \A k \in DOMAIN out : out[k].pid # row.pid
NothingReportedYet ==
  cpc \in {"parentExists", "parentOpen", "list"} => out = <<>>

OnePlace ==
  /\ ListDistinct
  /\ ListNotReported
  /\ FrameNotElsewhere
  /\ NothingReportedYet
  /\ RowsDistinct

IInv == TypeOK /\ FrameOK /\ OnePlace

-----------------------------------------------------------------------------
(* Lemmas about the operators of the model. *)

\* u is made of elements of s, each from a place of its own.
Drawn(u, s) ==
  \E f \in [DOMAIN u -> DOMAIN s] :
    /\ \A i, j \in DOMAIN u : f[i] = f[j] => i = j
    /\ \A i \in DOMAIN u : u[i] = s[f[i]]

\* What a sort returns: a sequence of the same length, drawn from the original.
LEMMA ArrangementsProperties ==
  ASSUME NEW S, NEW s \in Seq(S), NEW t \in Arrangements(s)
  PROVE  /\ t \in Seq(S)
         /\ DOMAIN t = DOMAIN s
         /\ Drawn(t, s)
<1>1. PICK f \in Bijection(DOMAIN s, DOMAIN s) : t = [i \in DOMAIN s |-> s[f[i]]]
  BY DEF Arrangements
<1>2. /\ f \in [DOMAIN s -> DOMAIN s]
      /\ \A i, j \in DOMAIN s : f[i] = f[j] => i = j
  BY <1>1 DEF Bijection, Injection, IsInjective
<1>3. /\ DOMAIN s = 1 .. Len(s)
      /\ Len(s) \in Nat
      /\ \A i \in DOMAIN s : s[i] \in S
  BY LenProperties, ElementOfSeq
<1>4. t \in [1 .. Len(s) -> S]
  BY <1>1, <1>2, <1>3
<1>5. t \in Seq(S)
  BY <1>3, <1>4
<1> QED
  BY <1>1, <1>2, <1>5 DEF Drawn

\* A sort, and a prefix of its result, which is what the consumer of a
\* generator saw: elements of the original, each from a place of its own.
LEMMA SortedRowsAreArrangements ==
  ASSUME NEW r, NEW s
  PROVE  SortedRows(r, s) \subseteq Arrangements(s)
BY DEF SortedRows

\* A prefix of a rearrangement is a list of rows drawn from the rearranged ones.
LEMMA PrefixProperties ==
  ASSUME NEW S, NEW s \in Seq(S), NEW t \in Arrangements(s), NEW n \in 1 .. Len(s)
  PROVE  SubSeq(t, 1, n) \in Seq(S) /\ Drawn(SubSeq(t, 1, n), s)
<1> DEFINE u == SubSeq(t, 1, n)
<1>1. PICK f \in [DOMAIN t -> DOMAIN s] :
        /\ \A i, j \in DOMAIN t : f[i] = f[j] => i = j
        /\ \A i \in DOMAIN t : t[i] = s[f[i]]
  BY ArrangementsProperties DEF Drawn
<1>2. /\ t \in Seq(S) /\ DOMAIN t = 1 .. Len(s) /\ DOMAIN s = 1 .. Len(s)
      /\ Len(s) \in Nat /\ Len(t) = Len(s)
  BY ArrangementsProperties, LenProperties
<1>3. /\ u \in Seq(S)
      /\ DOMAIN u = 1 .. n
      /\ \A i \in 1 .. n : u[i] = t[i]
  BY <1>2, SubSeqProperties
<1> HIDE DEF u
<1> DEFINE g == [i \in DOMAIN u |-> f[i]]
<1>4. /\ g \in [DOMAIN u -> DOMAIN s]
      /\ \A i, j \in DOMAIN u : g[i] = g[j] => i = j
      /\ \A i \in DOMAIN u : u[i] = s[g[i]]
  BY <1>1, <1>2, <1>3
<1> HIDE DEF g
<1>5. Drawn(u, s)
  BY <1>4 DEF Drawn
<1> QED
  BY <1>3, <1>5 DEF u

\* The rows of a frame that has just been opened are rows.
LEMMA NewRowType ==
  ASSUME NEW p \in Pids \cup {0}
  PROVE  NewRow(p) \in Rows
BY DEF NewRow, Rows

-----------------------------------------------------------------------------
(* The initial states satisfy the invariant. *)

\* No call has been made: the invariant holds.
LEMMA InitIInv == Init => IInv
<1> SUFFICES ASSUME Init PROVE IInv
  OBVIOUS
<1> USE ProcTableAssumption, CollectAssumption
<1>1. ProcTypeOK
  BY InitTable DEF Init
<1>2. DetailsTypeOK
  BY NewRowType DEF Init, DetailsInit, DetailsTypeOK, NoRow, DetailsSteps, DetailsErrors
<1>3. CollectTypeOK
  BY DEF Init, CollectTypeOK
<1>4. FrameOK /\ OnePlace
  BY DEF Init, DetailsInit, FrameOK, OnePlace, ListDistinct, ListNotReported,
         FrameNotElsewhere, NothingReportedYet, RowsDistinct
<1> QED
  BY <1>1, <1>2, <1>3, <1>4 DEF IInv, TypeOK

-----------------------------------------------------------------------------
(* Every step preserves the invariant: one lemma per group of actions.  *)

\* The kernel touches neither the call nor its frame.
LEMMA KernelStep ==
  ASSUME IInv, Kernel, UNCHANGED <<detailsVars, collectVars>>
  PROVE  IInv'
<1> USE ProcTableAssumption, CollectAssumption
<1>1. ProcTypeOK'
  BY KernelType DEF IInv, TypeOK
<1> QED
  BY <1>1 DEF IInv, TypeOK, DetailsTypeOK, CollectTypeOK, FrameOK, OnePlace, ListDistinct,
              ListNotReported, FrameNotElsewhere, NothingReportedYet, RowsDistinct,
              detailsVars, collectVars

\* A call begins with an empty list, no rows and no frame.
LEMMA BeginStep ==
  ASSUME IInv, NEW r \in Requests, Begin(r)
  PROVE  IInv'
<1> USE ProcTableAssumption, CollectAssumption
<1>1. ProcTypeOK'
  <2>1. View(table) \subseteq Pids \X Nat
    BY ViewType DEF IInv, TypeOK, ProcTypeOK
  <2> QED
    BY <2>1 DEF IInv, TypeOK, ProcTypeOK, Begin, Mark, AlivePids
<1>2. dpc = "idle"
  BY DEF IInv, FrameOK, Begin
<1>3. DetailsTypeOK' /\ CollectTypeOK'
  BY DEF IInv, TypeOK, DetailsTypeOK, CollectTypeOK, Begin, detailsVars
<1>4. FrameOK' /\ OnePlace'
  BY <1>2 DEF Begin, detailsVars, FrameOK, OnePlace, ListDistinct, ListNotReported,
              FrameNotElsewhere, NothingReportedYet, RowsDistinct
<1> QED
  BY <1>1, <1>3, <1>4 DEF IInv, TypeOK

\* The parent's check, and an unusable procPath: no list and no row changes.
LEMMA CheckStep ==
  ASSUME IInv, ParentExists \/ ParentOpen \/ ListFails
  PROVE  IInv'
<1>1. UNCHANGED <<procVars, detailsVars, mount, req, pids, out>>
  BY DEF ParentExists, ParentOpen, ListFails
<1>2. /\ cpc \notin {"rows", "net"}
      /\ cpc' \in {"parentOpen", "list", "done"}
      /\ result' \in {result, "ok", "permissionDenied", "fileNotFound"}
      /\ cpc \in {"parentExists", "parentOpen", "list"}
  BY DEF ParentExists, ParentOpen, ListFails, Finish
<1> QED
  BY <1>1, <1>2 DEF IInv, TypeOK, ProcTypeOK, DetailsTypeOK, CollectTypeOK, FrameOK,
     OnePlace, ListDistinct, ListNotReported, FrameNotElsewhere, NothingReportedYet,
     RowsDistinct, procVars, detailsVars

\* readdir adds a PID that is not on the list, and the list is all there is.
LEMMA ListEntryStep ==
  ASSUME IInv, NEW p \in Pids, ListEntry(p)
  PROVE  IInv'
<1>1. UNCHANGED <<procVars, detailsVars, mount, cpc, req, out, result>>
  BY DEF ListEntry
<1>2. /\ cpc = "list" /\ out = <<>> /\ dpc = "idle"
      /\ pids \in Seq(Pids)
  BY DEF IInv, TypeOK, CollectTypeOK, FrameOK, OnePlace, NothingReportedYet, ListEntry
<1>3. /\ pids' \in Seq(Pids)
      /\ DOMAIN pids' = 1 .. Len(pids) + 1
      /\ \A i \in 1 .. Len(pids) : pids'[i] = pids[i]
      /\ pids'[Len(pids) + 1] = p
      /\ DOMAIN pids = 1 .. Len(pids)
      /\ Len(pids) \in Nat
  BY <1>2, AppendProperties, LenProperties DEF ListEntry
<1>4. \A i \in DOMAIN pids : pids[i] # p
  BY DEF ListEntry, Range
<1>5. ListDistinct'
  BY <1>3, <1>4 DEF IInv, OnePlace, ListDistinct
<1> QED
  BY <1>1, <1>2, <1>3, <1>5 DEF IInv, TypeOK, ProcTypeOK, DetailsTypeOK, CollectTypeOK,
     FrameOK, OnePlace, ListNotReported, FrameNotElsewhere, NothingReportedYet,
     RowsDistinct, procVars, detailsVars

\* Sorting the list keeps it a list of distinct PIDs.
LEMMA ListEndStep ==
  ASSUME IInv, ListEnd
  PROVE  IInv'
<1>1. /\ UNCHANGED <<procVars, detailsVars, mount, req, out, result>>
      /\ cpc = "list" /\ cpc' = "rows"
      /\ pids' \in Arrangements(pids)
  BY DEF ListEnd
<1>2. out = <<>> /\ dpc = "idle" /\ pids \in Seq(Pids)
  BY <1>1 DEF IInv, TypeOK, CollectTypeOK, FrameOK, OnePlace, NothingReportedYet
<1>3. /\ pids' \in Seq(Pids)
      /\ DOMAIN pids' = DOMAIN pids
      /\ Drawn(pids', pids)
  <2>1. DEFINE t == pids'
  <2>2. pids \in Seq(Pids) /\ t \in Arrangements(pids)
    BY <1>1, <1>2
  <2>3. /\ t \in Seq(Pids)
        /\ DOMAIN t = DOMAIN pids
        /\ Drawn(t, pids)
    <3> HIDE DEF t
    <3> QED
      BY <2>2, ArrangementsProperties
  <2> QED
    BY <2>3
<1>4. ListDistinct'
  BY <1>3 DEF IInv, OnePlace, ListDistinct, Drawn
<1> QED
  BY <1>1, <1>2, <1>3, <1>4 DEF IInv, TypeOK, ProcTypeOK, DetailsTypeOK, CollectTypeOK,
     FrameOK, OnePlace, ListNotReported, FrameNotElsewhere, NothingReportedYet,
     RowsDistinct, procVars, detailsVars

\* The first PID moves from the list to the frame (or is passed over).
LEMMA NextPidStep ==
  ASSUME IInv, NextPid
  PROVE  IInv'
<1>1. /\ UNCHANGED <<procVars, mount, cpc, req, out, result>>
      /\ cpc = "rows" /\ dpc = "idle" /\ pids # <<>> /\ pids' = Tail(pids)
      /\ pids \in Seq(Pids)
  BY DEF NextPid, IInv, TypeOK, CollectTypeOK
<1>2. /\ Head(pids) = pids[1] /\ Head(pids) \in Pids
      /\ pids' \in Seq(Pids)
      /\ DOMAIN pids' = 1 .. Len(pids) - 1
      /\ \A i \in 1 .. Len(pids) - 1 : pids'[i] = pids[i + 1]
      /\ DOMAIN pids = 1 .. Len(pids)
      /\ Len(pids) \in Nat \ {0}
  BY <1>1, HeadTailProperties, LenProperties, EmptySeq
<1>3. \/ UNCHANGED detailsVars
      \/ CallDetails(pids[1])
  BY <1>2 DEF NextPid
<1>4. DetailsTypeOK' /\ FrameOK'
  BY <1>1, <1>2, <1>3, NewRowType
     DEF IInv, TypeOK, DetailsTypeOK, FrameOK, CallDetails, NewRow, detailsVars, DetailsSteps,
         DetailsErrors
<1>5. ListDistinct'
  <2> SUFFICES ASSUME NEW i \in 1 .. Len(pids) - 1, NEW j \in 1 .. Len(pids) - 1,
                      pids'[i] = pids'[j]
               PROVE  i = j
    BY <1>2 DEF ListDistinct
  <2>1. pids[i + 1] = pids[j + 1]
    BY <1>2
  <2>2. i + 1 \in DOMAIN pids /\ j + 1 \in DOMAIN pids
    BY <1>2
  <2>3. i + 1 = j + 1
    BY <2>1, <2>2 DEF IInv, OnePlace, ListDistinct
  <2> QED
    BY <2>3
<1>6. ListNotReported'
  BY <1>1, <1>2 DEF IInv, OnePlace, ListNotReported
<1>7. FrameNotElsewhere'
  <2>1. \A i \in DOMAIN pids' : pids'[i] # pids[1]
    BY <1>2 DEF IInv, OnePlace, ListDistinct
  <2>2. \A k \in DOMAIN out : out[k].pid # pids[1]
    BY <1>2 DEF IInv, OnePlace, ListNotReported
  <2> QED
    BY <1>1, <1>3, <2>1, <2>2 DEF FrameNotElsewhere, CallDetails, NewRow, detailsVars
<1> QED
  BY <1>1, <1>2, <1>4, <1>5, <1>6, <1>7 DEF IInv, TypeOK, ProcTypeOK, CollectTypeOK,
     OnePlace, NothingReportedYet, RowsDistinct, procVars

\* A read of getProcessDetails changes the frame only, and leaves its PID.
LEMMA ReadStep ==
  ASSUME IInv, ReadDetails
  PROVE  IInv'
<1>1. UNCHANGED <<procVars, collectVars>>
  BY DEF ReadDetails
<1>2. /\ dpc # "idle" /\ dpc # "done"
      /\ dpc' \in DetailsSteps /\ dpc' # "idle"
      /\ derr' \in DetailsErrors
      /\ cpc # "net"
  BY DEF ReadDetails, DetailsNext, CheckExists, CheckOpen, ReadStat, ReadOptional, FailDetails,
         AfterPart, OptionalParts, DetailsSteps, DetailsErrors, IInv, TypeOK, DetailsTypeOK,
         FrameOK
<1>3. row \in Rows /\ row.pid \in Pids /\ cpc = "rows"
  BY <1>2 DEF IInv, TypeOK, DetailsTypeOK, FrameOK
<1>4. table[row.pid] \in Processes
  BY <1>3 DEF IInv, TypeOK, ProcTypeOK
<1>5. table[row.pid].born \in Nat /\ table[row.pid].ppid \in Pids \cup {0}
  BY <1>4 DEF Processes
<1>6. row' \in Rows /\ row'.pid = row.pid
  <2>1. CASE UNCHANGED row
    BY <2>1, <1>3
  <2>2. CASE ReadStat /\ row' # row
    <3>1. NewRow(row.pid).part \in [Parts -> Nat]
      BY DEF NewRow
    <3> QED
      BY <2>2, <1>3, <1>5, <3>1 DEF ReadStat, FailDetails, Rows
  <2>3. ASSUME NEW part \in OptionalParts, ReadOptional(part)
        PROVE  row' \in Rows /\ row'.pid = row.pid
    <3>1. row.part \in [Parts -> Nat]
      BY <1>3 DEF Rows
    <3>2. [row.part EXCEPT ![part] = table[row.pid].born] \in [Parts -> Nat]
      BY <3>1, <1>5
    <3> QED
      BY <2>3, <1>3, <3>2 DEF ReadOptional, Rows
  <2> QED
    BY <2>1, <2>2, <2>3 DEF ReadDetails, DetailsNext, CheckExists, CheckOpen, FailDetails
<1> QED
  BY <1>1, <1>2, <1>3, <1>6 DEF IInv, TypeOK, ProcTypeOK, DetailsTypeOK, CollectTypeOK, FrameOK,
     OnePlace, ListDistinct, ListNotReported, FrameNotElsewhere, NothingReportedYet,
     RowsDistinct, procVars, collectVars

\* A row joins the rows: its PID is in no other row and not on the list.
LEMMA ReportRow ==
  ASSUME IInv, NEW r \in Rows, r.pid = row.pid, dpc = "done", cpc \in {"rows", "net"},
         out' = Append(out, r), pids' = pids, cpc' = "rows", EndDetails,
         UNCHANGED <<procVars, mount, req, result>>
  PROVE  IInv'
<1>1. /\ out \in Seq(Rows) /\ dpc # "idle"
  BY DEF IInv, TypeOK, CollectTypeOK
<1>2. /\ out' \in Seq(Rows)
      /\ DOMAIN out' = 1 .. Len(out) + 1
      /\ \A k \in 1 .. Len(out) : out'[k] = out[k]
      /\ out'[Len(out) + 1] = r
      /\ DOMAIN out = 1 .. Len(out)
      /\ Len(out) \in Nat
  BY <1>1, AppendProperties, LenProperties
<1>3. RowsDistinct'
  BY <1>1, <1>2 DEF IInv, OnePlace, RowsDistinct, FrameNotElsewhere
<1>4. ListNotReported'
  BY <1>1, <1>2 DEF IInv, OnePlace, ListNotReported, FrameNotElsewhere
<1>5. DetailsTypeOK' /\ dpc' = "idle"
  BY NewRowType DEF EndDetails, DetailsTypeOK, NoRow, DetailsSteps, DetailsErrors
<1> QED
  BY <1>2, <1>3, <1>4, <1>5 DEF IInv, TypeOK, ProcTypeOK, CollectTypeOK, FrameOK, OnePlace,
     ListDistinct, FrameNotElsewhere, NothingReportedYet, procVars

\* A row is dropped, or its frame kept for the network filter.
LEMMA KeepOrDropRow ==
  ASSUME IInv, dpc = "done", cpc \in {"rows", "net"}, UNCHANGED <<out, pids>>,
         \/ cpc' = "rows" /\ EndDetails
         \/ cpc' = "net" /\ derr = "none" /\ UNCHANGED detailsVars,
         UNCHANGED <<procVars, mount, req, result>>
  PROVE  IInv'
<1>1. DetailsTypeOK'
  BY NewRowType DEF IInv, TypeOK, EndDetails, DetailsTypeOK, NoRow, DetailsSteps, DetailsErrors,
     detailsVars
<1>2. FrameOK' /\ FrameNotElsewhere'
  BY DEF IInv, FrameOK, OnePlace, FrameNotElsewhere, EndDetails, detailsVars
<1> QED
  BY <1>1, <1>2 DEF IInv, TypeOK, ProcTypeOK, CollectTypeOK, OnePlace, ListDistinct,
     ListNotReported, NothingReportedYet, RowsDistinct, procVars

\* A row that is taken leaves the frame, and is in one place still.
LEMMA TakeRowStep ==
  ASSUME IInv, TakeRow
  PROVE  IInv'
<1>1. row \in Rows
  BY DEF IInv, TypeOK, DetailsTypeOK
<1>2. CASE out' = Append(out, row) /\ EndDetails /\ cpc' = cpc
  BY <1>1, <1>2, ReportRow DEF TakeRow
<1>3. CASE ~(out' = Append(out, row) /\ EndDetails /\ cpc' = cpc)
  BY <1>3, KeepOrDropRow DEF TakeRow
<1> QED
  BY <1>2, <1>3

\* The connections of a frame are read into it, or its PID is let go.
LEMMA ReadConnectionsStep ==
  ASSUME IInv, ReadConnections
  PROVE  IInv'
<1>1. /\ row \in Rows /\ dpc = "done" /\ row.pid \in Pids
      /\ cpc = "net" /\ cpc' = "rows" /\ EndDetails /\ pids' = pids
      /\ UNCHANGED <<procVars, mount, req, result>>
  BY DEF IInv, TypeOK, DetailsTypeOK, FrameOK, ReadConnections
<1>2. [row EXCEPT !.part = [row.part EXCEPT !["net"] = table[row.pid].born]] \in Rows
  <2>1. table[row.pid] \in Processes
    BY <1>1 DEF IInv, TypeOK, ProcTypeOK
  <2>2. table[row.pid].born \in Nat
    BY <2>1 DEF Processes
  <2> QED
    BY <1>1, <2>2 DEF Rows
<1>3. CASE out' = out
  BY <1>1, <1>3, KeepOrDropRow
<1>4. CASE out' # out
  BY <1>1, <1>2, <1>4, ReportRow DEF ReadConnections, Rows
<1> QED
  BY <1>3, <1>4

\* The call returns its rows, sorted perhaps: the same rows at other places.
LEMMA ReturnRowsStep ==
  ASSUME IInv, ReturnRows
  PROVE  IInv'
<1>1. /\ UNCHANGED <<procVars, detailsVars, mount, req, pids>>
      /\ cpc = "rows" /\ dpc = "idle" /\ pids = <<>>
      /\ cpc' = "done" /\ result' = "ok"
      /\ out' = out \/ out' \in Arrangements(out)
  BY SortedRowsAreArrangements DEF ReturnRows, Finish
<1>2. out \in Seq(Rows)
  BY DEF IInv, TypeOK, CollectTypeOK
<1>3. out' \in Seq(Rows) /\ RowsDistinct'
  <2>1. CASE out' = out
    BY <1>2, <2>1 DEF IInv, OnePlace, RowsDistinct
  <2>2. CASE out' \in Arrangements(out)
    <3>1. DEFINE t == out'
    <3>2. /\ t \in Seq(Rows)
          /\ Drawn(t, out)
      <4>1. t \in Arrangements(out)
        BY <2>2
      <4> HIDE DEF t
      <4> QED
        BY <1>2, <4>1, ArrangementsProperties
    <3>3. \A i, j \in DOMAIN t : t[i].pid = t[j].pid => i = j
      <4> HIDE DEF t
      <4> QED
        BY <3>2 DEF IInv, OnePlace, RowsDistinct, Drawn
    <3> QED
      BY <3>2, <3>3 DEF RowsDistinct
  <2> QED
    BY <1>1, <2>1, <2>2
<1> QED
  BY <1>1, <1>3 DEF IInv, TypeOK, ProcTypeOK, DetailsTypeOK, CollectTypeOK, FrameOK, OnePlace,
     ListDistinct, ListNotReported, FrameNotElsewhere, NothingReportedYet, procVars, detailsVars

\* A consumer that goes away has seen some of the rows, sorted perhaps.
LEMMA AbandonRows ==
  ASSUME out \in Seq(Rows), Abandon
  PROVE  out' = out \/ (out' \in Seq(Rows) /\ Drawn(out', out))
<1>1. CASE out' = out
  BY <1>1
<1>2. CASE out' # out
  <2>1. PICK t \in SortedRows(req, out), n \in 1 .. Len(out) : out' = SubSeq(t, 1, n)
    BY <1>2 DEF Abandon
  <2>2. t \in Arrangements(out)
    BY <2>1, SortedRowsAreArrangements
  <2>3. SubSeq(t, 1, n) \in Seq(Rows) /\ Drawn(SubSeq(t, 1, n), out)
    BY <2>2, PrefixProperties
  <2> QED
    BY <2>1, <2>3
<1> QED
  BY <1>1, <1>2

\* A call that is given up reports nothing.
LEMMA AbandonStep ==
  ASSUME IInv, Abandon
  PROVE  IInv'
<1>1. /\ UNCHANGED <<procVars, detailsVars, mount, req>>
      /\ cpc = "rows" /\ dpc = "idle" /\ pids' = <<>>
      /\ cpc' = "done" /\ result' = "abandoned"
      /\ out \in Seq(Rows)
  BY DEF Abandon, Finish, IInv, TypeOK, CollectTypeOK
<1>2. out' \in Seq(Rows) /\ RowsDistinct'
  <2> DEFINE u == out'
  <2>1. u = out \/ (u \in Seq(Rows) /\ Drawn(u, out))
    BY <1>1, AbandonRows
  <2>2. u \in Seq(Rows) /\ \A i, j \in DOMAIN u : u[i].pid = u[j].pid => i = j
    <3> HIDE DEF u
    <3> QED
      BY <1>1, <2>1 DEF IInv, OnePlace, RowsDistinct, Drawn
  <2> QED
    BY <2>2 DEF RowsDistinct
<1> QED
  BY <1>1, <1>2 DEF IInv, TypeOK, ProcTypeOK, DetailsTypeOK, CollectTypeOK, FrameOK, OnePlace,
     ListDistinct, ListNotReported, FrameNotElsewhere, NothingReportedYet, procVars, detailsVars

\* The invariant is about these variables only.
LEMMA StutterStep ==
  ASSUME IInv, UNCHANGED vars
  PROVE  IInv'
BY DEF vars, procVars, detailsVars, collectVars, IInv, TypeOK, ProcTypeOK, DetailsTypeOK,
   CollectTypeOK, FrameOK, OnePlace, ListDistinct, ListNotReported, FrameNotElsewhere,
   NothingReportedYet, RowsDistinct

\* Every step of the kernel and of the call keeps a PID in one place.
LEMMA NextIInv == IInv /\ [Next]_vars => IInv'
<1> SUFFICES ASSUME IInv, [Next]_vars PROVE IInv'
  OBVIOUS
<1>1. CASE \E r \in Requests : Begin(r)
  BY <1>1, BeginStep
<1>2. CASE ParentExists \/ ParentOpen \/ ListFails
  BY <1>2, CheckStep
<1>3. CASE \E p \in Pids : ListEntry(p)
  BY <1>3, ListEntryStep
<1>4. CASE ListEnd
  BY <1>4, ListEndStep
<1>5. CASE NextPid
  BY <1>5, NextPidStep
<1>6. CASE ReadDetails
  BY <1>6, ReadStep
<1>7. CASE TakeRow
  BY <1>7, TakeRowStep
<1>8. CASE ReadConnections
  BY <1>8, ReadConnectionsStep
<1>9. CASE ReturnRows
  BY <1>9, ReturnRowsStep
<1>10. CASE Abandon
  BY <1>10, AbandonStep
<1>11. CASE Kernel /\ UNCHANGED <<detailsVars, collectVars>>
  BY <1>11, KernelStep
<1>12. CASE UNCHANGED vars
  BY <1>12, StutterStep
<1> QED
  BY <1>1, <1>2, <1>3, <1>4, <1>5, <1>6, <1>7, <1>8, <1>9, <1>10, <1>11, <1>12
     DEF Next, Analyzer

-----------------------------------------------------------------------------
(* The theorems. *)

\* The invariant holds in every reachable state.
THEOREM Invariance == Spec => []IInv
<1>1. Init => IInv
  BY InitIInv
<1>2. IInv /\ [Next]_vars => IInv'
  BY NextIInv
<1> QED
  BY <1>1, <1>2, PTL DEF Spec

\* Every variable of a listing call keeps its type.
THEOREM TypeCorrect == Spec => []TypeOK
<1>1. IInv => TypeOK
  BY DEF IInv
<1> QED
  BY <1>1, Invariance, PTL

\* No listing call ever reports a PID twice, whatever the kernel does between
\* its reads.
THEOREM NoPidTwice == Spec => []RowsDistinct
<1>1. IInv => RowsDistinct
  BY DEF IInv, OnePlace
<1> QED
  BY <1>1, Invariance, PTL

-----------------------------------------------------------------------------
(***************************************************************************)
(* The parts of a row are never older than the parts read before them.     *)
(* While a frame is open, no part in it is younger than the process its    *)
(* PID names now, and the parts still to be read are 0; a process forked   *)
(* later is younger than everything, because births only grow.             *)
(***************************************************************************)
Place(step) ==
  CASE step = "status"  -> 2
    [] step = "cmdline" -> 3
    [] step = "exe"     -> 4
    [] step = "cwd"     -> 5
    [] step = "io"      -> 6
    [] step = "done"    -> 7
    [] OTHER            -> 1

FrameBounded ==
  \A x \in Parts :
    /\ row.part[x] <= births
    /\ Alive(row.pid) => row.part[x] <= table[row.pid].born
FrameUnread == \A i \in 1 .. 7 : i >= Place(dpc) => row.part[PartOrder[i]] = 0
FrameStarted ==
  dpc \in OptionalParts \/ (dpc = "done" /\ derr = "none") => row.part["stat"] > 0

FrameInOrder ==
  dpc # "idle" => RowInOrder(row) /\ FrameBounded /\ FrameUnread /\ FrameStarted

PartsInv == BirthsBounded /\ FrameInOrder /\ PartsInOrder

\* The order in which a process's files are read, spelled out.
LEMMA PartOrderValues ==
  /\ DOMAIN PartOrder = 1 .. 7
  /\ PartOrder[1] = "stat" /\ PartOrder[2] = "status" /\ PartOrder[3] = "cmdline"
  /\ PartOrder[4] = "exe" /\ PartOrder[5] = "cwd" /\ PartOrder[6] = "io"
  /\ PartOrder[7] = "net"
  /\ \A i \in 1 .. 7 : PartOrder[i] \in Parts
BY DEF PartOrder, Parts, OptionalParts

\* Each optional part has its place in that order, and the next comes after it.
LEMMA PartPlaces ==
  ASSUME NEW part \in OptionalParts
  PROVE  /\ Place(part) \in 2 .. 6
         /\ Place(AfterPart(part)) = Place(part) + 1
         /\ part = PartOrder[Place(part)]
<1>1. part \in {"status", "cmdline", "exe", "cwd", "io"}
  BY DEF OptionalParts
<1>2. Place(part) \in 2 .. 6 /\ part = PartOrder[Place(part)]
  BY <1>1, PartOrderValues DEF Place
<1>3. Place(AfterPart(part)) = Place(part) + 1
  BY <1>1 DEF Place, AfterPart
<1> QED
  BY <1>2, <1>3

\* The part in place n is read: what is read is not older than what the row
\* holds, what comes after it is not read yet, so the row stays in order.
LEMMA ReadKeepsOrder ==
  ASSUME NEW r \in Rows, RowInOrder(r), r.part["stat"] > 0,
         NEW n \in 2 .. 7, NEW b \in Nat,
         \A x \in Parts : r.part[x] <= b,
         \A i \in 1 .. 7 : i >= n => r.part[PartOrder[i]] = 0,
         NEW t \in Rows, t.part = [r.part EXCEPT ![PartOrder[n]] = b]
  PROVE  RowInOrder(t)
<1>1. r.part \in [Parts -> Nat] /\ t.part \in [Parts -> Nat]
  BY DEF Rows
<1>2. \A i, j \in 1 .. 7 : PartOrder[i] = PartOrder[j] => i = j
  BY PartOrderValues
<1>3. \A i \in 1 .. 7 : t.part[PartOrder[i]] = IF i = n THEN b ELSE r.part[PartOrder[i]]
  BY <1>1, <1>2, PartOrderValues
<1>4. t.part["stat"] = r.part["stat"]
  BY <1>3, PartOrderValues
<1>5. SUFFICES ASSUME NEW i \in 1 .. 7, NEW j \in 1 .. 7, i < j,
                      t.part[PartOrder[j]] # 0
               PROVE  t.part[PartOrder[i]] <= t.part[PartOrder[j]]
  BY <1>4, PartOrderValues DEF RowInOrder
<1>6. CASE j = n
  BY <1>1, <1>3, <1>5, <1>6, PartOrderValues
<1>7. CASE j # n
  <2>1. j < n /\ i # n
    BY <1>3, <1>5, <1>7
  <2> QED
    BY <1>3, <1>5, <1>7, <2>1, PartOrderValues DEF RowInOrder
<1> QED
  BY <1>6, <1>7
\* Initially there is no frame and no row, and no process is younger than the
\* birth clock says.
LEMMA PartsInit == Init => PartsInv
<1> SUFFICES ASSUME Init PROVE PartsInv
  OBVIOUS
<1>1. BirthsBounded
  BY InitTable DEF Init
<1> QED
  BY <1>1 DEF Init, DetailsInit, PartsInv, FrameInOrder, PartsInOrder

\* A process that is forked is younger than everything read so far; one that
\* exits leaves no process to compare with.
LEMMA PartsKernelStep ==
  ASSUME IInv, PartsInv, Kernel, UNCHANGED <<detailsVars, collectVars>>
  PROVE  PartsInv'
<1>1. /\ row' = row /\ dpc' = dpc /\ derr' = derr /\ out' = out
      /\ table \in [Pids -> Processes] /\ births \in Nat /\ row \in Rows
      /\ dpc # "idle" => row.pid \in Pids
  BY DEF detailsVars, collectVars, IInv, TypeOK, ProcTypeOK, DetailsTypeOK, FrameOK
<1>2. \A p \in Pids : table[p].born \in Nat /\ table[p].born <= births
  BY <1>1 DEF PartsInv, BirthsBounded, Processes
<1>3. /\ births' \in Nat /\ births' >= births
      /\ \A p \in Pids : /\ table'[p].born <= births'
                         /\ table'[p].born # 0 => table'[p].born \in {table[p].born, births + 1}
  BY <1>1, <1>2, KernelBirths DEF IInv, TypeOK
<1>4. FrameBounded' \/ dpc = "idle"
  <2> SUFFICES ASSUME dpc # "idle", NEW x \in Parts
               PROVE  /\ row.part[x] <= births'
                      /\ table'[row.pid].born # 0 => row.part[x] <= table'[row.pid].born
    BY <1>1 DEF FrameBounded, Alive
  <2>1. row.part[x] \in Nat /\ row.pid \in Pids
    BY <1>1 DEF Rows
  <2>2. row.part[x] <= births /\ (table[row.pid].born # 0 => row.part[x] <= table[row.pid].born)
    BY DEF PartsInv, FrameInOrder, FrameBounded, Alive
  <2> QED
    BY <1>1, <1>3, <2>1, <2>2
<1> QED
  BY <1>1, <1>3, <1>4 DEF PartsInv, BirthsBounded, FrameInOrder, PartsInOrder, FrameUnread,
     FrameStarted
\* Steps that read no part: the rows stay or are gone, the frame stays, is
\* gone or is new.
LEMMA PartsOtherStep ==
  ASSUME IInv, PartsInv, UNCHANGED <<table, births>>,
         out' = out \/ out' = <<>>,
         UNCHANGED detailsVars \/ dpc' = "idle" \/ \E p \in Pids : CallDetails(p)
  PROVE  PartsInv'
<1>1. BirthsBounded'
  BY DEF PartsInv, BirthsBounded
<1>2. PartsInOrder'
  BY DEF PartsInv, PartsInOrder
<1>3. FrameInOrder'
  <2>1. CASE UNCHANGED detailsVars
    BY <2>1 DEF PartsInv, FrameInOrder, FrameBounded, FrameUnread, FrameStarted, detailsVars, Alive
  <2>2. CASE dpc' = "idle"
    BY <2>2 DEF FrameInOrder
  <2>3. ASSUME NEW p \in Pids, CallDetails(p)
        PROVE  FrameInOrder'
    <3>1. /\ dpc' = "exists" /\ row' = NewRow(p)
          /\ \A x \in Parts : NewRow(p).part[x] = 0
      BY <2>3 DEF CallDetails, NewRow
    <3>2. births \in Nat /\ table' = table /\ births' = births /\ table[p] \in Processes
      BY DEF IInv, TypeOK, ProcTypeOK
    <3>3. table[p].born \in Nat
      BY <3>2 DEF Processes
    <3>4. RowInOrder(row')
      BY <3>1, PartOrderValues DEF RowInOrder
    <3>5. FrameBounded'
      <4>1. row'.pid = p
        BY <3>1 DEF NewRow
      <4> QED
        BY <3>1, <3>2, <3>3, <4>1 DEF FrameBounded, Alive
    <3>6. FrameUnread' /\ FrameStarted'
      BY <3>1, PartOrderValues DEF FrameUnread, FrameStarted, OptionalParts
    <3> QED
      BY <3>4, <3>5, <3>6 DEF FrameInOrder
  <2> QED
    BY <2>1, <2>2, <2>3
<1> QED
  BY <1>1, <1>2, <1>3 DEF PartsInv

\* The reads of getProcessDetails, one after the other.
LEMMA PartsReadStep ==
  ASSUME IInv, PartsInv, ReadDetails
  PROVE  PartsInv'
<1>1. /\ dpc \in DetailsSteps \ {"idle", "done"} /\ row \in Rows /\ row.pid \in Pids
      /\ table \in [Pids -> Processes] /\ births \in Nat
      /\ table' = table /\ births' = births /\ out' = out
      /\ derr' # derr => dpc' = "done" /\ derr' # "none"
  <2>1. dpc \in DetailsSteps \ {"idle", "done"}
    BY DEF ReadDetails, DetailsNext, CheckExists, CheckOpen, ReadStat, ReadOptional,
           OptionalParts, DetailsSteps
  <2>2. derr' # derr => dpc' = "done" /\ derr' # "none"
    <3>1. ASSUME CheckExists \/ CheckOpen \/ ReadStat PROVE derr' # derr => dpc' = "done" /\ derr' # "none"
      BY <3>1 DEF CheckExists, CheckOpen, ReadStat, FailDetails
    <3>2. ASSUME NEW part \in OptionalParts, ReadOptional(part) PROVE derr' = derr
      BY <3>2 DEF ReadOptional
    <3> QED
      BY <3>1, <3>2 DEF ReadDetails, DetailsNext
  <2> QED
    BY <2>1, <2>2 DEF ReadDetails, IInv, TypeOK, DetailsTypeOK, FrameOK, ProcTypeOK, procVars,
       collectVars
<1>2. /\ RowInOrder(row) /\ FrameBounded /\ FrameUnread /\ FrameStarted
      /\ row.part \in [Parts -> Nat]
      /\ table[row.pid].born \in Nat
      /\ table[row.pid].born <= births
  <2>1. table[row.pid] \in Processes
    BY <1>1
  <2> QED
    BY <1>1, <2>1 DEF PartsInv, FrameInOrder, BirthsBounded, Rows, Processes
<1>3. FrameInOrder'
  <2>1. CASE UNCHANGED row /\ dpc' \in {"opendir", "stat"} /\ dpc \in {"exists", "opendir"}
    BY <1>1, <1>2, <2>1, PartOrderValues
       DEF FrameInOrder, FrameBounded, FrameUnread, FrameStarted, Place, OptionalParts, Alive
  <2>2. CASE UNCHANGED row /\ dpc' = "done" /\ derr' # "none"
    <3>1. Place(dpc) <= 7 /\ Place("done") = 7
      BY <1>1 DEF Place, DetailsSteps, OptionalParts
    <3>2. FrameUnread'
      BY <1>2, <2>2, <3>1 DEF FrameUnread, Place
    <3> QED
      BY <1>1, <1>2, <2>2, <3>2
         DEF FrameInOrder, FrameBounded, FrameStarted, OptionalParts, Alive
  <2>3. CASE ReadStat /\ dpc' = "status"
    <3>1. /\ row'.pid = row.pid
          /\ row'.part = [NewRow(row.pid).part EXCEPT !["stat"] = table[row.pid].born]
          /\ Alive(row.pid)
      BY <2>3 DEF ReadStat, FailDetails, Readable
    <3>2. \A x \in Parts : row'.part[x] = IF x = "stat" THEN table[row.pid].born ELSE 0
      BY <3>1 DEF NewRow
    <3>3. \A i \in 1 .. 7 : row'.part[PartOrder[i]]
                            = IF i = 1 THEN table[row.pid].born ELSE 0
      BY <3>2, PartOrderValues
    <3>4. row'.part["stat"] > 0
      BY <1>2, <3>1, <3>2 DEF Alive, Parts
    <3>5. RowInOrder(row')
      BY <3>3, <3>4, PartOrderValues DEF RowInOrder
    <3>6. FrameBounded'
      BY <1>1, <1>2, <3>1, <3>2 DEF FrameBounded, Alive
    <3>7. FrameUnread'
      BY <2>3, <3>3 DEF FrameUnread, Place
    <3> QED
      BY <3>4, <3>5, <3>6, <3>7 DEF FrameInOrder, FrameStarted
  <2>4. ASSUME NEW part \in OptionalParts, ReadOptional(part)
        PROVE  FrameInOrder'
    <3>1. /\ dpc = part /\ dpc' = AfterPart(part) /\ row.part["stat"] > 0
          /\ Place(dpc') = Place(part) + 1 /\ Place(part) \in 2 .. 6
          /\ part = PartOrder[Place(part)]
      <4>1. dpc = part /\ dpc' = AfterPart(part)
        BY <2>4 DEF ReadOptional
      <4>2. row.part["stat"] > 0
        BY <1>2, <4>1 DEF FrameStarted
      <4> QED
        BY <4>1, <4>2, PartPlaces
    <3>2. CASE row' = row
      BY <1>1, <1>2, <3>1, <3>2
         DEF FrameInOrder, FrameBounded, FrameUnread, FrameStarted, Alive
    <3>3. CASE row' # row
      <4>1. /\ row' = [row EXCEPT !.part = [row.part EXCEPT ![part] = table[row.pid].born]]
            /\ Alive(row.pid)
        BY <2>4, <3>3 DEF ReadOptional, Readable
      <4>2. row' \in Rows /\ row'.pid = row.pid
            /\ row'.part = [row.part EXCEPT ![PartOrder[Place(part)]] = table[row.pid].born]
        BY <1>1, <1>2, <3>1, <4>1 DEF Rows, Parts
      <4>3. \A x \in Parts : row.part[x] <= table[row.pid].born
        BY <1>2, <4>1 DEF FrameBounded
      <4>4. \A i \in 1 .. 7 : i >= Place(part) => row.part[PartOrder[i]] = 0
        BY <1>2, <3>1 DEF FrameUnread
      <4>5. RowInOrder(row')
        <5> DEFINE t == row'
                   n == Place(part)
                   b == table[row.pid].born
        <5>1. /\ t \in Rows /\ n \in 2 .. 7 /\ b \in Nat
              /\ t.part = [row.part EXCEPT ![PartOrder[n]] = b]
              /\ \A x \in Parts : row.part[x] <= b
              /\ \A i \in 1 .. 7 : i >= n => row.part[PartOrder[i]] = 0
          BY <1>2, <3>1, <4>2, <4>3, <4>4
        <5> HIDE DEF t, n, b
        <5>2. RowInOrder(t)
          BY <1>1, <1>2, <3>1, <5>1, ReadKeepsOrder
        <5> QED
          BY <5>2 DEF t
      <4>6. \A x \in Parts : row'.part[x] = IF x = part THEN table[row.pid].born ELSE row.part[x]
        BY <1>2, <3>1, <4>2
      <4>7. FrameBounded'
        BY <1>1, <1>2, <4>2, <4>3, <4>6 DEF FrameBounded, Alive
      <4>8. FrameUnread'
        <5>1. \A i, j \in 1 .. 7 : PartOrder[i] = PartOrder[j] => i = j
          BY PartOrderValues
        <5>2. \A i \in 1 .. 7 : i >= Place(part) + 1 => row'.part[PartOrder[i]] = 0
          BY <3>1, <4>4, <4>6, <5>1, PartOrderValues
        <5> QED
          BY <3>1, <5>2 DEF FrameUnread
      <4>9. FrameStarted'
        BY <3>1, <4>6 DEF FrameStarted, Parts, OptionalParts
      <4> QED
        BY <4>5, <4>7, <4>8, <4>9 DEF FrameInOrder
    <3> QED
      BY <3>2, <3>3
  <2> QED
    BY <2>1, <2>2, <2>3, <2>4
       DEF ReadDetails, DetailsNext, CheckExists, CheckOpen, ReadStat, FailDetails
<1> QED
  BY <1>1, <1>3 DEF PartsInv, BirthsBounded, PartsInOrder
\* A row in order joins rows in order.
LEMMA PartsReport ==
  ASSUME IInv, PartsInv, UNCHANGED <<table, births>>, dpc' = "idle",
         NEW r \in Rows, RowInOrder(r), out' = Append(out, r)
  PROVE  PartsInv'
<1>1. out \in Seq(Rows)
  BY DEF IInv, TypeOK, CollectTypeOK
<1>2. /\ DOMAIN out' = 1 .. Len(out) + 1
      /\ \A k \in 1 .. Len(out) : out'[k] = out[k]
      /\ out'[Len(out) + 1] = r
      /\ DOMAIN out = 1 .. Len(out)
      /\ Len(out) \in Nat
  BY <1>1, AppendProperties, LenProperties
<1>3. PartsInOrder'
  <2> SUFFICES ASSUME NEW k \in DOMAIN out' PROVE RowInOrder(out'[k])
    BY DEF PartsInOrder
  <2>1. CASE k = Len(out) + 1
    BY <1>2, <2>1
  <2>2. CASE k # Len(out) + 1
    BY <1>2, <2>2 DEF PartsInv, PartsInOrder
  <2> QED
    BY <2>1, <2>2
<1> QED
  BY <1>3 DEF PartsInv, BirthsBounded, FrameInOrder

\* The row taken has its parts in the order in which they were read.
LEMMA PartsTakeRowStep ==
  ASSUME IInv, PartsInv, TakeRow
  PROVE  PartsInv'
<1>1. /\ dpc = "done" /\ row \in Rows /\ RowInOrder(row)
      /\ UNCHANGED <<table, births>>
  BY DEF TakeRow, IInv, TypeOK, DetailsTypeOK, PartsInv, FrameInOrder, procVars
<1>2. CASE out' = Append(out, row) /\ EndDetails
  BY <1>1, <1>2, PartsReport DEF EndDetails
<1>3. CASE ~(out' = Append(out, row) /\ EndDetails)
  <2>1. out' = out
    BY <1>3 DEF TakeRow
  <2>2. UNCHANGED detailsVars \/ dpc' = "idle"
    BY DEF TakeRow, EndDetails
  <2> QED
    BY <1>1, <2>1, <2>2, PartsOtherStep
<1> QED
  BY <1>2, <1>3

\* The network filter's read is the last one: part 7 of the order.
LEMMA PartsReadConnectionsStep ==
  ASSUME IInv, PartsInv, ReadConnections
  PROVE  PartsInv'
<1>1. /\ cpc = "net" /\ dpc = "done" /\ derr = "none"
      /\ row \in Rows /\ row.pid \in Pids
      /\ RowInOrder(row) /\ FrameBounded /\ FrameUnread /\ FrameStarted
      /\ UNCHANGED <<table, births>> /\ dpc' = "idle"
  BY DEF ReadConnections, EndDetails, IInv, TypeOK, DetailsTypeOK, FrameOK, PartsInv,
         FrameInOrder, procVars
<1>2. CASE out' = out
  BY <1>1, <1>2, PartsOtherStep
<1>3. CASE out' # out
  <2> DEFINE b == table[row.pid].born
             t == [row EXCEPT !.part = [row.part EXCEPT !["net"] = b]]
  <2>1. out' = Append(out, t) /\ Alive(row.pid)
    BY <1>3 DEF ReadConnections, Readable
  <2>2. b \in Nat
    <3>1. table[row.pid] \in Processes
      BY <1>1 DEF IInv, TypeOK, ProcTypeOK
    <3> QED
      BY <3>1 DEF Processes
  <2>3. t \in Rows /\ t.part = [row.part EXCEPT ![PartOrder[7]] = b]
    BY <1>1, <2>2, PartOrderValues DEF Rows
  <2>4. \A x \in Parts : row.part[x] <= b
    BY <1>1, <2>1 DEF FrameBounded
  <2>5. row.part[PartOrder[7]] = 0
    BY <1>1 DEF FrameUnread, Place
  <2>6. CASE row.part["stat"] > 0
    <3> HIDE DEF t, b
    <3>1. RowInOrder(t)
      BY <1>1, <2>2, <2>3, <2>4, <2>5, <2>6, ReadKeepsOrder
    <3> QED
      BY <1>1, <2>1, <2>3, <3>1, PartsReport
  <2> QED
    BY <1>1, <2>6 DEF FrameStarted
<1> QED
  BY <1>2, <1>3
\* Sorting moves rows, it does not change them.
LEMMA PartsReturnRowsStep ==
  ASSUME IInv, PartsInv, ReturnRows
  PROVE  PartsInv'
<1>1. /\ UNCHANGED <<table, births>> /\ UNCHANGED detailsVars
      /\ out' = out \/ out' \in Arrangements(out)
      /\ out \in Seq(Rows)
  BY SortedRowsAreArrangements DEF ReturnRows, procVars, IInv, TypeOK, CollectTypeOK
<1>2. CASE out' = out
  BY <1>1, <1>2, PartsOtherStep
<1>3. CASE out' \in Arrangements(out)
  <2> DEFINE t == out'
  <2>1. t \in Arrangements(out)
    BY <1>3
  <2>2. \A k \in DOMAIN t : RowInOrder(t[k])
    <3> HIDE DEF t
    <3>1. Drawn(t, out)
      BY <1>1, <2>1, ArrangementsProperties
    <3> QED
      BY <3>1 DEF PartsInv, PartsInOrder, Drawn
  <2>3. PartsInOrder'
    BY <2>2 DEF PartsInOrder
  <2>4. FrameInOrder'
    BY <1>1 DEF PartsInv, FrameInOrder, FrameBounded, FrameUnread, FrameStarted, detailsVars, Alive
  <2> QED
    BY <1>1, <2>3, <2>4 DEF PartsInv, BirthsBounded
<1> QED
  BY <1>1, <1>2, <1>3

\* A call that is given up leaves no row behind.
LEMMA PartsAbandonStep ==
  ASSUME IInv, PartsInv, Abandon
  PROVE  PartsInv'
<1>1. /\ UNCHANGED <<table, births>> /\ UNCHANGED detailsVars
      /\ out \in Seq(Rows)
  BY DEF Abandon, procVars, IInv, TypeOK, CollectTypeOK
<1>2. PartsInOrder'
  <2> DEFINE u == out'
  <2>1. u = out \/ (u \in Seq(Rows) /\ Drawn(u, out))
    BY <1>1, AbandonRows
  <2>2. \A k \in DOMAIN u : RowInOrder(u[k])
    <3> HIDE DEF u
    <3> QED
      BY <2>1 DEF PartsInv, PartsInOrder, Drawn
  <2> QED
    BY <2>2 DEF PartsInOrder
<1>3. FrameInOrder'
  BY <1>1 DEF PartsInv, FrameInOrder, FrameBounded, FrameUnread, FrameStarted, detailsVars, Alive
<1> QED
  BY <1>1, <1>2, <1>3 DEF PartsInv, BirthsBounded

\* In every step, the parts of a row stay in the order of their reads.
LEMMA NextPartsInv == IInv /\ PartsInv /\ [Next]_vars => PartsInv'
<1> SUFFICES ASSUME IInv, PartsInv, [Next]_vars PROVE PartsInv'
  OBVIOUS
<1>1. ASSUME NEW r \in Requests, Begin(r) PROVE PartsInv'
  BY <1>1, PartsOtherStep DEF Begin
<1>2. CASE \/ ParentExists \/ ParentOpen \/ ListFails \/ \E p \in Pids : ListEntry(p)
           \/ ListEnd \/ UNCHANGED vars
  <2>1. UNCHANGED <<table, births, detailsVars, out>>
    BY <1>2 DEF ParentExists, ParentOpen, ListFails, ListEntry, ListEnd, vars, procVars,
                collectVars
  <2> QED
    BY <2>1, PartsOtherStep
<1>3. CASE NextPid
  <2>1. UNCHANGED <<table, births, out>>
    BY <1>3 DEF NextPid, procVars
  <2>2. pids \in Seq(Pids) /\ pids # <<>>
    BY <1>3 DEF NextPid, IInv, TypeOK, CollectTypeOK
  <2>3. Head(pids) \in Pids
    BY <2>2, HeadTailProperties
  <2>4. UNCHANGED detailsVars \/ \E p \in Pids : CallDetails(p)
    BY <1>3, <2>3 DEF NextPid
  <2> QED
    BY <2>1, <2>4, PartsOtherStep
<1>4. CASE ReadDetails
  BY <1>4, PartsReadStep
<1>5. CASE TakeRow
  BY <1>5, PartsTakeRowStep
<1>6. CASE ReadConnections
  BY <1>6, PartsReadConnectionsStep
<1>7. CASE ReturnRows
  BY <1>7, PartsReturnRowsStep
<1>8. CASE Kernel /\ UNCHANGED <<detailsVars, collectVars>>
  BY <1>8, PartsKernelStep
<1>9. CASE Abandon
  BY <1>9, PartsAbandonStep
<1> QED
  BY <1>1, <1>2, <1>3, <1>4, <1>5, <1>6, <1>7, <1>8, <1>9 DEF Next, Analyzer

\* No row mixes an older process into a younger one: what getProcessDetails
\* reads later is never of an earlier birth, whatever is forked and reaped
\* between its reads.
THEOREM NoOlderParts == Spec => []PartsInOrder
<1>1. Init => PartsInv
  BY PartsInit
<1>2. IInv /\ PartsInv /\ [Next]_vars => PartsInv'
  BY NextPartsInv
<1>3. PartsInv => PartsInOrder
  BY DEF PartsInv
<1> QED
  BY <1>1, <1>2, <1>3, Invariance, PTL DEF Spec

-----------------------------------------------------------------------------
(***************************************************************************)
(* The survivors of a call.  What the kernel does to a process that lives  *)
(* throughout is little: it keeps its birth and what may be read of it,    *)
(* and a settled one its parent.  So a read of one comes from it, cannot   *)
(* fail, and a process that is asked for now was asked for all the time:   *)
(* it is still on the list, in the frame, or in a row.                     *)
(***************************************************************************)
Survives(p) == p \in lived /\ table[p].access # "none"

\* The table: survivors and parents are alive, the views are current.
ViewNow == cpc # "idle" => View(table) \in views
TableKept == LivedAlive /\ ParentsAlive /\ ViewNow

\* The call: what it says when it is over, whose parent it checks, that it reads
\* below a directory, and that it looks at sockets only when asked to.
ResultKept ==
  /\ cpc = "done" <=> result # "none"
  /\ cpc = "parentExists" => req.kind = "getChildProcesses"
  /\ cpc \in {"rows", "net"} => mount = "mounted"
  /\ cpc = "net" => req.net

\* The frame: a process seen, and of a survivor every part that could be read.
FrameSeen == row.part["stat"] # 0 => <<row.pid, row.part["stat"]>> \in Seen
FrameStat ==
  Survives(row.pid) =>
    /\ derr = "none"
    /\ Place(dpc) >= 2 => row.part["stat"] = table[row.pid].born
FrameAsked ==
  Survives(row.pid) /\ Place(dpc) >= 2 /\ AskedFor(req, row.pid, table[row.pid], row.pid \in settled)
    => PassesStatic(row)
FrameWhole ==
  Survives(row.pid) /\ table[row.pid].access = "full" =>
    \A i \in 2 .. 6 : i < Place(dpc) => row.part[PartOrder[i]] = table[row.pid].born
FrameKept == dpc # "idle" => FrameSeen /\ FrameStat /\ FrameAsked /\ FrameWhole

\* The rows: processes seen, survivors whole.
Witnessed(r) == <<r.pid, r.part["stat"]>> \in Seen
Whole(r) ==
  Survives(r.pid) =>
    /\ r.part["stat"] = table[r.pid].born
    /\ table[r.pid].access = "full" =>
         \A part \in OptionalParts : r.part[part] = table[r.pid].born
RowsKept == \A k \in DOMAIN out : Witnessed(out[k]) /\ Whole(out[k])

\* Nobody is lost on the way.
InPlace(p) ==
  \/ \E i \in DOMAIN pids : pids[i] = p
  \/ dpc # "idle" /\ row.pid = p
  \/ \E k \in DOMAIN out : out[k].pid = p
Accounted ==
  cpc \in {"rows", "net"} =>
    \A p \in lived : AskedFor(req, p, table[p], p \in settled) => InPlace(p)

SurvivorInv ==
  TableKept /\ ResultKept /\ FrameKept /\ RowsKept /\ Accounted /\ SurvivorsReported

\* A sort leaves nothing out.
LEMMA ArrangementsKeepAll ==
  ASSUME NEW s, NEW t \in Arrangements(s), NEW k \in DOMAIN s
  PROVE  \E i \in DOMAIN t : t[i] = s[k]
<1>1. PICK f \in Bijection(DOMAIN s, DOMAIN s) : t = [i \in DOMAIN s |-> s[f[i]]]
  BY DEF Arrangements
<1>2. PICK i \in DOMAIN s : f[i] = k
  BY <1>1 DEF Bijection, Surjection
<1> QED
  BY <1>1, <1>2

\* Initially there is no survivor and no row.
LEMMA SurvivorInit == Init => SurvivorInv
<1> SUFFICES ASSUME Init PROVE SurvivorInv
  OBVIOUS
<1>1. TableKept
  BY InitTable DEF Init, TableKept, ViewNow
<1>2. ResultKept /\ FrameKept /\ RowsKept /\ Accounted /\ SurvivorsReported
  BY DEF Init, DetailsInit, ResultKept, FrameKept, RowsKept, Accounted, SurvivorsReported
<1> QED
  BY <1>1, <1>2 DEF SurvivorInv

\* A survivor that is asked for has been asked for all the time.
LEMMA AskedBefore ==
  ASSUME NEW r, NEW p, NEW now, NEW before, NEW stays, NEW stayed,
         now.access = before.access, now.sock = before.sock,
         stays => stayed /\ now.ppid = before.ppid,
         AskedFor(r, p, now, stays)
  PROVE  AskedFor(r, p, before, stayed)
BY DEF AskedFor

\* The kernel's steps: the frame and the rows stay, and say of a survivor what
\* they said.
LEMMA SurvivorKernelStep ==
  ASSUME IInv, SurvivorInv, Kernel, UNCHANGED <<detailsVars, collectVars>>
  PROVE  SurvivorInv'
<1>1. /\ lived' \subseteq lived
      /\ \A p \in lived' :
           /\ table'[p].born = table[p].born
           /\ table'[p].access = table[p].access
           /\ table'[p].sock = table[p].sock
      /\ settled' \subseteq settled
      /\ \A p \in settled' : table'[p].ppid = table[p].ppid
      /\ LivedAlive' /\ ParentsAlive'
      /\ views \subseteq views' /\ View(table') \in views'
  BY KernelKeeps DEF IInv, TypeOK, SurvivorInv, TableKept
<1>2. /\ dpc' = dpc /\ row' = row /\ derr' = derr
      /\ mount' = mount /\ cpc' = cpc /\ req' = req /\ pids' = pids /\ out' = out
      /\ result' = result
  BY DEF detailsVars, collectVars
<1>3. \A p : Survives(p)' => Survives(p)
  BY <1>1 DEF Survives
<1>4. \A p \in lived' : AskedFor(req', p, table'[p], p \in settled') => AskedFor(req, p, table[p], p \in settled)
  BY <1>1, <1>2, AskedBefore
<1>5. Seen \subseteq Seen'
  BY <1>1 DEF Seen
<1>6. TableKept' /\ ResultKept'
  BY <1>1, <1>2 DEF SurvivorInv, TableKept, ViewNow, ResultKept
<1>7. FrameKept'
  <2> SUFFICES ASSUME dpc # "idle"
               PROVE  (FrameSeen /\ FrameStat /\ FrameAsked /\ FrameWhole)'
    BY <1>2 DEF FrameKept
  <2>1. FrameSeen /\ FrameStat /\ FrameAsked /\ FrameWhole
    BY DEF SurvivorInv, FrameKept
  <2>2. FrameSeen'
    BY <1>2, <1>5, <2>1 DEF FrameSeen
  <2>3. FrameStat'
    BY <1>1, <1>2, <1>3, <2>1 DEF FrameStat, Survives
  <2>4. FrameAsked'
    BY <1>2, <1>3, <1>4, <2>1 DEF FrameAsked, PassesStatic, Survives, Queries
  <2>5. FrameWhole'
    BY <1>1, <1>2, <1>3, <2>1 DEF FrameWhole, Survives
  <2> QED
    BY <2>2, <2>3, <2>4, <2>5
<1>8. RowsKept'
  <2> SUFFICES ASSUME NEW k \in DOMAIN out
               PROVE  Witnessed(out[k])' /\ Whole(out[k])'
    BY <1>2 DEF RowsKept, Witnessed, Whole
  <2>1. Witnessed(out[k]) /\ Whole(out[k])
    BY DEF SurvivorInv, RowsKept
  <2>2. Witnessed(out[k])'
    BY <1>2, <1>5, <2>1 DEF Witnessed
  <2>3. Whole(out[k])'
    BY <1>1, <1>2, <1>3, <2>1 DEF Whole, Survives
  <2> QED
    BY <2>2, <2>3
<1>9. Accounted'
  BY <1>1, <1>2, <1>4 DEF SurvivorInv, Accounted, InPlace
<1>10. SurvivorsReported'
  BY <1>1, <1>2, <1>4 DEF SurvivorInv, SurvivorsReported
<1> QED
  BY <1>6, <1>7, <1>8, <1>9, <1>10 DEF SurvivorInv

\* A call begins: all that is alive has lived, and is seen.
LEMMA SurvivorBeginStep ==
  ASSUME IInv, SurvivorInv, NEW r \in Requests, Begin(r)
  PROVE  SurvivorInv'
<1>1. /\ dpc' = "idle" /\ out' = <<>> /\ result' = "none"
      /\ cpc' \in {"parentExists", "list"}
      /\ cpc' = "parentExists" => req'.kind = "getChildProcesses"
      /\ lived' = AlivePids /\ settled' = AlivePids /\ views' = {View(table)}
      /\ table' = table
  BY DEF Begin, Mark, IInv, FrameOK, detailsVars
<1>2. TableKept'
  BY <1>1 DEF SurvivorInv, TableKept, LivedAlive, ParentsAlive, ViewNow, AlivePids, Alive
<1>3. ResultKept' /\ FrameKept' /\ RowsKept' /\ Accounted' /\ SurvivorsReported'
  BY <1>1 DEF ResultKept, FrameKept, RowsKept, Accounted, SurvivorsReported
<1> QED
  BY <1>2, <1>3 DEF SurvivorInv

\* Steps of the call that leave the frame and the rows alone.
LEMMA SurvivorSameFrame ==
  ASSUME SurvivorInv, cpc # "idle",
         UNCHANGED <<procVars, detailsVars, mount, req, out>>
  PROVE  TableKept' /\ FrameKept' /\ RowsKept'
<1>1. /\ table' = table /\ lived' = lived /\ settled' = settled /\ views' = views
      /\ dpc' = dpc /\ row' = row /\ derr' = derr /\ req' = req /\ out' = out
  BY DEF procVars, detailsVars
<1>2. Seen' = Seen /\ \A p : Survives(p)' <=> Survives(p)
  BY <1>1 DEF Seen, Survives
<1>3. TableKept'
  BY <1>1 DEF SurvivorInv, TableKept, LivedAlive, ParentsAlive, ViewNow, Alive
<1>4. FrameKept'
  BY <1>1, <1>2 DEF SurvivorInv, FrameKept, FrameSeen, FrameStat, FrameAsked, FrameWhole,
     PassesStatic, Queries
<1>5. RowsKept'
  BY <1>1, <1>2 DEF SurvivorInv, RowsKept, Witnessed, Whole
<1> QED
  BY <1>3, <1>4, <1>5

\* The parent's check: a parent that is gone has left its children to others,
\* so nobody is asked for.
LEMMA SurvivorCheckStep ==
  ASSUME IInv, SurvivorInv, ParentExists \/ ParentOpen \/ ListFails
  PROVE  SurvivorInv'
<1>1. /\ UNCHANGED <<procVars, detailsVars, mount, req, pids, out>>
      /\ cpc \in {"parentExists", "parentOpen", "list"}
      /\ \/ cpc' \in {"parentOpen", "list"} /\ result' = result
         \/ cpc' = "done" /\ result' \in {"ok", "permissionDenied", "fileNotFound"}
  BY DEF ParentExists, ParentOpen, ListFails, Finish
<1>2. TableKept' /\ FrameKept' /\ RowsKept'
  BY <1>1, SurvivorSameFrame
<1>3. ResultKept' /\ Accounted'
  BY <1>1 DEF SurvivorInv, ResultKept, Accounted
<1>4. SurvivorsReported'
  <2> SUFFICES ASSUME result' = "ok", mount' = "mounted", NEW p \in lived',
                      AskedFor(req', p, table'[p], p \in settled')
               PROVE  FALSE
    BY DEF SurvivorsReported
  <2>1. result = "none"
    BY <1>1 DEF SurvivorInv, ResultKept
  <2>2. ParentExists /\ req.pid \notin AlivePids
    BY <1>1, <2>1 DEF ParentExists, ParentOpen, ListFails, Finish
  <2>3. req.kind = "getChildProcesses"
    BY <2>2 DEF SurvivorInv, ResultKept, ParentExists
  <2>4. /\ p \in lived /\ AskedFor(req, p, table[p], p \in settled)
    BY <1>1 DEF procVars
  <2>5. p \in Pids /\ Alive(p) /\ table[p].ppid = req.pid /\ req.pid # 0
    BY <2>3, <2>4 DEF AskedFor, SurvivorInv, TableKept, LivedAlive, IInv, TypeOK, ProcTypeOK
  <2>6. table[p] \in Processes
    BY <2>5 DEF IInv, TypeOK, ProcTypeOK
  <2>7. req.pid \in Pids /\ Alive(req.pid)
    BY <2>5, <2>6 DEF SurvivorInv, TableKept, ParentsAlive, Processes
  <2> QED
    BY <2>2, <2>7 DEF AlivePids
<1> QED
  BY <1>2, <1>3, <1>4 DEF SurvivorInv

\* Listing: the end comes only with every survivor on the list.
LEMMA SurvivorListStep ==
  ASSUME IInv, SurvivorInv, ListEnd \/ \E p \in Pids : ListEntry(p)
  PROVE  SurvivorInv'
<1>1. /\ UNCHANGED <<procVars, detailsVars, mount, req, out, result>>
      /\ cpc = "list" /\ cpc' \in {"list", "rows"}
      /\ cpc' = "rows" => ListEnd
      /\ mount = "mounted"
  BY DEF ListEnd, ListEntry
<1>2. TableKept' /\ FrameKept' /\ RowsKept'
  BY <1>1, SurvivorSameFrame
<1>3. result' = "none" /\ ResultKept' /\ SurvivorsReported'
  BY <1>1 DEF SurvivorInv, ResultKept, SurvivorsReported
<1>4. Accounted'
  <2> SUFFICES ASSUME ListEnd, NEW p \in lived
               PROVE  \E i \in DOMAIN pids' : pids'[i] = p
    BY <1>1 DEF Accounted, InPlace, procVars
  <2> DEFINE t == pids'
  <2>1. t \in Arrangements(pids) /\ p \in Range(pids)
    BY DEF ListEnd
  <2>2. PICK k \in DOMAIN pids : pids[k] = p
    BY <2>1 DEF Range
  <2>3. \E i \in DOMAIN t : t[i] = pids[k]
    <3> HIDE DEF t
    <3> QED
      BY <2>1, ArrangementsKeepAll
  <2> QED
    BY <2>2, <2>3
<1> QED
  BY <1>2, <1>3, <1>4 DEF SurvivorInv

\* The first PID moves from the list to the frame; the one passed over is the
\* parent, which is not asked for.
LEMMA SurvivorNextPidStep ==
  ASSUME IInv, SurvivorInv, NextPid
  PROVE  SurvivorInv'
<1>1. /\ UNCHANGED <<procVars, mount, cpc, req, out, result>>
      /\ cpc = "rows" /\ dpc = "idle" /\ pids # <<>> /\ pids' = Tail(pids)
      /\ pids \in Seq(Pids)
  BY DEF NextPid, IInv, TypeOK, CollectTypeOK
<1>2. /\ Head(pids) = pids[1]
      /\ DOMAIN pids' = 1 .. Len(pids) - 1
      /\ \A i \in 1 .. Len(pids) - 1 : pids'[i] = pids[i + 1]
      /\ DOMAIN pids = 1 .. Len(pids)
      /\ Len(pids) \in Nat \ {0}
  BY <1>1, HeadTailProperties, LenProperties, EmptySeq
<1>3. /\ table' = table /\ lived' = lived /\ settled' = settled /\ views' = views
      /\ mount' = mount /\ cpc' = cpc /\ req' = req /\ out' = out /\ result' = result
  BY <1>1 DEF procVars
<1>4. \/ dpc' = "idle" /\ req.kind = "getChildProcesses" /\ pids[1] = req.pid
      \/ dpc' = "exists" /\ row' = NewRow(pids[1]) /\ derr' = "none"
  BY <1>1, <1>2 DEF NextPid, CallDetails, detailsVars
<1>5. TableKept' /\ ResultKept' /\ SurvivorsReported'
  BY <1>3 DEF SurvivorInv, TableKept, LivedAlive, ParentsAlive, ViewNow, Alive, ResultKept,
     SurvivorsReported
<1>6. FrameKept'
  <2> SUFFICES ASSUME dpc' = "exists", row' = NewRow(pids[1]), derr' = "none"
               PROVE  (FrameSeen /\ FrameStat /\ FrameAsked /\ FrameWhole)'
    BY <1>4 DEF FrameKept
  <2>1. row'.part["stat"] = 0 /\ Place(dpc') = 1
    BY DEF NewRow, Parts, Place
  <2> QED
    BY <2>1 DEF FrameSeen, FrameStat, FrameAsked, FrameWhole
<1>7. RowsKept'
  BY <1>3 DEF SurvivorInv, RowsKept, Witnessed, Whole, Survives, Seen
<1>8. Accounted'
  <2> SUFFICES ASSUME NEW p \in lived, AskedFor(req, p, table[p], p \in settled) PROVE InPlace(p)'
    BY <1>3 DEF Accounted, InPlace
  <2>1. InPlace(p)
    BY <1>1 DEF SurvivorInv, Accounted
  <2>2. CASE \E k \in DOMAIN out : out[k].pid = p
    BY <1>3, <2>2 DEF InPlace
  <2>3. CASE \E i \in DOMAIN pids : pids[i] = p
    <3>1. PICK i \in DOMAIN pids : pids[i] = p
      BY <2>3
    <3>2. CASE i = 1
      <4>1. ~(req.kind = "getChildProcesses" /\ pids[1] = req.pid)
        BY <3>1, <3>2 DEF AskedFor
      <4>2. dpc' = "exists" /\ row'.pid = p
        BY <1>4, <3>1, <3>2, <4>1 DEF NewRow
      <4> QED
        BY <4>2 DEF InPlace
    <3>3. CASE i # 1
      <4>1. i - 1 \in DOMAIN pids' /\ pids'[i - 1] = p
        BY <1>2, <3>1, <3>3
      <4> QED
        BY <4>1 DEF InPlace
    <3> QED
      BY <3>2, <3>3
  <2> QED
    BY <1>1, <2>1, <2>2, <2>3 DEF InPlace
<1> QED
  BY <1>5, <1>6, <1>7, <1>8 DEF SurvivorInv

\* The reads of getProcessDetails: none fails for a survivor.
LEMMA SurvivorReadStep ==
  ASSUME IInv, PartsInv, SurvivorInv, ReadDetails
  PROVE  SurvivorInv'
<1>1. /\ table' = table /\ lived' = lived /\ settled' = settled /\ views' = views
      /\ mount' = mount /\ cpc' = cpc /\ req' = req /\ pids' = pids /\ out' = out
      /\ result' = result
      /\ dpc # "idle" /\ dpc' # "idle"
  BY DEF ReadDetails, procVars, collectVars, DetailsNext, CheckExists, CheckOpen, ReadStat,
         ReadOptional, FailDetails, AfterPart, OptionalParts
<1>2. /\ row \in Rows /\ row.pid \in Pids /\ cpc # "idle"
      /\ table[row.pid] \in Processes /\ row.part \in [Parts -> Nat]
  BY <1>1 DEF IInv, TypeOK, DetailsTypeOK, ProcTypeOK, FrameOK, Rows
<1>3. /\ table[row.pid].access \in {"full", "public", "none"}
      /\ table[row.pid].born \in Nat
  BY <1>2 DEF Processes, Access
<1>4. FrameSeen /\ FrameStat /\ FrameAsked /\ FrameWhole
  BY <1>1 DEF SurvivorInv, FrameKept
<1>5. Survives(row.pid) => Alive(row.pid)
  BY DEF Survives, SurvivorInv, TableKept, LivedAlive
<1>6. Alive(row.pid) => <<row.pid, table[row.pid].born>> \in Seen
  <2> SUFFICES ASSUME Alive(row.pid) PROVE <<row.pid, table[row.pid].born>> \in Seen
    OBVIOUS
  <2>1. <<row.pid, table[row.pid].born>> \in View(table)
    BY <1>2 DEF View, Alive
  <2>2. View(table) \in views
    BY <1>2 DEF SurvivorInv, TableKept, ViewNow
  <2> QED
    BY <2>1, <2>2 DEF Seen
<1>7. row'.pid = row.pid /\ (FrameSeen /\ FrameStat /\ FrameAsked /\ FrameWhole)'
  <2>1. CASE UNCHANGED row /\ dpc' \in {"opendir", "stat"} /\ derr' = derr
    <3>1. Place(dpc') = 1
      BY <2>1 DEF Place
    <3> QED
      BY <1>1, <1>4, <2>1, <3>1 DEF FrameSeen, FrameStat, FrameAsked, FrameWhole, Survives, Seen
  <2>2. CASE UNCHANGED row /\ dpc' = "done" /\ ~Survives(row.pid)
    BY <1>1, <1>4, <2>2 DEF FrameSeen, FrameStat, FrameAsked, FrameWhole, Survives, Seen
  <2>3. CASE ReadStat /\ dpc' = "status"
    <3>1. /\ row'.pid = row.pid /\ row'.ppid = table[row.pid].ppid
          /\ row'.part = [NewRow(row.pid).part EXCEPT !["stat"] = table[row.pid].born]
          /\ Alive(row.pid) /\ derr' = derr
      BY <2>3 DEF ReadStat, FailDetails, Readable
    <3>2. row'.part["stat"] = table[row.pid].born /\ Place(dpc') = 2
      BY <2>3, <3>1 DEF NewRow, Parts, Place
    <3>3. FrameSeen'
      BY <1>1, <1>6, <3>1, <3>2 DEF FrameSeen, Seen
    <3>4. FrameStat' /\ FrameWhole'
      BY <1>1, <1>4, <3>1, <3>2 DEF FrameStat, FrameWhole, Survives
    <3>5. FrameAsked'
      BY <1>1, <3>1 DEF FrameAsked, AskedFor, PassesStatic, Queries
    <3> QED
      BY <3>1, <3>3, <3>4, <3>5
  <2>4. ASSUME NEW part \in OptionalParts, ReadOptional(part)
        PROVE  row'.pid = row.pid /\ (FrameSeen /\ FrameStat /\ FrameAsked /\ FrameWhole)'
    <3>1. /\ dpc = part /\ derr' = derr
          /\ Place(dpc') = Place(part) + 1 /\ Place(part) \in 2 .. 6
          /\ part = PartOrder[Place(part)] /\ part # "stat" /\ part \in Parts
      BY <2>4, PartPlaces DEF ReadOptional, OptionalParts, Parts
    <3>2. /\ row'.pid = row.pid /\ row'.ppid = row.ppid
          /\ \A x \in Parts : row'.part[x] = IF x = part /\ Readable(part, row.pid)
                                             THEN table[row.pid].born ELSE row.part[x]
      <4>1. CASE Readable(part, row.pid)
        <5>1. row' = [row EXCEPT !.part = [row.part EXCEPT ![part] = table[row.pid].born]]
          BY <2>4, <4>1 DEF ReadOptional
        <5> QED
          BY <1>2, <4>1, <5>1 DEF Rows
      <4>2. CASE ~Readable(part, row.pid)
        BY <2>4, <4>2 DEF ReadOptional
      <4> QED
        BY <4>1, <4>2
    <3>3. row'.part["stat"] = row.part["stat"]
      BY <3>1, <3>2 DEF Parts
    <3>4. (FrameSeen /\ FrameStat /\ FrameAsked)'
      BY <1>1, <1>4, <3>1, <3>2, <3>3
         DEF FrameSeen, FrameStat, FrameAsked, Survives, Seen, PassesStatic, Queries
    <3>5. FrameWhole'
      <4> SUFFICES ASSUME Survives(row.pid), table[row.pid].access = "full",
                          NEW i \in 2 .. 6, i < Place(dpc')
                   PROVE  row'.part[PartOrder[i]] = table[row.pid].born
        BY <1>1, <3>2 DEF FrameWhole, Survives
      <4>1. CASE i = Place(part)
        <5>1. Readable(part, row.pid)
          BY <1>5 DEF Readable
        <5> QED
          BY <3>1, <3>2, <4>1, <5>1
      <4>2. CASE i # Place(part)
        <5>1. i < Place(part)
          BY <3>1, <4>2
        <5>2. row.part[PartOrder[i]] = table[row.pid].born
          BY <1>4, <3>1, <5>1 DEF FrameWhole
        <5>3. PartOrder[i] # part /\ PartOrder[i] \in Parts
          <6>1. \A j, k \in 1 .. 7 : PartOrder[j] = PartOrder[k] => j = k
            BY PartOrderValues
          <6> QED
            BY <3>1, <4>2, <6>1, PartOrderValues
        <5> QED
          BY <3>2, <5>2, <5>3
      <4> QED
        BY <4>1, <4>2
    <3> QED
      BY <3>2, <3>4, <3>5
  <2>5. \/ UNCHANGED row /\ dpc' \in {"opendir", "stat"} /\ derr' = derr
        \/ UNCHANGED row /\ dpc' = "done" /\ ~Survives(row.pid)
        \/ ReadStat /\ dpc' = "status"
        \/ \E part \in OptionalParts : ReadOptional(part)
    BY <1>3, <1>5 DEF ReadDetails, DetailsNext, CheckExists, CheckOpen, ReadStat, FailDetails,
       Readable, Survives
  <2> QED
    BY <2>1, <2>2, <2>3, <2>4, <2>5
<1>8. TableKept' /\ ResultKept' /\ SurvivorsReported'
  BY <1>1 DEF SurvivorInv, TableKept, LivedAlive, ParentsAlive, ViewNow, Alive, ResultKept,
     SurvivorsReported
<1>9. RowsKept'
  BY <1>1 DEF SurvivorInv, RowsKept, Witnessed, Whole, Survives, Seen
<1>10. Accounted'
  BY <1>1, <1>7 DEF SurvivorInv, Accounted, InPlace
<1> QED
  BY <1>7, <1>8, <1>9, <1>10 DEF SurvivorInv, FrameKept

\* A frame is given up: its row joins the rows, or the process it read is no
\* survivor that was asked for.
LEMMA SurvivorEndFrame ==
  ASSUME IInv, SurvivorInv, UNCHANGED <<procVars, mount, req, pids, result>>,
         dpc = "done", cpc \in {"rows", "net"}, cpc' = "rows", dpc' = "idle",
         \/ /\ out' = out
            /\ row.pid \in lived => ~AskedFor(req, row.pid, table[row.pid], row.pid \in settled)
         \/ \E r \in Rows : /\ out' = Append(out, r) /\ r.pid = row.pid
                            /\ Witnessed(r) /\ Whole(r)
  PROVE  SurvivorInv'
<1>1. /\ table' = table /\ lived' = lived /\ settled' = settled /\ views' = views
      /\ mount' = mount /\ req' = req /\ pids' = pids /\ result' = result
      /\ out \in Seq(Rows)
  BY DEF procVars, IInv, TypeOK, CollectTypeOK
<1>2. Seen' = Seen /\ \A r : (Witnessed(r)' <=> Witnessed(r)) /\ (Whole(r)' <=> Whole(r))
  BY <1>1 DEF Seen, Witnessed, Whole, Survives
<1>3. TableKept' /\ ResultKept' /\ FrameKept'
  BY <1>1 DEF SurvivorInv, TableKept, LivedAlive, ParentsAlive, ViewNow, Alive, ResultKept,
     FrameKept
<1>4. SurvivorsReported'
  BY <1>1 DEF SurvivorInv, ResultKept, SurvivorsReported
<1>5. ASSUME out' = out, row.pid \in lived => ~AskedFor(req, row.pid, table[row.pid], row.pid \in settled)
      PROVE  RowsKept' /\ Accounted'
  <2>1. RowsKept'
    BY <1>1, <1>5 DEF SurvivorInv, RowsKept, Witnessed, Whole, Survives, Seen
  <2>2. Accounted'
    BY <1>1, <1>5 DEF SurvivorInv, Accounted, InPlace
  <2> QED
    BY <2>1, <2>2
<1>6. ASSUME NEW r \in Rows, out' = Append(out, r), r.pid = row.pid, Witnessed(r), Whole(r)
      PROVE  RowsKept' /\ Accounted'
  <2>1. /\ DOMAIN out' = 1 .. Len(out) + 1
        /\ \A k \in 1 .. Len(out) : out'[k] = out[k]
        /\ out'[Len(out) + 1] = r
        /\ DOMAIN out = 1 .. Len(out)
        /\ Len(out) \in Nat
    BY <1>1, <1>6, AppendProperties, LenProperties
  <2>2. RowsKept'
    <3> SUFFICES ASSUME NEW k \in DOMAIN out' PROVE Witnessed(out'[k]) /\ Whole(out'[k])
      BY <1>1 DEF RowsKept, Witnessed, Whole, Survives, Seen
    <3>1. out'[k] = r \/ (k \in DOMAIN out /\ out'[k] = out[k])
      BY <2>1
    <3> QED
      BY <1>6, <3>1 DEF SurvivorInv, RowsKept
  <2>3. Accounted'
    <3> SUFFICES ASSUME NEW p \in lived, AskedFor(req, p, table[p], p \in settled) PROVE InPlace(p)'
      BY <1>1 DEF Accounted, InPlace
    <3>1. InPlace(p)
      BY DEF SurvivorInv, Accounted
    <3>2. CASE \E i \in DOMAIN pids : pids[i] = p
      BY <1>1, <3>2 DEF InPlace
    <3>3. CASE row.pid = p
      <4>1. Len(out) + 1 \in DOMAIN out'
        BY <2>1
      <4>2. out'[Len(out) + 1].pid = p
        BY <1>6, <2>1, <3>3
      <4> QED
        BY <4>1, <4>2 DEF InPlace
    <3>4. CASE \E k \in DOMAIN out : out[k].pid = p
      <4>1. PICK k \in DOMAIN out : out[k].pid = p
        BY <3>4
      <4>2. k \in DOMAIN out' /\ out'[k].pid = p
        BY <2>1, <4>1
      <4> QED
        BY <4>2 DEF InPlace
    <3> QED
      BY <3>1, <3>2, <3>3, <3>4 DEF InPlace
  <2> QED
    BY <2>2, <2>3
<1> QED
  BY <1>3, <1>4, <1>5, <1>6 DEF SurvivorInv

\* A frame that was read to the end holds a row fit to be reported.
LEMMA FrameToRow ==
  ASSUME IInv, PartsInv, SurvivorInv, dpc = "done", derr = "none"
  PROVE  Witnessed(row) /\ Whole(row)
<1>1. FrameSeen /\ FrameStat /\ FrameWhole /\ row.part["stat"] > 0
  BY DEF SurvivorInv, FrameKept, PartsInv, FrameInOrder, FrameStarted
<1>2. Place(dpc) = 7
  BY DEF Place
<1>3. row \in Rows /\ row.part["stat"] \in Nat
  BY DEF IInv, TypeOK, DetailsTypeOK, Rows, Parts
<1>4. Witnessed(row)
  BY <1>1, <1>3 DEF FrameSeen, Witnessed
<1>5. Whole(row)
  <2>1. Survives(row.pid) => row.part["stat"] = table[row.pid].born
    BY <1>1, <1>2 DEF FrameStat
  <2>2. ASSUME Survives(row.pid), table[row.pid].access = "full", NEW part \in OptionalParts
        PROVE  row.part[part] = table[row.pid].born
    <3>1. Place(part) \in 2 .. 6 /\ part = PartOrder[Place(part)]
      BY PartPlaces
    <3>2. Place(part) < Place(dpc)
      BY <1>2, <3>1
    <3> QED
      BY <1>1, <2>2, <3>1, <3>2 DEF FrameWhole
  <2> QED
    BY <2>1, <2>2 DEF Whole
<1> QED
  BY <1>4, <1>5

\* A survivor's frame becomes a row, and the row is whole.
LEMMA SurvivorTakeRowStep ==
  ASSUME IInv, PartsInv, SurvivorInv, TakeRow
  PROVE  SurvivorInv'
<1>1. /\ UNCHANGED <<procVars, mount, req, pids, result>>
      /\ cpc = "rows" /\ dpc = "done" /\ row \in Rows
  BY DEF TakeRow, IInv, TypeOK, DetailsTypeOK
<1>2. CASE cpc' = "net" /\ req.net /\ UNCHANGED <<out, detailsVars>>
  <2>1. TableKept' /\ FrameKept' /\ RowsKept'
    BY <1>1, <1>2, SurvivorSameFrame
  <2>2. ResultKept' /\ Accounted' /\ SurvivorsReported'
    BY <1>1, <1>2 DEF SurvivorInv, ResultKept, Accounted, InPlace, SurvivorsReported,
       procVars, detailsVars
  <2> QED
    BY <2>1, <2>2 DEF SurvivorInv
<1>3. CASE /\ cpc' = cpc /\ EndDetails
           /\ out' = IF derr = "none" /\ PassesStatic(row) THEN Append(out, row) ELSE out
  <2>1. cpc' = "rows" /\ dpc' = "idle"
    BY <1>1, <1>3 DEF EndDetails
  <2>2. CASE derr = "none" /\ PassesStatic(row)
    <3>1. out' = Append(out, row) /\ Witnessed(row) /\ Whole(row)
      BY <1>1, <1>3, <2>2, FrameToRow
    <3> QED
      BY <1>1, <2>1, <3>1, SurvivorEndFrame
  <2>3. CASE ~(derr = "none" /\ PassesStatic(row))
    <3>1. FrameStat /\ FrameAsked /\ Place(dpc) = 7
      BY <1>1 DEF SurvivorInv, FrameKept, Place
    <3>2. row.pid \in lived => ~AskedFor(req, row.pid, table[row.pid], row.pid \in settled)
      BY <2>3, <3>1 DEF FrameStat, FrameAsked, Survives, AskedFor
    <3>3. out' = out
      BY <1>3, <2>3
    <3> QED
      BY <1>1, <2>1, <3>2, <3>3, SurvivorEndFrame
  <2> QED
    BY <2>2, <2>3
<1> QED
  BY <1>2, <1>3 DEF TakeRow

\* The network filter passes a survivor that is asked for.
LEMMA SurvivorReadConnectionsStep ==
  ASSUME IInv, PartsInv, SurvivorInv, ReadConnections
  PROVE  SurvivorInv'
<1>1. /\ UNCHANGED <<procVars, mount, req, pids, result>>
      /\ cpc = "net" /\ dpc = "done" /\ derr = "none" /\ row \in Rows /\ row.pid \in Pids
      /\ cpc' = "rows" /\ dpc' = "idle" /\ req.net
  BY DEF ReadConnections, EndDetails, IInv, TypeOK, DetailsTypeOK, FrameOK, SurvivorInv, ResultKept
<1>2. CASE Readable("fd", row.pid) /\ table[row.pid].sock
  <2> DEFINE r == [row EXCEPT !.part = [row.part EXCEPT !["net"] = table[row.pid].born]]
  <2>1. out' = Append(out, r)
    BY <1>2 DEF ReadConnections
  <2>2. table[row.pid].born \in Nat /\ row.part \in [Parts -> Nat]
    <3>1. table[row.pid] \in Processes
      BY <1>1 DEF IInv, TypeOK, ProcTypeOK
    <3> QED
      BY <1>1, <3>1 DEF Processes, Rows
  <2>3. /\ r \in Rows /\ r.pid = row.pid
        /\ \A x \in Parts : x # "net" => r.part[x] = row.part[x]
    BY <1>1, <2>2 DEF Rows
  <2>4. Witnessed(r) /\ Whole(r)
    <3>1. Witnessed(row) /\ Whole(row)
      BY <1>1, FrameToRow
    <3>2. r.part["stat"] = row.part["stat"]
      BY <2>3 DEF Parts
    <3>3. \A x \in OptionalParts : r.part[x] = row.part[x]
      BY <2>3 DEF Parts, OptionalParts
    <3> HIDE DEF r
    <3> QED
      BY <2>3, <3>1, <3>2, <3>3 DEF Witnessed, Whole
  <2> HIDE DEF r
  <2> QED
    BY <1>1, <2>1, <2>3, <2>4, SurvivorEndFrame
<1>3. CASE ~(Readable("fd", row.pid) /\ table[row.pid].sock)
  <2>1. out' = out
    BY <1>3 DEF ReadConnections
  <2>2. row.pid \in lived => Alive(row.pid)
    BY DEF SurvivorInv, TableKept, LivedAlive
  <2>3. row.pid \in lived => ~AskedFor(req, row.pid, table[row.pid], row.pid \in settled)
    BY <1>1, <1>3, <2>2 DEF AskedFor, Readable
  <2> QED
    BY <1>1, <2>1, <2>3, SurvivorEndFrame
<1> QED
  BY <1>2, <1>3

\* With no PID left and no frame open, those asked for are in rows, and a
\* sort leaves none out.
LEMMA SurvivorReturnRowsStep ==
  ASSUME IInv, SurvivorInv, ReturnRows
  PROVE  SurvivorInv'
<1>1. /\ table' = table /\ lived' = lived /\ settled' = settled /\ views' = views /\ req' = req
      /\ dpc' = "idle" /\ dpc = "idle" /\ cpc = "rows" /\ cpc' = "done" /\ result' = "ok"
      /\ pids = <<>> /\ mount' = mount /\ out \in Seq(Rows)
      /\ out' = out \/ out' \in Arrangements(out)
  BY SortedRowsAreArrangements
     DEF ReturnRows, Finish, procVars, detailsVars, IInv, TypeOK, CollectTypeOK
<1>2. TableKept' /\ ResultKept' /\ FrameKept' /\ Accounted'
  BY <1>1 DEF SurvivorInv, TableKept, LivedAlive, ParentsAlive, ViewNow, Alive, ResultKept,
     FrameKept, Accounted
<1>3. /\ \A k \in DOMAIN out' : \E i \in DOMAIN out : out'[k] = out[i]
      /\ \A k \in DOMAIN out : \E i \in DOMAIN out' : out'[i] = out[k]
  <2> DEFINE t == out'
  <2>1. CASE t = out
    BY <2>1
  <2>2. CASE t \in Arrangements(out)
    <3> HIDE DEF t
    <3>1. Drawn(t, out)
      BY <1>1, <2>2, ArrangementsProperties
    <3>2. \A k \in DOMAIN t : \E i \in DOMAIN out : t[k] = out[i]
      BY <3>1 DEF Drawn
    <3>3. \A k \in DOMAIN out : \E i \in DOMAIN t : t[i] = out[k]
      BY <2>2, ArrangementsKeepAll
    <3> QED
      BY <3>2, <3>3 DEF t
  <2> QED
    BY <1>1, <2>1, <2>2
<1>4. \A k \in DOMAIN out' : Witnessed(out'[k]) /\ Whole(out'[k])
  BY <1>3 DEF SurvivorInv, RowsKept
<1>5. RowsKept'
  BY <1>1, <1>4 DEF RowsKept, Witnessed, Whole, Survives, Seen
<1>6. SurvivorsReported'
  <2> SUFFICES ASSUME NEW p \in lived, AskedFor(req, p, table[p], p \in settled)
               PROVE  \E k \in DOMAIN out' : out'[k].pid = p
                                             /\ out'[k].part["stat"] = table[p].born
    BY <1>1 DEF SurvivorsReported
  <2>1. InPlace(p)
    BY <1>1 DEF SurvivorInv, Accounted
  <2>2. PICK k \in DOMAIN out : out[k].pid = p
    BY <1>1, <2>1 DEF InPlace
  <2>3. PICK i \in DOMAIN out' : out'[i] = out[k]
    BY <1>3
  <2>4. Survives(p)
    BY DEF Survives, AskedFor
  <2> QED
    BY <1>4, <2>2, <2>3, <2>4 DEF Whole
<1> QED
  BY <1>2, <1>5, <1>6 DEF SurvivorInv

\* A call that is given up owes nothing to the survivors.
LEMMA SurvivorAbandonStep ==
  ASSUME IInv, SurvivorInv, Abandon
  PROVE  SurvivorInv'
<1>1. /\ table' = table /\ lived' = lived /\ settled' = settled /\ views' = views
      /\ dpc' = "idle" /\ cpc = "rows" /\ cpc' = "done" /\ result' = "abandoned"
      /\ out \in Seq(Rows)
  BY DEF Abandon, Finish, procVars, detailsVars, IInv, TypeOK, CollectTypeOK
<1>2. /\ TableKept' /\ ResultKept' /\ FrameKept' /\ Accounted' /\ SurvivorsReported'
  BY <1>1 DEF SurvivorInv, TableKept, LivedAlive, ParentsAlive, ViewNow, Alive, ResultKept,
     FrameKept, Accounted, SurvivorsReported
<1>3. \A k \in DOMAIN out' : Witnessed(out'[k]) /\ Whole(out'[k])
  <2> DEFINE u == out'
  <2>1. u = out \/ (u \in Seq(Rows) /\ Drawn(u, out))
    BY <1>1, AbandonRows
  <2>2. \A k \in DOMAIN u : Witnessed(u[k]) /\ Whole(u[k])
    <3> HIDE DEF u
    <3> QED
      BY <2>1 DEF SurvivorInv, RowsKept, Drawn
  <2> QED
    BY <2>2
<1>4. RowsKept'
  BY <1>1, <1>3 DEF RowsKept, Witnessed, Whole, Survives, Seen
<1> QED
  BY <1>2, <1>4 DEF SurvivorInv

\* No step loses a process that stays: it is listed, read or in a row.
LEMMA NextSurvivorInv == IInv /\ PartsInv /\ SurvivorInv /\ [Next]_vars => SurvivorInv'
<1> SUFFICES ASSUME IInv, PartsInv, SurvivorInv, [Next]_vars PROVE SurvivorInv'
  OBVIOUS
<1>1. ASSUME NEW r \in Requests, Begin(r) PROVE SurvivorInv'
  BY <1>1, SurvivorBeginStep
<1>2. CASE ParentExists \/ ParentOpen \/ ListFails
  BY <1>2, SurvivorCheckStep
<1>3. CASE ListEnd \/ \E p \in Pids : ListEntry(p)
  BY <1>3, SurvivorListStep
<1>4. CASE NextPid
  BY <1>4, SurvivorNextPidStep
<1>5. CASE ReadDetails
  BY <1>5, SurvivorReadStep
<1>6. CASE TakeRow
  BY <1>6, SurvivorTakeRowStep
<1>7. CASE ReadConnections
  BY <1>7, SurvivorReadConnectionsStep
<1>8. CASE ReturnRows
  BY <1>8, SurvivorReturnRowsStep
<1>9. CASE Abandon
  BY <1>9, SurvivorAbandonStep
<1>10. CASE Kernel /\ UNCHANGED <<detailsVars, collectVars>>
  BY <1>10, SurvivorKernelStep
<1>11. CASE UNCHANGED vars
  BY <1>11 DEF vars, procVars, detailsVars, collectVars, SurvivorInv, TableKept, LivedAlive,
     ParentsAlive, ViewNow, Alive, ResultKept, FrameKept, FrameSeen, FrameStat, FrameAsked,
     FrameWhole, RowsKept, Witnessed, Whole, Survives, Seen, PassesStatic, Queries, Accounted,
     InPlace, SurvivorsReported
<1> QED
  BY <1>1, <1>2, <1>3, <1>4, <1>5, <1>6, <1>7, <1>8, <1>9, <1>10, <1>11 DEF Next, Analyzer

\* In every call, a process that stays and is asked for is on the list, in the
\* frame or in a row, and what was read of it is its own (process.cpp:96-145).
THEOREM SurvivorInvariance == Spec => [](IInv /\ PartsInv /\ SurvivorInv)
<1>1. Init => IInv /\ PartsInv /\ SurvivorInv
  BY InitIInv, PartsInit, SurvivorInit
<1>2. IInv /\ PartsInv /\ SurvivorInv /\ [Next]_vars => (IInv /\ PartsInv /\ SurvivorInv)'
  BY NextIInv, NextPartsInv, NextSurvivorInv
<1> QED
  BY <1>1, <1>2, PTL DEF Spec

\* A call that returns has a row for every process it was asked for that lived
\* throughout and could be read, whatever was forked, reaped or failed around
\* it: one failed read costs one PID, never a survivor.
THEOREM NoSurvivorLost == Spec => []SurvivorsReported
<1>1. SurvivorInv => SurvivorsReported
  BY DEF SurvivorInv
<1> QED
  BY <1>1, SurvivorInvariance, PTL

\* A process of the caller that lives throughout the call is read whole, every
\* part from itself.
THEOREM NoSurvivorTorn == Spec => []SurvivorsReadWhole
<1>1. SurvivorInv => SurvivorsReadWhole
  BY DEF SurvivorInv, RowsKept, Whole, Survives, SurvivorsReadWhole
<1> QED
  BY <1>1, SurvivorInvariance, PTL

-----------------------------------------------------------------------------
(***************************************************************************)
(* A listing call is an observation: module Collect implements module      *)
(* Observation under the mapping Phase, req, Observed.  Listing and        *)
(* reading are stutters of the abstract call; a row that is reported is an *)
(* Observe, the return is a Return because no survivor is lost, and an     *)
(* error, or a consumer that goes away, is a Stop.                         *)
(***************************************************************************)
LEMMA InitObserves == Init => Abstract!Init
BY DEF Init, Abstract!Init, ProcInit, Abstract!ProcInit, Phase, Observed, Range

\* Steps that change neither the rows nor whether the call runs.
LEMMA QuietStep ==
  ASSUME UNCHANGED <<procVars, mount, req, out>>,
         cpc \notin {"idle", "done"}, cpc' \notin {"idle", "done"}
  PROVE  UNCHANGED Abstract!vars
BY DEF procVars, Abstract!vars, Abstract!procVars, Phase, Observed, Range

\* The kernel's steps are the kernel's steps.
LEMMA KernelObserved ==
  ASSUME Kernel, UNCHANGED <<detailsVars, collectVars>>
  PROVE  Abstract!Next
<1>1. Abstract!Kernel
  BY DEF Kernel, Fork, Exit, Alive, View, NoProcess, Abstract!Kernel, Abstract!Fork,
         Abstract!Exit, Abstract!Alive, Abstract!View, Abstract!NoProcess,
         Adopters, Above, Abstract!Adopters, Abstract!Above
<1>2. Phase' = Phase /\ req' = req /\ Observed' = Observed
  BY DEF collectVars, Phase, Observed, Range
<1> QED
  BY <1>1, <1>2 DEF Abstract!Next

\* A call that begins is the begin of an observation.
LEMMA BeginObserved ==
  ASSUME NEW r \in Requests, Begin(r)
  PROVE  Abstract!Next
<1>1. /\ Phase # "busy" /\ Phase' = "busy" /\ req' \in Requests /\ Observed' = {}
  BY DEF Begin, Phase, Observed, Range
<1>2. Abstract!Mark /\ UNCHANGED <<table, births>>
  BY DEF Begin, Mark, View, AlivePids, Alive, Abstract!Mark, Abstract!View, Abstract!AlivePids,
         Abstract!Alive
<1> QED
  BY <1>1, <1>2 DEF Abstract!Next, Abstract!Begin

\* What a call that returned a value owes, in terms of the abstract call.
LEMMA ReturnedRows ==
  ASSUME SurvivorInv', UNCHANGED <<procVars, mount, req>>, result' = "ok", mount = "mounted"
  PROVE  \A p \in lived :
           AskedFor(req, p, table[p], p \in settled) => <<p, table[p].born>> \in Observed'
<1> SUFFICES ASSUME NEW p \in lived, AskedFor(req, p, table[p], p \in settled)
             PROVE  <<p, table[p].born>> \in Observed'
  OBVIOUS
<1>1. SurvivorsReported'
  BY DEF SurvivorInv
<1>2. /\ lived' = lived /\ settled' = settled /\ table' = table /\ req' = req /\ mount' = mount
  BY DEF procVars
<1>3. PICK k \in DOMAIN out' : out'[k].pid = p /\ out'[k].part["stat"] = table[p].born
  BY <1>1, <1>2 DEF SurvivorsReported
<1> QED
  BY <1>3 DEF Observed, Range

\* A call that ends before it has a row: with an error, or for a parent that
\* is gone, when nobody was asked for.
LEMMA CheckObserved ==
  ASSUME IInv, SurvivorInv, SurvivorInv', ParentExists \/ ParentOpen \/ ListFails
  PROVE  [Abstract!Next]_Abstract!vars
<1>1. /\ UNCHANGED <<procVars, mount, req, out>>
      /\ cpc \in {"parentExists", "parentOpen", "list"}
      /\ \/ cpc' \in {"parentOpen", "list"}
         \/ cpc' = "done" /\ result' \in {"ok", "permissionDenied", "fileNotFound"}
  BY DEF ParentExists, ParentOpen, ListFails, Finish
<1>2. CASE cpc' # "done"
  BY <1>1, <1>2, QuietStep
<1>3. CASE cpc' = "done"
  <2>1. Phase = "busy" /\ Observed' = Observed /\ UNCHANGED procVars
    BY <1>1 DEF Phase, Observed, Range
  <2>2. CASE result' = "ok" /\ mount = "mounted"
    <3>1. Phase' = "returned"
      BY <1>1, <1>3, <2>2 DEF Phase
    <3>2. \A p \in lived : AskedFor(req, p, table[p], p \in settled) => Abstract!Present(p) \in Observed
      BY <1>1, <2>1, <2>2, ReturnedRows DEF Abstract!Present
    <3> QED
      BY <1>1, <2>1, <3>1, <3>2 DEF Abstract!Next, Abstract!Return, procVars, Abstract!procVars
  <2>3. CASE ~(result' = "ok" /\ mount = "mounted")
    <3>1. Phase' = "failed"
      BY <1>1, <1>3, <2>3 DEF Phase
    <3> QED
      BY <1>1, <2>1, <3>1 DEF Abstract!Next, Abstract!Stop, procVars, Abstract!procVars
  <2> QED
    BY <2>2, <2>3
<1> QED
  BY <1>2, <1>3

\* A row that is reported is an observation of a process not yet observed.
LEMMA RowObserved ==
  ASSUME IInv, SurvivorInv, NEW r \in Rows, out' = Append(out, r),
         r.pid = row.pid, Witnessed(r), dpc = "done",
         cpc \in {"rows", "net"}, cpc' = "rows",
         UNCHANGED <<procVars, mount, req, result>>
  PROVE  Abstract!Next
<1>1. out \in Seq(Rows)
  BY DEF IInv, TypeOK, CollectTypeOK
<1>2. /\ DOMAIN out' = 1 .. Len(out) + 1
      /\ \A k \in 1 .. Len(out) : out'[k] = out[k]
      /\ out'[Len(out) + 1] = r
      /\ DOMAIN out = 1 .. Len(out)
      /\ Len(out) \in Nat
  BY <1>1, AppendProperties, LenProperties
<1> DEFINE s == <<r.pid, r.part["stat"]>>
<1>3. Observed' = Observed \cup {s}
  <2>1. ASSUME NEW o
        PROVE  o \in Observed' <=> o \in Observed \cup {s}
    <3>1. o \in Observed' <=> \E k \in DOMAIN out' : o = <<out'[k].pid, out'[k].part["stat"]>>
      BY DEF Observed, Range
    <3>2. o \in Observed <=> \E k \in DOMAIN out : o = <<out[k].pid, out[k].part["stat"]>>
      BY DEF Observed, Range
    <3>3. Len(out) + 1 \in DOMAIN out'
      BY <1>2
    <3>4. ASSUME NEW k \in DOMAIN out' PROVE k \in DOMAIN out \/ k = Len(out) + 1
      BY <1>2
    <3> QED
      BY <1>2, <3>1, <3>2, <3>3, <3>4
  <2> QED
    BY <2>1
<1>4. \A o \in Observed : o[1] # s[1]
  <2> SUFFICES ASSUME NEW k \in DOMAIN out PROVE out[k].pid # r.pid
    BY DEF Observed, Range
  <2> QED
    BY DEF IInv, OnePlace, FrameNotElsewhere
<1>5. s \in Abstract!Seen
  BY DEF Witnessed, Seen, Abstract!Seen
<1>6. Phase = "busy" /\ Phase' = Phase /\ req' = req /\ UNCHANGED Abstract!procVars
  BY DEF Phase, procVars, Abstract!procVars
<1> HIDE DEF s
<1> QED
  BY <1>3, <1>4, <1>5, <1>6 DEF Abstract!Next, Abstract!Observe

\* To take a row is to observe its process, or nothing.
LEMMA TakeRowObserved ==
  ASSUME IInv, PartsInv, SurvivorInv, TakeRow
  PROVE  [Abstract!Next]_Abstract!vars
<1>1. /\ UNCHANGED <<procVars, mount, req, pids, result>>
      /\ cpc = "rows" /\ dpc = "done" /\ row \in Rows /\ cpc' \in {"rows", "net"}
  BY DEF TakeRow, IInv, TypeOK, DetailsTypeOK
<1>2. CASE out' = out
  BY <1>1, <1>2, QuietStep
<1>3. CASE out' # out
  <2>1. out' = Append(out, row) /\ derr = "none" /\ cpc' = "rows"
    BY <1>1, <1>3 DEF TakeRow
  <2>2. Witnessed(row)
    BY <1>1, <2>1, FrameToRow
  <2> QED
    BY <1>1, <2>1, <2>2, RowObserved
<1> QED
  BY <1>2, <1>3

\* The connections are read between the observation of a process and the next.
LEMMA ReadConnectionsObserved ==
  ASSUME IInv, PartsInv, SurvivorInv, ReadConnections
  PROVE  [Abstract!Next]_Abstract!vars
<1>1. /\ UNCHANGED <<procVars, mount, req, pids, result>>
      /\ cpc = "net" /\ dpc = "done" /\ derr = "none" /\ row \in Rows /\ row.pid \in Pids
      /\ cpc' = "rows"
  BY DEF ReadConnections, IInv, TypeOK, DetailsTypeOK, FrameOK
<1>2. CASE out' = out
  BY <1>1, <1>2, QuietStep
<1>3. CASE out' # out
  <2> DEFINE r == [row EXCEPT !.part = [row.part EXCEPT !["net"] = table[row.pid].born]]
  <2>1. out' = Append(out, r)
    BY <1>3 DEF ReadConnections
  <2>2. table[row.pid].born \in Nat /\ row.part \in [Parts -> Nat]
    <3>1. table[row.pid] \in Processes
      BY <1>1 DEF IInv, TypeOK, ProcTypeOK
    <3> QED
      BY <1>1, <3>1 DEF Processes, Rows
  <2>3. r \in Rows /\ r.pid = row.pid /\ r.part["stat"] = row.part["stat"]
    BY <1>1, <2>2 DEF Rows, Parts
  <2>4. Witnessed(r)
    <3>1. Witnessed(row)
      BY <1>1, FrameToRow
    <3> HIDE DEF r
    <3> QED
      BY <2>3, <3>1 DEF Witnessed
  <2> HIDE DEF r
  <2> QED
    BY <1>1, <2>1, <2>3, <2>4, RowObserved
<1> QED
  BY <1>2, <1>3

\* Sorted or not, the rows that are returned are those reported.
LEMMA ReturnRowsObserved ==
  ASSUME IInv, SurvivorInv, SurvivorInv', ReturnRows
  PROVE  [Abstract!Next]_Abstract!vars
<1>1. /\ UNCHANGED <<procVars, mount, req>>
      /\ cpc = "rows" /\ cpc' = "done" /\ result' = "ok" /\ mount = "mounted"
      /\ out' = out \/ out' \in Arrangements(out)
      /\ out \in Seq(Rows)
  BY SortedRowsAreArrangements
     DEF ReturnRows, Finish, IInv, TypeOK, CollectTypeOK, SurvivorInv, ResultKept
<1>2. Phase = "busy" /\ Phase' = "returned"
  BY <1>1 DEF Phase
<1>3. Observed' = Observed
  <2> DEFINE t == out'
  <2>1. CASE t = out
    BY <2>1 DEF Observed, Range
  <2>2. CASE t \in Arrangements(out)
    <3>1. Range(t) = Range(out)
      <4> HIDE DEF t
      <4>1. Drawn(t, out)
        BY <1>1, <2>2, ArrangementsProperties
      <4>2. Range(t) \subseteq Range(out)
        BY <4>1 DEF Drawn, Range
      <4>3. Range(out) \subseteq Range(t)
        BY <2>2, ArrangementsKeepAll DEF Range
      <4> QED
        BY <4>2, <4>3
    <3> QED
      BY <3>1 DEF Observed
  <2> QED
    BY <1>1, <2>1, <2>2
<1>4. \A p \in lived : AskedFor(req, p, table[p], p \in settled) => Abstract!Present(p) \in Observed
  BY <1>1, <1>3, ReturnedRows DEF Abstract!Present
<1> QED
  BY <1>1, <1>2, <1>3, <1>4 DEF Abstract!Next, Abstract!Return, procVars, Abstract!procVars

\* A call that is given up is an observation that stops.
LEMMA AbandonObserved ==
  ASSUME IInv, Abandon
  PROVE  [Abstract!Next]_Abstract!vars
<1>1. /\ UNCHANGED <<procVars, req>>
      /\ cpc = "rows" /\ cpc' = "done" /\ result' = "abandoned"
      /\ out \in Seq(Rows)
  BY DEF Abandon, Finish, IInv, TypeOK, CollectTypeOK
<1>2. Phase = "busy" /\ Phase' = "abandoned"
  BY <1>1 DEF Phase
<1>3. Observed' \subseteq Observed
  <2> DEFINE u == out'
  <2>1. u = out \/ (u \in Seq(Rows) /\ Drawn(u, out))
    BY <1>1, AbandonRows
  <2>2. Range(u) \subseteq Range(out)
    <3> HIDE DEF u
    <3> QED
      BY <2>1 DEF Drawn, Range
  <2> QED
    BY <2>2 DEF Observed
<1> QED
  BY <1>1, <1>2, <1>3 DEF Abstract!Next, Abstract!Stop, procVars, Abstract!procVars

\* Every step of a call is a step of the observation or changes nothing of it.
LEMMA NextObserves ==
  IInv /\ PartsInv /\ SurvivorInv /\ SurvivorInv' /\ [Next]_vars
    => [Abstract!Next]_Abstract!vars
<1> SUFFICES ASSUME IInv, PartsInv, SurvivorInv, SurvivorInv', [Next]_vars
             PROVE  [Abstract!Next]_Abstract!vars
  OBVIOUS
<1>1. ASSUME NEW r \in Requests, Begin(r) PROVE [Abstract!Next]_Abstract!vars
  BY <1>1, BeginObserved
<1>2. CASE ParentExists \/ ParentOpen \/ ListFails
  BY <1>2, CheckObserved
<1>3. CASE ListEnd \/ NextPid \/ ReadDetails \/ \E p \in Pids : ListEntry(p)
  <2>1. /\ UNCHANGED <<procVars, mount, req, out>>
        /\ cpc \notin {"idle", "done"} /\ cpc' \notin {"idle", "done"}
    BY <1>3 DEF ListEnd, NextPid, ListEntry, ReadDetails, DetailsNext, CheckExists, CheckOpen,
       ReadStat, ReadOptional, OptionalParts, IInv, FrameOK, collectVars
  <2> QED
    BY <2>1, QuietStep
<1>4. CASE TakeRow
  BY <1>4, TakeRowObserved
<1>5. CASE ReadConnections
  BY <1>5, ReadConnectionsObserved
<1>6. CASE ReturnRows
  BY <1>6, ReturnRowsObserved
<1>7. CASE Abandon
  BY <1>7, AbandonObserved
<1>8. CASE Kernel /\ UNCHANGED <<detailsVars, collectVars>>
  BY <1>8, KernelObserved
<1>9. CASE UNCHANGED vars
  BY <1>9 DEF vars, procVars, collectVars, Abstract!vars, Abstract!procVars, Phase, Observed,
     Range
<1> QED
  BY <1>1, <1>2, <1>3, <1>4, <1>5, <1>6, <1>7, <1>8, <1>9 DEF Next, Analyzer

\* Every listing call is an observation, for every set of PIDs, every request
\* and whatever the kernel does while it runs: it reports only processes alive
\* during the call, one per PID, and, when it returns a value, every survivor
\* it was asked for.
THEOREM ListingIsObservation == Spec => ImplementsObservation
<1>1. Init => Abstract!Init
  BY InitObserves
<1>2. /\ IInv /\ PartsInv /\ SurvivorInv /\ (IInv /\ PartsInv /\ SurvivorInv)'
      /\ [Next]_vars
      => [Abstract!Next]_Abstract!vars
  BY NextObserves
<1> QED
  BY <1>1, <1>2, SurvivorInvariance, PTL DEF Spec, ImplementsObservation, Abstract!Spec

-----------------------------------------------------------------------------
(***************************************************************************)
(* Why a call returns, however fast the table changes.  Every step of it   *)
(* takes it on, in this order of importance: it comes to a later part of   *)
(* the call; while it lists, a PID more is on the list, and no PID twice;  *)
(* while it reads, a PID less; of the PID that is read, a read less.       *)
(***************************************************************************)
CallStage == CASE cpc = "parentExists" -> 4
               [] cpc = "parentOpen" -> 3
               [] cpc = "list" -> 2
               [] cpc \in {"rows", "net"} -> 1
               [] OTHER -> 0

ReadsLeft ==
  IF cpc = "net" THEN 1
  ELSE CASE dpc = "exists" -> 10
         [] dpc = "opendir" -> 9
         [] dpc = "stat" -> 8
         [] dpc = "status" -> 7
         [] dpc = "cmdline" -> 6
         [] dpc = "exe" -> 5
         [] dpc = "cwd" -> 4
         [] dpc = "io" -> 3
         [] dpc = "done" -> 2
         [] OTHER -> 0

CallGoesOn ==
  \/ CallStage' < CallStage
  \/ CallStage' = CallStage /\ cpc = "list" /\ Strictly(Range(pids), Range(pids'))
  \/ CallStage' = CallStage /\ cpc # "list" /\ Len(pids') < Len(pids)
  \/ CallStage' = CallStage /\ pids' = pids /\ ReadsLeft' < ReadsLeft

\* A step of the details call is one read less.
LEMMA ReadGoesOn ==
  ASSUME IInv, ReadDetails
  PROVE  CallStage' = CallStage /\ pids' = pids /\ ReadsLeft' < ReadsLeft
<1>1. UNCHANGED <<cpc, pids>>
  BY DEF ReadDetails, collectVars
<1>2. dpc \notin {"idle", "done"} /\ cpc = "rows"
  BY DEF ReadDetails, DetailsNext, CheckExists, CheckOpen, ReadStat, ReadOptional, OptionalParts,
         IInv, FrameOK
<1>3. \/ dpc = "exists" /\ dpc' \in {"opendir", "done"}
      \/ dpc = "opendir" /\ dpc' \in {"stat", "done"}
      \/ dpc = "stat" /\ dpc' \in {"status", "done"}
      \/ dpc \in OptionalParts /\ dpc' = AfterPart(dpc)
  BY DEF ReadDetails, DetailsNext, CheckExists, CheckOpen, ReadStat, ReadOptional, FailDetails
<1>4. ReadsLeft' < ReadsLeft
  BY <1>1, <1>2, <1>3 DEF ReadsLeft, OptionalParts, AfterPart
<1> QED
  BY <1>1, <1>4 DEF CallStage

\* A call that has begun goes on towards its end with every step, and is kept
\* from it neither by forks nor by exits: what is listed once is read once
\* (base.cpp:26-80, 95-121, 162-226).
THEOREM NoReadForNothing ==
  Spec => [][cpc \notin {"idle", "done"} =>
               CallGoesOn \/ UNCHANGED <<detailsVars, collectVars>>]_vars
<1>1. ASSUME IInv, [Next]_vars, cpc \notin {"idle", "done"}
      PROVE  CallGoesOn \/ UNCHANGED <<detailsVars, collectVars>>
  <2>0. pids \in Seq(Pids)
    BY <1>1 DEF IInv, TypeOK, CollectTypeOK
  <2>1. CASE ParentExists
    BY <2>1 DEF ParentExists, Finish, CallGoesOn, CallStage
  <2>2. CASE ParentOpen
    BY <2>2 DEF ParentOpen, Finish, CallGoesOn, CallStage
  <2>3. CASE ListFails
    BY <2>3 DEF ListFails, Finish, CallGoesOn, CallStage
  <2>4. ASSUME NEW p \in Pids, ListEntry(p) PROVE CallGoesOn
    <3>1. p \notin Range(pids) /\ pids' = Append(pids, p) /\ cpc = "list" /\ cpc' = cpc
      BY <2>4 DEF ListEntry
    <3>2. Range(pids') = Range(pids) \cup {p}
      BY <2>0, <3>1, AppendProperties DEF Range
    <3> QED
      BY <3>1, <3>2 DEF CallGoesOn, CallStage, Strictly
  <2>5. CASE ListEnd
    BY <2>5 DEF ListEnd, CallGoesOn, CallStage
  <2>6. CASE NextPid
    <3>1. cpc = "rows" /\ cpc' = cpc /\ pids # <<>> /\ pids' = Tail(pids)
      BY <2>6 DEF NextPid
    <3>2. Len(pids') < Len(pids)
      BY <2>0, <3>1, Shifted
    <3> QED
      BY <3>1, <3>2 DEF CallGoesOn, CallStage
  <2>7. CASE ReadDetails
    BY <1>1, <2>7, ReadGoesOn DEF CallGoesOn
  <2>8. CASE TakeRow
    BY <2>8 DEF TakeRow, EndDetails, CallGoesOn, CallStage, ReadsLeft
  <2>9. CASE ReadConnections
    BY <2>9 DEF ReadConnections, EndDetails, CallGoesOn, CallStage, ReadsLeft
  <2>10. CASE ReturnRows
    BY <2>10 DEF ReturnRows, Finish, CallGoesOn, CallStage
  <2>11. CASE Abandon
    BY <2>11 DEF Abandon, Finish, CallGoesOn, CallStage
  <2>12. CASE UNCHANGED <<detailsVars, collectVars>>
    BY <2>12
  <2>13. ~(\E r \in Requests : Begin(r))
    BY <1>1 DEF Begin
  <2> QED
    BY <1>1, <2>1, <2>2, <2>3, <2>4, <2>5, <2>6, <2>7, <2>8, <2>9, <2>10, <2>11, <2>12, <2>13
       DEF Next, Analyzer, vars
<1> QED
  BY <1>1, Invariance, PTL DEF Spec
=============================================================================
