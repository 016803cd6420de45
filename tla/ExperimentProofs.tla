-------------------------- MODULE ExperimentProofs --------------------------
(* For any number of runs and failures: the statistics are taken from the   *)
(* machine and the invocation they are said to be of, and when nothing      *)
(* fails every report in them is whole, however long the loader takes; and  *)
(* a loader that the script's waits outlast always writes its report.       *)
EXTENDS Experiment, SequenceTheorems, TLAPS

Remotes == {"client", "host"}
Own == {"iperf", "mem", "ebpf"}

(* A report the script's own machine may have written. *)
LocalName(n) == n \in Own \/ (n \in Metric /\ Recorded(S, "local", n))
CopiedName(n, m) == \E i \in DOMAIN S.copies : S.copies[i].to = n /\ S.copies[i].from = m

Stages == {"off", "due", "stalled", "measuring", "measured", "parsing"}

Types ==
  /\ script \in Scripts
  /\ run \in Runs
  /\ dirs \in [Runs -> [Names -> Files]]
  /\ remote \in [Remotes -> [Metric -> Files]]
  /\ rec \in [Machines -> [st : Stages, todo : Seq(Metric)]]

(* A report was measured on the machine whose directory it is in. *)
FromRemote ==
  \A m \in Remotes, x \in Metric : remote[m][x] = NoFile \/ remote[m][x].by = m

(* A report in the script's directories was written there, or copied from    *)
(* the machine its name stands for.                                          *)
OriginOf(n, f) ==
  \/ f = NoFile
  \/ f.by = "local" /\ LocalName(n)
  \/ f.by \in Remotes /\ CopiedName(n, f.by)
Origins == \A r \in Runs, n \in Names : OriginOf(n, dirs[r][n])

(* A script that does not compute the throughput never has one. *)
NoTput == ~S.period => \A r \in Runs : dirs[r]["iperf"] = NoFile

(* A recorder is at work on metrics its machine is to record. *)
TodoOf(m, r) ==
  /\ r.st = "off" <=> r.todo = <<>>
  /\ \A i \in 1 .. Len(r.todo) : Recorded(S, m, r.todo[i])
Todo == \A m \in Machines : TodoOf(m, rec[m])

Fresh(f) == f.by = "local" => f.age # "old"
Measured(r) ==
  \/ r < run
  \/ r = run /\ pc \in {"copy", "settle", "endrun"}
  \/ pc \in {"collect", "report", "done"}

(* What the own machine records has been opened anew in every run that is   *)
(* measured, and in the present one up to the metric it is at.              *)
FreshWhenMeasured ==
  \A r \in Runs, n \in Metric :
    Recorded(S, "local", n) /\ Measured(r) => Fresh(dirs[r][n])
FreshWhileRecording ==
  pc = "record" =>
    \A n \in Metric : Recorded(S, "local", n) =>
      \/ Fresh(dirs[run][n])
      \/ \E i \in 1 .. Len(rec["local"].todo) :
           /\ rec["local"].todo[i] = n
           /\ i > 1 \/ rec["local"].st # "parsing"

DirsInv == Types /\ FromRemote /\ Origins /\ NoTput /\ Todo
FreshInv == FreshWhenMeasured /\ FreshWhileRecording
StatsInv == DirsInv /\ FreshInv /\ RetxFromSender /\ LocalNeverStale

-----------------------------------------------------------------------------
(* The table of scripts. *)
LEMMA Scripted ==
  ASSUME script \in Scripts
  PROVE  /\ script \in {"VmRx", "VmTx", "Tx", "Rx"}
         /\ script = "VmRx" => S = VmRx
         /\ script = "VmTx" => S = VmTx
         /\ script = "Tx" => S = Tx
         /\ script = "Rx" => S = Rx
BY ScriptsAssumption DEF S, Table

LEMMA Fields ==
  /\ VmRx.records = [local |-> <<"cpu", "retx">>, client |-> <<"cpu", "retx">>,
                     host |-> <<"retx", "pcie">>]
  /\ VmTx.records = VmRx.records
  /\ Tx.records = [local |-> <<"cpu", "retx", "pcie">>, client |-> <<"cpu", "retx">>,
                   host |-> <<>>]
  /\ Rx.records = Tx.records
  /\ VmRx.copies = <<Copy("client", "retx", "client-retx"), Copy("host", "retx", "host-retx"),
                     Copy("host", "pcie", "host-pcie")>>
  /\ VmTx.copies = VmRx.copies
  /\ Tx.copies = <<Copy("client", "retx", "client-retx")>>
  /\ Rx.copies = <<Copy("client", "retx", "retx")>>
  /\ VmRx.sources = VmRxSources /\ VmTx.sources = VmTxSources
  /\ Tx.sources = TxSources /\ Rx.sources = RxSources
  /\ VmRx.sender = "client" /\ VmTx.sender = "local" /\ Tx.sender = "local"
  /\ VmRx.period /\ VmTx.period /\ Tx.period /\ ~Rx.period
  /\ VmRx.settle = 2 /\ VmTx.settle = 2 /\ Tx.settle = 2 /\ Rx.settle = 2
<1>1. /\ VmTx.records = VmRx.records /\ VmTx.copies = VmRx.copies
      /\ VmTx.sources = VmTxSources /\ VmTx.sender = "local" /\ VmTx.period
      /\ VmTx.settle = 2
  BY DEF VmTx, VmRx
<1>2. /\ Tx.records = [local |-> <<"cpu", "retx", "pcie">>, client |-> <<"cpu", "retx">>,
                       host |-> <<>>]
      /\ Tx.copies = <<Copy("client", "retx", "client-retx")>>
      /\ Tx.sources = TxSources /\ Tx.sender = "local" /\ Tx.period
      /\ Tx.settle = 2
  BY DEF Tx, VmTx, VmRx
<1>3. /\ Rx.records = Tx.records /\ Rx.copies = <<Copy("client", "retx", "retx")>>
      /\ Rx.sources = RxSources /\ ~Rx.period
      /\ Rx.settle = 2
  BY DEF Rx, Tx, VmTx, VmRx
<1>4. /\ VmRx.records = [local |-> <<"cpu", "retx">>, client |-> <<"cpu", "retx">>,
                         host |-> <<"retx", "pcie">>]
      /\ VmRx.copies = <<Copy("client", "retx", "client-retx"), Copy("host", "retx", "host-retx"),
                         Copy("host", "pcie", "host-pcie")>>
      /\ VmRx.sources = VmRxSources /\ VmRx.sender = "client" /\ VmRx.period
      /\ VmRx.settle = 2
  BY DEF VmRx
<1> QED BY <1>1, <1>2, <1>3, <1>4

LEMMA SourceFields ==
  /\ VmRxSources.retx = "client-retx" /\ VmRxSources.pcie = "host-pcie"
  /\ VmTxSources.retx = "retx" /\ VmTxSources.pcie = "host-pcie"
  /\ TxSources.retx = "retx" /\ TxSources.pcie = "pcie"
  /\ \A s \in {VmRxSources, VmTxSources, TxSources} :
       /\ s.iperf = "iperf" /\ s.cpu = "cpu" /\ s.mem = "mem"
       /\ s.membw \in {"host-membw", "membw"}
  /\ RxSources = TxSources
<1>1. VmTxSources = [retx |-> "retx", membw |-> "host-membw", pcie |-> "host-pcie",
                     iperf |-> "iperf", mem |-> "mem", cpu |-> "cpu"]
  BY DEF VmTxSources, VmRxSources
<1>2. /\ TxSources.retx = "retx" /\ TxSources.membw = "membw" /\ TxSources.pcie = "pcie"
      /\ TxSources.iperf = "iperf" /\ TxSources.mem = "mem" /\ TxSources.cpu = "cpu"
  BY <1>1 DEF TxSources
<1> QED BY <1>1, <1>2 DEF VmRxSources, RxSources

LEMMA Records ==
  ASSUME script \in Scripts, NEW m \in Machines
  PROVE  /\ S.records[m] \in Seq(Metric)
         /\ \A i \in 1 .. Len(S.records[m]) : Recorded(S, m, S.records[m][i])
<1>1. S.records[m] \in {<<"cpu", "retx">>, <<"retx", "pcie">>, <<"cpu", "retx", "pcie">>, <<>>}
  BY Scripted, Fields DEF Machines
<1>2. /\ <<"cpu", "retx">> \in Seq(Metric)
      /\ <<"retx", "pcie">> \in Seq(Metric)
      /\ <<"cpu", "retx", "pcie">> \in Seq(Metric)
      /\ <<>> \in Seq(Metric)
  BY DEF Metric
<1>3. S.records[m] \in Seq(Metric)
  BY <1>1, <1>2
<1>4. DOMAIN S.records[m] = 1 .. Len(S.records[m])
  BY <1>3, LenProperties
<1> QED BY <1>3, <1>4 DEF Recorded

LEMMA Copies ==
  ASSUME script \in Scripts, NEW i \in DOMAIN S.copies
  PROVE  /\ S.copies[i].from \in Remotes
         /\ S.copies[i].metric \in Metric
         /\ S.copies[i].to \in {"client-retx", "host-retx", "host-pcie", "retx"}
<1>1. S.copies \in {VmRx.copies, Tx.copies, Rx.copies}
  BY Scripted, Fields
<1>2. CASE S.copies = VmRx.copies
  BY <1>2, Fields DEF Copy, Remotes, Metric
<1>3. CASE S.copies = Tx.copies
  BY <1>3, Fields DEF Copy, Remotes, Metric
<1>4. CASE S.copies = Rx.copies
  BY <1>4, Fields DEF Copy, Remotes, Metric
<1> QED BY <1>1, <1>2, <1>3, <1>4

(* Where the collector looks for the retransmissions, and what it finds.    *)
LEMMA RetxNames ==
  ASSUME script \in Scripts, NEW f \in Files, f # NoFile, S.period,
         OriginOf(S.sources.retx, f)
  PROVE  f.by = S.sender
<1> DEFINE n == S.sources.retx
<1>1. CASE script = "VmRx"
  <2>1. n = "client-retx" /\ S.sender = "client"
    BY <1>1, Scripted, Fields, SourceFields
  <2>2. ~LocalName(n)
    BY <2>1 DEF LocalName, Own, Metric
  <2>3. ~CopiedName(n, "host")
    BY <1>1, <2>1, Scripted, Fields DEF CopiedName, Copy
  <2> QED BY <2>1, <2>2, <2>3 DEF OriginOf, Remotes
<1>2. CASE script \in {"VmTx", "Tx"}
  <2>1. n = "retx" /\ S.sender = "local"
    BY <1>2, Scripted, Fields, SourceFields
  <2>2. S.copies = VmRx.copies \/ S.copies = Tx.copies
    BY <1>2, Scripted, Fields
  <2>3. \A i \in DOMAIN S.copies : S.copies[i].to # "retx"
    <3>1. CASE S.copies = VmRx.copies
      BY <3>1, Fields DEF Copy
    <3>2. CASE S.copies = Tx.copies
      BY <3>2, Fields DEF Copy
    <3> QED BY <2>2, <3>1, <3>2
  <2>4. \A m : ~CopiedName(n, m)
    BY <2>1, <2>3 DEF CopiedName
  <2> QED BY <2>1, <2>4 DEF OriginOf
<1>3. script # "Rx"
  BY Scripted, Fields
<1> QED BY <1>1, <1>2, <1>3, Scripted

LEMMA SourceNames ==
  ASSUME script \in Scripts
  PROVE  /\ S.sources.iperf = "iperf"
         /\ \A k \in Kinds : S.sources[k] \in Names
         /\ \A k \in Metric : S.sources[k] \in Names \ Own
<1>1. S.sources \in {VmRxSources, VmTxSources, TxSources}
  BY Scripted, Fields, SourceFields
<1> QED BY <1>1, SourceFields DEF Kinds, Names, Own, Metric

-----------------------------------------------------------------------------
(* What a step may do to the script's directories. *)
Kept ==
  /\ dirs' \in [Runs -> [Names -> Files]]
  /\ Origins'
  /\ NoTput'
  /\ \A r \in Runs, n \in Metric : Fresh(dirs[r][n]) => Fresh(dirs'[r][n])

LEMMA MetricNames == Metric \subseteq Names /\ Own \subseteq Names /\ Own \cap Metric = {}
BY DEF Metric, Names, Own

LEMMA SameNames ==
  ASSUME script' = script
  PROVE  /\ S' = S
         /\ \A n, f : OriginOf(n, f)' <=> OriginOf(n, f)
BY DEF S, OriginOf, LocalName, CopiedName

LEMMA DirsSame ==
  ASSUME DirsInv, UNCHANGED <<script, dirs>>
  PROVE  Kept
<1>1. S' = S
  BY SameNames
<1>2. Origins'
  BY <1>1 DEF DirsInv, Origins, OriginOf, LocalName, CopiedName
<1>3. NoTput'
  BY <1>1 DEF DirsInv, NoTput
<1> QED BY <1>2, <1>3 DEF Kept, DirsInv, Types

\* A step that writes one report of this run.
LEMMA DirWrite ==
  ASSUME DirsInv, NEW n \in Names, NEW f \in Files, dirs' = [dirs EXCEPT ![run][n] = f]
  PROVE  \A r \in Runs, m \in Names :
           dirs'[r][m] = IF r = run /\ m = n THEN f ELSE dirs[r][m]
<1> DEFINE d == [dirs[run] EXCEPT ![n] = f]
<1>1. dirs \in [Runs -> [Names -> Files]] /\ run \in Runs
  BY DEF DirsInv, Types
<1>2. /\ d \in [Names -> Files]
      /\ \A m \in Names : d[m] = IF m = n THEN f ELSE dirs[run][m]
  BY <1>1
<1>3. dirs' = [dirs EXCEPT ![run] = d]
  OBVIOUS
<1> HIDE DEF d
<1>4. \A r \in Runs : dirs'[r] = IF r = run THEN d ELSE dirs[r]
  BY <1>1, <1>2, <1>3
<1> QED BY <1>2, <1>4

LEMMA DirPut ==
  ASSUME DirsInv, script' = script, NEW n \in Names, NEW f \in Files,
         dirs' = [dirs EXCEPT ![run][n] = f],
         OriginOf(n, f),
         n = "iperf" => S.period,
         n \in Metric => Fresh(f)
  PROVE  Kept /\ dirs'[run][n] = f
<1> DEFINE d == [dirs[run] EXCEPT ![n] = f]
<1>1. dirs \in [Runs -> [Names -> Files]] /\ run \in Runs
  BY DEF DirsInv, Types
<1>2. d \in [Names -> Files]
  BY <1>1
<1>3. dirs' = [dirs EXCEPT ![run] = d]
  OBVIOUS
<1> HIDE DEF d
<1>4. dirs' \in [Runs -> [Names -> Files]]
  BY <1>1, <1>2, <1>3
<1>5. \A r \in Runs, m \in Names :
        dirs'[r][m] = IF r = run /\ m = n THEN f ELSE dirs[r][m]
  BY DirWrite
<1>6. S' = S
  BY SameNames
<1>7. Origins'
  <2>1. \A r \in Runs, m \in Names : OriginOf(m, dirs'[r][m])
    BY <1>5 DEF DirsInv, Origins
  <2> QED BY <1>6, <2>1 DEF Origins, OriginOf, LocalName, CopiedName
<1>8. NoTput'
  <2>1. "iperf" \in Names
    BY DEF Names
  <2> QED BY <1>5, <1>6, <2>1 DEF DirsInv, NoTput
<1>9. \A r \in Runs, m \in Metric : Fresh(dirs[r][m]) => Fresh(dirs'[r][m])
  BY <1>5, MetricNames
<1> QED BY <1>1, <1>4, <1>5, <1>7, <1>8, <1>9 DEF Kept

\* The parts of the invariant, put together.
LEMMA Together ==
  ASSUME StatsInv, UNCHANGED <<script, samples>>, run' \in Runs, Kept,
         remote' \in [Remotes -> [Metric -> Files]], FromRemote',
         rec' \in [Machines -> [st : Stages, todo : Seq(Metric)]], Todo',
         FreshInv'
  PROVE  StatsInv'
<1>1. Types'
  BY DEF StatsInv, DirsInv, Types, Kept
<1>2. RetxFromSender'
  BY SameNames DEF StatsInv, RetxFromSender
<1>3. LocalNeverStale'
  BY DEF StatsInv, LocalNeverStale
<1> QED BY <1>1, <1>2, <1>3 DEF StatsInv, DirsInv, Kept

\* What keeps the recorders' lists, and the reports of the remote machines.
LEMMA TodoSame ==
  ASSUME StatsInv, UNCHANGED <<script, rec>>
  PROVE  rec' \in [Machines -> [st : Stages, todo : Seq(Metric)]] /\ Todo'
BY SameNames DEF StatsInv, DirsInv, Types, Todo, TodoOf, Recorded

LEMMA TodoPut ==
  ASSUME StatsInv, UNCHANGED script,
         \A m \in Machines : rec'[m] = rec[m] \/ TodoOf(m, rec'[m])
  PROVE  Todo'
<1>1. \A m \in Machines : TodoOf(m, rec'[m])
  BY DEF StatsInv, DirsInv, Todo
<1> QED BY <1>1, SameNames DEF Todo, TodoOf, Recorded

LEMMA RemoteSame ==
  ASSUME StatsInv, UNCHANGED remote
  PROVE  remote' \in [Remotes -> [Metric -> Files]] /\ FromRemote'
BY DEF StatsInv, DirsInv, Types, FromRemote

\* A step that neither finishes a run nor begins to record, and leaves the
\* local recorder alone while it records.
LEMMA FreshQuiet ==
  ASSUME StatsInv, UNCHANGED script, run' = run, Kept,
         \A r \in Runs : Measured(r)' => Measured(r),
         pc' = "record" => pc = "record" /\ rec'["local"] = rec["local"]
  PROVE  FreshInv'
<1>1. S' = S /\ run \in Runs
  BY SameNames DEF StatsInv, DirsInv, Types
<1>2. FreshWhenMeasured'
  BY <1>1 DEF StatsInv, FreshInv, FreshWhenMeasured, Kept, Recorded, Fresh
<1>3. FreshWhileRecording'
  BY <1>1 DEF StatsInv, FreshInv, FreshWhileRecording, Kept, Recorded, Fresh
<1> QED BY <1>2, <1>3 DEF FreshInv

-----------------------------------------------------------------------------
(* Files of the parsers and of the steps. *)
LEMMA FileType ==
  ASSUME NEW v \in Vals, NEW m \in Machines, NEW a \in Ages
  PROVE  /\ File(v, m, a) \in Files /\ File(v, m, a) # NoFile
         /\ File(v, m, a).by = m /\ File(v, m, a).age = a
BY DEF Files, File, NoFile, Vals

LEMMA Idles ==
  /\ Idle \in [st : Stages, todo : Seq(Metric)]
  /\ Idle.st = "off" /\ Idle.todo = <<>>
  /\ \A m : TodoOf(m, Idle)
<1>1. <<>> \in Seq(Metric) /\ Len(<<>>) = 0
  BY EmptySeq
<1>2. Idle.st = "off" /\ Idle.todo = <<>> /\ Idle \in [st : Stages, todo : Seq(Metric)]
  <2> DEFINE Q == Seq(Metric)
             e == <<>>
  <2>1. e \in Q
    BY <1>1
  <2> HIDE DEF Q, e
  <2>2. [st |-> "off", todo |-> e] \in [st : Stages, todo : Q]
    BY <2>1 DEF Stages
  <2> QED BY <2>2 DEF Idle, Q, e
<1>3. \A m : TodoOf(m, Idle)
  BY <1>1, <1>2 DEF TodoOf
<1> QED BY <1>2, <1>3

\* Steps that change neither the reports nor the recorders.
LEMMA Elsewhere ==
  ASSUME StatsInv, UNCHANGED <<script, run, dirs, remote, rec, samples>>,
         \A r \in Runs : Measured(r)' => Measured(r),
         pc' = "record" => pc = "record"
  PROVE  StatsInv'
<1>1. Kept
  BY DirsSame DEF StatsInv
<1>2. FreshInv'
  BY <1>1, FreshQuiet
<1>3. run' \in Runs
  BY DEF StatsInv, DirsInv, Types
<1> QED BY <1>1, <1>2, <1>3, TodoSame, RemoteSame, Together

LEMMA LoaderSteps ==
  ASSUME StatsInv, Attached \/ StopTracing \/ Settle \/ Report \/ Done
  PROVE  StatsInv'
<1>1. UNCHANGED <<script, run, dirs, remote, rec, samples>>
  BY DEF Attached, StopTracing, Settle, Report, Done, vars
<1>2. /\ \A r \in Runs : Measured(r)' => Measured(r)
      /\ pc' = "record" => pc = "record"
  BY DEF Attached, StopTracing, Settle, Report, Done, vars, Measured
<1> QED BY <1>1, <1>2, Elsewhere

LEMMA DumpedInv ==
  ASSUME StatsInv, Dumped
  PROVE  StatsInv'
<1> DEFINE f == [dirs[run]["ebpf"] EXCEPT !.val = "good"]
<1>1. /\ UNCHANGED <<script, run, pc, remote, rec, samples>>
      /\ dirs' = [dirs EXCEPT ![run]["ebpf"].val = "good"]
  BY DEF Dumped
<1>2. dirs[run]["ebpf"] \in Files /\ run \in Runs /\ OriginOf("ebpf", dirs[run]["ebpf"])
  BY DEF StatsInv, DirsInv, Types, Names, Origins
<1>3. f \in Files
  BY <1>2 DEF Files, NoFile, Vals, Machines, Ages
<1>4. OriginOf("ebpf", f)
  BY <1>2 DEF OriginOf, NoFile, LocalName, Own, Files
<1> HIDE DEF f
<1>5. dirs' = [dirs EXCEPT ![run]["ebpf"] = f]
  BY <1>1 DEF f
<1>6. Kept
  BY <1>1, <1>3, <1>4, <1>5, MetricNames, DirPut DEF StatsInv, Own
<1>7. FreshInv'
  BY <1>1, <1>6, FreshQuiet DEF Measured
<1> QED BY <1>1, <1>2, <1>6, <1>7, TodoSame, RemoteSame, Together

LEMMA PeriodInv ==
  ASSUME StatsInv, Period
  PROVE  StatsInv'
<1>1. /\ UNCHANGED <<script, run, remote, rec, samples>>
      /\ pc = "settle" /\ pc' = "endrun" /\ run \in Runs
  BY DEF Period, StatsInv, DirsInv, Types
<1>2. Kept
  <2>1. CASE S.period
    <3>1. PICK log \in IperfLogs :
            dirs' = [dirs EXCEPT ![run]["iperf"] = PeriodReport(@, log)]
      BY <2>1 DEF Period
    <3> DEFINE f == PeriodReport(dirs[run]["iperf"], log)
    <3>2. dirs[run]["iperf"] \in Files /\ OriginOf("iperf", dirs[run]["iperf"])
      BY <1>1 DEF StatsInv, DirsInv, Types, Names, Origins
    <3>3. f \in {dirs[run]["iperf"], File("blank", "local", "new"), File("zero", "local", "new"),
                 File("good", "local", "new")}
      BY DEF IperfLogs, PeriodReport
    <3>4. f \in Files /\ OriginOf("iperf", f)
      <4>1. CASE f = dirs[run]["iperf"]
        BY <3>2, <4>1
      <4>2. CASE f # dirs[run]["iperf"]
        <5> HIDE DEF f
        <5>1. f \in Files /\ f.by = "local"
          BY <3>3, <4>2, FileType DEF Vals, Machines, Ages
        <5> QED BY <5>1 DEF OriginOf, LocalName, Own
      <4> QED BY <4>1, <4>2
    <3>5. dirs' = [dirs EXCEPT ![run]["iperf"] = f]
      BY <3>1
    <3> HIDE DEF f
    <3> QED BY <1>1, <2>1, <3>4, <3>5, MetricNames, DirPut DEF StatsInv, Own
  <2>2. CASE ~S.period
    BY <1>1, <2>2, DirsSame DEF Period, StatsInv
  <2> QED BY <2>1, <2>2
<1>3. FreshInv'
  BY <1>1, <1>2, FreshQuiet DEF Measured
<1> QED BY <1>1, <1>2, <1>3, TodoSame, RemoteSame, Together

(* The next copy is one of the list. *)
Copying == left \in Nat /\ (pc = "copy" => left <= Len(S.copies))

LEMMA CopiesLen ==
  ASSUME script \in Scripts
  PROVE  /\ Len(S.copies) \in 0 .. 3
         /\ DOMAIN S.copies = 1 .. Len(S.copies)
<1>1. S.copies \in {VmRx.copies, Tx.copies, Rx.copies}
  BY Scripted, Fields
<1>2. CASE S.copies = VmRx.copies
  BY <1>2, Fields
<1>3. CASE S.copies = Tx.copies
  BY <1>3, Fields
<1>4. CASE S.copies = Rx.copies
  BY <1>4, Fields
<1> QED BY <1>1, <1>2, <1>3, <1>4

NextCopy == S.copies[Len(S.copies) - left + 1]
Copied == remote[NextCopy.from][NextCopy.metric]

\* A copy, and what it leaves alone.
LEMMA CopyFrame ==
  ASSUME CopyNext
  PROVE  /\ pc = "copy" /\ left > 0 /\ left' = left - 1
         /\ UNCHANGED <<script, earlier, run, pc, remote, rec, loader, dat, samples, reported>>
BY Zenon DEF CopyNext

LEMMA CopyEither ==
  ASSUME CopyNext
  PROVE  \/ /\ Copied # NoFile
            /\ dirs' = [dirs EXCEPT ![run][NextCopy.to] = Copied]
            /\ late' = (late \/ Pending(NextCopy.from, NextCopy.metric))
            /\ UNCHANGED mishaps
         \/ /\ Failing(Copied # NoFile)
            /\ late' = (late \/ Copied = NoFile)
            /\ UNCHANGED dirs
BY Zenon DEF CopyNext, NextCopy, Copied

LEMMA CopyItem ==
  ASSUME script \in Scripts, Copying, CopyNext
  PROVE  /\ Len(S.copies) - left + 1 \in DOMAIN S.copies
         /\ NextCopy.from \in Remotes /\ NextCopy.metric \in Metric
         /\ NextCopy.to \in {"client-retx", "host-retx", "host-pcie", "retx"}
<1> DEFINE i == Len(S.copies) - left + 1
<1>1. i \in DOMAIN S.copies
  BY CopyFrame, CopiesLen DEF Copying
<1>2. NextCopy = S.copies[i]
  BY DEF NextCopy
<1> HIDE DEF i
<1>3. /\ S.copies[i].from \in Remotes /\ S.copies[i].metric \in Metric
      /\ S.copies[i].to \in {"client-retx", "host-retx", "host-pcie", "retx"}
  BY <1>1, Copies
<1> QED BY <1>1, <1>2, <1>3 DEF i

LEMMA CopyNextInv ==
  ASSUME StatsInv, Copying, CopyNext
  PROVE  StatsInv'
<1> DEFINE n == NextCopy.to
           m == NextCopy.from
<1>1. /\ UNCHANGED <<script, run, pc, remote, rec, samples>>
      /\ script \in Scripts /\ run \in Runs /\ pc = "copy"
  BY CopyFrame DEF StatsInv, DirsInv, Types
<1>2. /\ m \in Remotes /\ NextCopy.metric \in Metric
      /\ n \in {"client-retx", "host-retx", "host-pcie", "retx"}
  BY <1>1, CopyItem
<1>3. CopiedName(n, m)
  <2>1. Len(S.copies) - left + 1 \in DOMAIN S.copies
    BY <1>1, CopyItem
  <2> QED BY <2>1 DEF CopiedName, NextCopy
<1>4. Kept
  <2> HIDE DEF n, m
  <2>1. CASE Copied # NoFile /\ dirs' = [dirs EXCEPT ![run][n] = Copied]
    <3>1. Copied \in Files /\ Copied.by = m
      BY <1>2, <2>1 DEF StatsInv, DirsInv, Types, FromRemote, Copied, m
    <3>2. OriginOf(n, Copied)
      BY <1>2, <1>3, <3>1 DEF OriginOf
    <3>3. Fresh(Copied)
      BY <1>2, <3>1 DEF Fresh, Remotes
    <3>4. n \in Names /\ n # "iperf"
      BY <1>2 DEF Names
    <3> QED BY <1>1, <2>1, <3>1, <3>2, <3>3, <3>4, DirPut DEF StatsInv
  <2>2. CASE UNCHANGED dirs
    BY <1>1, <2>2, DirsSame DEF StatsInv
  <2> QED BY <2>1, <2>2, CopyEither DEF n
<1>5. FreshInv'
  BY <1>1, <1>4, FreshQuiet DEF Measured
<1> QED BY <1>1, <1>4, <1>5, TodoSame, RemoteSame, Together

LEMMA CleanupInv ==
  ASSUME StatsInv, Cleanup
  PROVE  StatsInv'
<1>1. /\ UNCHANGED <<script, run, remote, samples>>
      /\ script \in Scripts /\ run \in Runs /\ pc = "cleanup" /\ pc' = "start"
      /\ rec' = [rec EXCEPT !["client"] = Idle, !["host"] = Idle]
  BY DEF Cleanup, QuitScreens, StatsInv, DirsInv, Types
<1>2. Kept
  <2> DEFINE f == MemReport(dirs[run]["mem"])
  <2>1. CASE S.mem
    <3>1. f \in Files /\ OriginOf("mem", f)
      <4>1. f \in {File("good", "local", "new"), File("good", "local", "mixed")}
        BY DEF MemReport
      <4> HIDE DEF f
      <4>2. f \in Files /\ f.by = "local"
        BY <4>1, FileType DEF Vals, Machines, Ages
      <4> QED BY <4>2 DEF OriginOf, LocalName, Own
    <3>2. dirs' = [dirs EXCEPT ![run]["mem"] = f]
      BY <2>1 DEF Cleanup
    <3> HIDE DEF f
    <3> QED BY <1>1, <3>1, <3>2, MetricNames, DirPut DEF StatsInv, Own
  <2>2. CASE ~S.mem
    BY <1>1, <2>2, DirsSame DEF Cleanup, StatsInv
  <2> QED BY <2>1, <2>2
<1>3. rec' \in [Machines -> [st : Stages, todo : Seq(Metric)]] /\ Todo'
  <2>1. \A m \in Machines : rec'[m] = rec[m] \/ rec'[m] = Idle
    BY <1>1 DEF StatsInv, DirsInv, Types, Machines
  <2>2. rec' \in [Machines -> [st : Stages, todo : Seq(Metric)]]
    <3>1. rec \in [Machines -> [st : Stages, todo : Seq(Metric)]]
      BY DEF StatsInv, DirsInv, Types
    <3> QED BY <1>1, <3>1, Idles
  <2>3. Todo'
    BY <1>1, <2>1, Idles, TodoPut
  <2> QED BY <2>2, <2>3
<1>4. FreshInv'
  BY <1>1, <1>2, FreshQuiet DEF Measured
<1> QED BY <1>1, <1>2, <1>3, <1>4, RemoteSame, Together

LEMMA StartInv ==
  ASSUME StatsInv, Start
  PROVE  StatsInv'
<1>1. /\ UNCHANGED <<script, run, remote, samples>>
      /\ script \in Scripts /\ run \in Runs /\ pc = "start" /\ pc' = "record"
      /\ dirs' = [dirs EXCEPT ![run]["ebpf"] = File("empty", "local", "new")]
      /\ rec' = [m \in Machines |->
                  IF S.records[m] = <<>> THEN rec[m]
                  ELSE [st |-> IF m = "local" THEN "measuring" ELSE "due",
                        todo |-> S.records[m]]]
  BY DEF Start, StatsInv, DirsInv, Types
<1>2. Kept
  <2> DEFINE f == File("empty", "local", "new")
  <2>1. f \in Files /\ f.by = "local"
    BY FileType DEF Vals, Machines, Ages
  <2>2. dirs' = [dirs EXCEPT ![run]["ebpf"] = f]
    BY <1>1
  <2> HIDE DEF f
  <2>3. OriginOf("ebpf", f)
    BY <2>1 DEF OriginOf, LocalName, Own
  <2> QED BY <1>1, <2>1, <2>2, <2>3, MetricNames, DirPut DEF StatsInv, Own
<1>3. \A m \in Machines :
        \/ rec'[m] = rec[m]
        \/ /\ rec'[m] \in [st : {"measuring", "due"}, todo : {S.records[m]}]
           /\ S.records[m] # <<>>
  BY <1>1
<1>4. rec' \in [Machines -> [st : Stages, todo : Seq(Metric)]]
  <2>1. \A m \in Machines : rec'[m] \in [st : Stages, todo : Seq(Metric)]
    <3> TAKE m \in Machines
    <3>1. rec[m] \in [st : Stages, todo : Seq(Metric)] /\ S.records[m] \in Seq(Metric)
      BY <1>1, Records DEF StatsInv, DirsInv, Types
    <3> DEFINE Q == Seq(Metric)
               l == S.records[m]
    <3>2. \/ rec'[m] = rec[m]
          \/ rec'[m] \in [st : {"measuring", "due"}, todo : {l}]
      BY <1>3
    <3>3. l \in Q /\ rec[m] \in [st : Stages, todo : Q]
      BY <3>1
    <3> HIDE DEF Q, l
    <3>4. rec'[m] \in [st : Stages, todo : Q]
      BY <3>2, <3>3 DEF Stages
    <3> QED BY <3>4 DEF Q
  <2> DEFINE R == [st : Stages, todo : Seq(Metric)]
  <2> HIDE DEF R
  <2>2. \A m \in Machines : rec'[m] \in R
    BY <2>1 DEF R
  <2>3. rec' = [m \in Machines |-> rec'[m]]
    BY <1>1
  <2>4. rec' \in [Machines -> R]
    BY <2>2, <2>3
  <2> QED BY <2>4 DEF R
<1>5. Todo'
  <2>1. ASSUME NEW m \in Machines
        PROVE  rec'[m] = rec[m] \/ TodoOf(m, rec'[m])
    BY <1>1, <1>3, Records DEF TodoOf
  <2> QED BY <1>1, <2>1, TodoPut
<1>6. FreshWhenMeasured'
  <2>1. \A r \in Runs : Measured(r)' => Measured(r)
    BY <1>1 DEF Measured
  <2>2. S' = S
    BY <1>1, SameNames
  <2> QED BY <1>2, <2>1, <2>2 DEF StatsInv, FreshInv, FreshWhenMeasured, Kept, Recorded, Fresh
<1>7. FreshWhileRecording'
  <2>1. S' = S /\ "local" \in Machines
    BY <1>1, SameNames DEF Machines
  <2>2. /\ S.records["local"] # <<>>
        /\ DOMAIN S.records["local"] = 1 .. Len(S.records["local"])
    <3>1. S.records["local"] \in Seq(Metric)
      BY <1>1, <2>1, Records
    <3>2. S.records["local"] = <<"cpu", "retx">> \/ S.records["local"] = <<"cpu", "retx", "pcie">>
      BY <1>1, Scripted, Fields
    <3>3. <<"cpu", "retx">> # <<>> /\ <<"cpu", "retx", "pcie">> # <<>>
      OBVIOUS
    <3>4. S.records["local"] # <<>>
      BY <3>2, <3>3, Zenon
    <3> QED BY <3>1, <3>4, LenProperties
  <2>3. rec'["local"].st = "measuring" /\ rec'["local"].todo = S.records["local"]
    BY <1>1, <2>1, <2>2
  <2>4. ASSUME NEW n \in Metric, Recorded(S, "local", n)
        PROVE  \E i \in 1 .. Len(rec'["local"].todo) :
                 rec'["local"].todo[i] = n /\ rec'["local"].st # "parsing"
    BY <2>2, <2>3, <2>4 DEF Recorded
  <2> QED BY <2>1, <2>4 DEF FreshWhileRecording, Recorded
<1> QED BY <1>1, <1>2, <1>4, <1>5, <1>6, <1>7, RemoteSame, Together DEF FreshInv

\* The recorders' stages alone change, none of them to or from "off".
LEMMA StagesMove ==
  ASSUME StatsInv, UNCHANGED <<script, run, pc, dirs, remote, samples>>,
         rec' \in [Machines -> [st : Stages, todo : Seq(Metric)]],
         \A m \in Machines :
           /\ rec'[m].todo = rec[m].todo
           /\ rec'[m].st = "off" <=> rec[m].st = "off",
         rec'["local"].st # "parsing" \/ rec'["local"] = rec["local"]
  PROVE  StatsInv'
<1>1. S' = S /\ run \in Runs
  BY SameNames DEF StatsInv, DirsInv, Types
<1>2. Kept
  BY DirsSame DEF StatsInv
<1>3. Todo'
  <2>1. ASSUME NEW m \in Machines PROVE TodoOf(m, rec'[m])
    <3>1. TodoOf(m, rec[m])
      BY DEF StatsInv, DirsInv, Todo
    <3>2. rec'[m].todo = rec[m].todo /\ (rec'[m].st = "off" <=> rec[m].st = "off")
      OBVIOUS
    <3> QED BY <3>1, <3>2 DEF TodoOf
  <2> QED BY <2>1, TodoPut
<1>4. FreshWhenMeasured'
  BY <1>1 DEF StatsInv, FreshInv, FreshWhenMeasured, Measured, Recorded, Fresh
<1>5. FreshWhileRecording'
  <2>1. rec'["local"].todo = rec["local"].todo /\ (rec["local"].st # "parsing" => rec'["local"].st # "parsing")
    BY DEF Machines
  <2>2. FreshWhileRecording
    BY DEF StatsInv, FreshInv
  <2> QED BY <1>1, <2>1, <2>2 DEF FreshWhileRecording, Recorded, Fresh
<1> QED BY <1>1, <1>2, <1>3, <1>4, <1>5, RemoteSame, Together DEF FreshInv

\* One recorder's stage is set.
LEMMA StagePut ==
  ASSUME rec \in [Machines -> [st : Stages, todo : Seq(Metric)]],
         NEW m \in Machines, NEW s \in Stages,
         rec' = [rec EXCEPT ![m] = [@ EXCEPT !.st = s]]
  PROVE  /\ rec' \in [Machines -> [st : Stages, todo : Seq(Metric)]]
         /\ \A k \in Machines : rec'[k].todo = rec[k].todo
         /\ rec'[m].st = s
         /\ \A k \in Machines \ {m} : rec'[k] = rec[k]
<1> DEFINE Q == Seq(Metric)
           r == [rec[m] EXCEPT !.st = s]
<1>1. rec[m] \in [st : Stages, todo : Q] /\ rec \in [Machines -> [st : Stages, todo : Q]]
  OBVIOUS
<1> HIDE DEF Q
<1>2. r \in [st : Stages, todo : Q] /\ r.todo = rec[m].todo /\ r.st = s
  BY <1>1
<1>3. rec' = [rec EXCEPT ![m] = r]
  OBVIOUS
<1> HIDE DEF r
<1>4. /\ rec' \in [Machines -> [st : Stages, todo : Q]]
      /\ rec'[m] = r
      /\ \A k \in Machines \ {m} : rec'[k] = rec[k]
  BY <1>1, <1>2, <1>3
<1> QED BY <1>2, <1>4 DEF Q

LEMMA BeginStallInv ==
  ASSUME StatsInv, NEW m \in Machines, Begin(m) \/ Stall(m)
  PROVE  StatsInv'
<1>1. /\ UNCHANGED <<script, run, pc, dirs, remote, samples>>
      /\ rec[m].st \in {"due", "stalled"}
  BY DEF Begin, Stall
<1>2. rec \in [Machines -> [st : Stages, todo : Seq(Metric)]]
  BY DEF StatsInv, DirsInv, Types
<1>3. PICK s \in {"measuring", "stalled"} : rec' = [rec EXCEPT ![m] = [@ EXCEPT !.st = s]]
  BY DEF Begin, Stall
<1>4. /\ rec' \in [Machines -> [st : Stages, todo : Seq(Metric)]]
      /\ \A k \in Machines : rec'[k].todo = rec[k].todo
      /\ rec'[m].st = s
      /\ \A k \in Machines \ {m} : rec'[k] = rec[k]
  <2>1. s \in Stages
    BY DEF Stages
  <2> QED BY <1>2, <1>3, <2>1, StagePut
<1>5. rec'["local"].st # "parsing" \/ rec'["local"] = rec["local"]
  BY <1>4 DEF Machines
<1>6. \A k \in Machines : rec'[k].st = "off" <=> rec[k].st = "off"
  BY <1>1, <1>4
<1> QED BY <1>1, <1>4, <1>5, <1>6, StagesMove

\* A recorder that measures is done with it, and no other moves.
LEMMA TickRec ==
  ASSUME StatsInv, Tick, NEW m \in Machines
  PROVE  /\ rec'[m] \in [st : Stages, todo : Seq(Metric)]
         /\ rec'[m].todo = rec[m].todo
         /\ rec'[m].st = "off" <=> rec[m].st = "off"
         /\ rec'[m].st # "parsing" \/ rec'[m] = rec[m]
<1> DEFINE Q == Seq(Metric)
<1>1. rec[m] \in [st : Stages, todo : Q]
  BY DEF StatsInv, DirsInv, Types
<1> HIDE DEF Q
<1>2. CASE rec[m].st = "measuring"
  <2>1. rec'[m] = [rec[m] EXCEPT !.st = "measured"]
    BY <1>2 DEF Tick
  <2>2. rec'[m] \in [st : Stages, todo : Q] /\ rec'[m].todo = rec[m].todo /\ rec'[m].st = "measured"
    BY <1>1, <2>1 DEF Stages
  <2> QED BY <1>2, <2>2 DEF Q
<1>3. CASE rec[m].st # "measuring"
  <2>1. rec'[m] = rec[m]
    BY <1>3 DEF Tick
  <2> QED BY <1>1, <2>1 DEF Q
<1> QED BY <1>2, <1>3

LEMMA TickInv ==
  ASSUME StatsInv, Tick
  PROVE  StatsInv'
<1>1. /\ UNCHANGED <<script, run, pc, dirs, remote, samples>>
      /\ rec' = [m \in Machines |-> IF rec[m].st = "measuring" THEN [rec[m] EXCEPT !.st = "measured"]
                                    ELSE rec[m]]
  BY DEF Tick
<1>2. rec \in [Machines -> [st : Stages, todo : Seq(Metric)]]
  BY DEF StatsInv, DirsInv, Types
<1>3. \A m \in Machines :
        /\ rec'[m] \in [st : Stages, todo : Seq(Metric)]
        /\ rec'[m].todo = rec[m].todo
        /\ rec'[m].st = "off" <=> rec[m].st = "off"
        /\ rec'[m].st # "parsing" \/ rec'[m] = rec[m]
  BY TickRec
<1>4. rec' \in [Machines -> [st : Stages, todo : Seq(Metric)]]
  <2> DEFINE R == [st : Stages, todo : Seq(Metric)]
  <2>1. \A m \in Machines : rec'[m] \in R
    BY <1>3
  <2> HIDE DEF R
  <2>2. rec' = [m \in Machines |-> rec'[m]]
    BY <1>1
  <2>3. rec' \in [Machines -> R]
    BY <2>1, <2>2
  <2> QED BY <2>3 DEF R
<1>5. rec'["local"].st # "parsing" \/ rec'["local"] = rec["local"]
  BY <1>3 DEF Machines
<1> QED BY <1>1, <1>3, <1>4, <1>5, StagesMove

-----------------------------------------------------------------------------
LEMMA HeadFacts ==
  ASSUME StatsInv, NEW m \in Machines, rec[m].st # "off"
  PROVE  LET l == rec[m].todo
         IN /\ l \in Seq(Metric) /\ Len(l) \in Nat \ {0}
            /\ Head(l) = l[1] /\ Head(l) \in Metric /\ Recorded(S, m, Head(l))
            /\ Tail(l) \in Seq(Metric) /\ Len(Tail(l)) = Len(l) - 1
            /\ \A i \in 1 .. Len(l) - 1 : Tail(l)[i] = l[i + 1]
<1> DEFINE l == rec[m].todo
<1>1. l \in Seq(Metric) /\ l # <<>> /\ \A i \in 1 .. Len(l) : Recorded(S, m, l[i])
  <2> DEFINE Q == Seq(Metric)
  <2>1. rec[m] \in [st : Stages, todo : Q]
    BY DEF StatsInv, DirsInv, Types
  <2> HIDE DEF Q
  <2>2. l \in Q
    BY <2>1
  <2> QED BY <2>2 DEF Q, StatsInv, DirsInv, Todo, TodoOf
<1> HIDE DEF l
<1>2. Len(l) \in Nat \ {0}
  BY <1>1, EmptySeq, LenProperties
<1>3. Head(l) = l[1] /\ Head(l) \in Metric
  BY <1>1, HeadTailProperties
<1>4. /\ Tail(l) \in Seq(Metric) /\ Len(Tail(l)) = Len(l) - 1
      /\ \A i \in 1 .. Len(l) - 1 : Tail(l)[i] = l[i + 1]
  BY <1>1, <1>2, HeadTailProperties
<1> QED BY <1>1, <1>2, <1>3, <1>4 DEF l

\* A recorder writes a report of its machine's.
LEMMA WriteOK ==
  ASSUME StatsInv, UNCHANGED script, NEW m \in Machines, NEW x \in Metric, Recorded(S, m, x),
         NEW v \in Vals, Write(m, x, File(v, m, "new"))
  PROVE  /\ Kept
         /\ remote' \in [Remotes -> [Metric -> Files]] /\ FromRemote'
         /\ m = "local" => Fresh(dirs'[run][x])
<1> DEFINE f == File(v, m, "new")
<1>1. f \in Files /\ f.by = m /\ f.age = "new"
  BY FileType DEF Ages
<1>2. Fresh(f) /\ run \in Runs
  BY <1>1 DEF Fresh, StatsInv, DirsInv, Types
<1>3. CASE m = "local"
  <2>1. dirs' = [dirs EXCEPT ![run][x] = f] /\ UNCHANGED remote
    BY <1>3 DEF Write
  <2> HIDE DEF f
  <2>2. OriginOf(x, f)
    BY <1>1, <1>3 DEF OriginOf, LocalName
  <2>3. x \in Names /\ x # "iperf"
    BY MetricNames DEF Own
  <2>4. Kept /\ dirs'[run][x] = f
    BY <1>1, <1>2, <2>1, <2>2, <2>3, DirPut DEF StatsInv
  <2> QED BY <1>2, <2>1, <2>4, RemoteSame
<1>4. CASE m # "local"
  <2>1. remote' = [remote EXCEPT ![m][x] = f] /\ UNCHANGED dirs /\ m \in Remotes
    BY <1>4 DEF Write, Machines, Remotes
  <2>2. Kept
    BY <2>1, DirsSame DEF StatsInv
  <2> DEFINE d == [remote[m] EXCEPT ![x] = f]
  <2>3. d \in [Metric -> Files] /\ \A y \in Metric : d[y] = IF y = x THEN f ELSE remote[m][y]
    BY <1>1, <2>1 DEF StatsInv, DirsInv, Types
  <2>4. remote' = [remote EXCEPT ![m] = d]
    BY <2>1
  <2> HIDE DEF d, f
  <2>5. /\ remote' \in [Remotes -> [Metric -> Files]]
        /\ \A k \in Remotes : remote'[k] = IF k = m THEN d ELSE remote[k]
    BY <2>1, <2>3, <2>4 DEF StatsInv, DirsInv, Types
  <2>6. FromRemote'
    BY <1>1, <2>3, <2>5 DEF StatsInv, DirsInv, FromRemote
  <2> QED BY <1>4, <2>2, <2>5, <2>6
<1> QED BY <1>3, <1>4

LEMMA OpenInv ==
  ASSUME StatsInv, NEW m \in Machines, Open(m)
  PROVE  StatsInv'
<1> DEFINE x == Head(rec[m].todo)
<1>1. /\ UNCHANGED <<script, run, pc, samples>>
      /\ rec[m].st = "measured"
      /\ rec' = [rec EXCEPT ![m] = [@ EXCEPT !.st = "parsing"]]
      /\ Write(m, x, File("empty", m, "new"))
      /\ run \in Runs
  BY DEF Open, StatsInv, DirsInv, Types
<1>2. x \in Metric /\ Recorded(S, m, x) /\ x = rec[m].todo[1]
  BY <1>1, HeadFacts
<1>3. /\ Kept
      /\ remote' \in [Remotes -> [Metric -> Files]] /\ FromRemote'
      /\ m = "local" => Fresh(dirs'[run][x])
  <2> HIDE DEF x
  <2> QED BY <1>1, <1>2, WriteOK DEF Vals
<1>4. /\ rec' \in [Machines -> [st : Stages, todo : Seq(Metric)]]
      /\ rec'[m].todo = rec[m].todo /\ rec'[m].st = "parsing"
      /\ \A k \in Machines \ {m} : rec'[k] = rec[k]
  <2>1. rec \in [Machines -> [st : Stages, todo : Seq(Metric)]]
    BY DEF StatsInv, DirsInv, Types
  <2>2. "parsing" \in Stages
    BY DEF Stages
  <2> QED BY <1>1, <2>1, <2>2, StagePut
<1>5. Todo'
  <2>1. TodoOf(m, rec'[m])
    BY <1>1, <1>4 DEF StatsInv, DirsInv, Todo, TodoOf
  <2> QED BY <1>1, <1>4, <2>1, TodoPut
<1>6. FreshInv'
  <2>1. CASE m # "local"
    BY <1>1, <1>3, <1>4, <2>1, FreshQuiet DEF Measured, Machines
  <2>2. CASE m = "local"
    <3>1. S' = S
      BY <1>1, SameNames
    <3>2. FreshWhenMeasured'
      BY <1>1, <1>3, <3>1 DEF StatsInv, FreshInv, FreshWhenMeasured, Measured, Kept, Recorded, Fresh
    <3>3. ASSUME pc = "record", NEW n \in Metric, Recorded(S, "local", n)
          PROVE  \/ Fresh(dirs'[run][n])
                 \/ \E i \in 1 .. Len(rec'["local"].todo) :
                      rec'["local"].todo[i] = n /\ i > 1
      <4>1. CASE Fresh(dirs[run][n])
        BY <1>1, <1>3, <4>1 DEF Kept
      <4>2. CASE \E i \in 1 .. Len(rec["local"].todo) : rec["local"].todo[i] = n
        <5>1. PICK i \in 1 .. Len(rec["local"].todo) : rec["local"].todo[i] = n
          BY <4>2
        <5>2. i = 1 => n = x
          BY <1>2, <2>2, <5>1
        <5>3. i # 1 => i > 1
          <6>1. Len(rec["local"].todo) \in Nat
            BY <1>1, <2>2, HeadFacts
          <6> QED BY <5>1, <6>1
        <5> QED BY <1>3, <1>4, <2>2, <5>1, <5>2, <5>3
      <4> QED BY <3>3, <4>1, <4>2 DEF StatsInv, FreshInv, FreshWhileRecording
    <3>4. FreshWhileRecording'
      BY <1>1, <3>1, <3>3 DEF FreshWhileRecording, Recorded, Fresh
    <3> QED BY <3>2, <3>4 DEF FreshInv
  <2> QED BY <2>1, <2>2
<1> QED BY <1>1, <1>3, <1>4, <1>5, <1>6, Together

LEMMA OutcomeVals ==
  ASSUME NEW x \in Metric
  PROVE  Outcomes(x) \subseteq Vals
<1>1. /\ \A log : CpuReport(log) \in Vals
      /\ \A log : RetxReport(log) \in Vals
      /\ \A rows : PcieReport(rows) \in Vals
  BY DEF CpuReport, RetxReport, PcieReport, Vals
<1>2. CASE x = "cpu"
  BY <1>1, <1>2 DEF Outcomes
<1>3. CASE x = "retx"
  BY <1>1, <1>3 DEF Outcomes
<1>4. CASE x = "pcie"
  BY <1>1, <1>4 DEF Outcomes
<1> QED BY <1>2, <1>3, <1>4 DEF Metric

\* The recorder goes on to the rest of its list.
LEMMA ParseRec ==
  ASSUME StatsInv, NEW m \in Machines, Parse(m)
  PROVE  LET l == rec[m].todo
         IN /\ rec' \in [Machines -> [st : Stages, todo : Seq(Metric)]]
            /\ rec'[m] = IF Len(l) = 1 THEN Idle
                         ELSE [st |-> "measuring", todo |-> Tail(l)]
            /\ \A k \in Machines \ {m} : rec'[k] = rec[k]
<1> DEFINE l == rec[m].todo
           Q == Seq(Metric)
           t == Tail(l)
           r == IF Len(l) = 1 THEN Idle ELSE [st |-> "measuring", todo |-> t]
<1>0. rec[m].st = "parsing"
  BY DEF Parse
<1>1. /\ rec[m] \in [st : Stages, todo : Q] /\ rec \in [Machines -> [st : Stages, todo : Q]]
      /\ t \in Q /\ Idle \in [st : Stages, todo : Q]
  BY <1>0, HeadFacts, Idles DEF StatsInv, DirsInv, Types
<1> HIDE DEF Q
<1>2. rec' = [rec EXCEPT ![m] = r]
  BY DEF Parse
<1>3. r \in [st : Stages, todo : Q]
  <2> HIDE DEF t
  <2> QED BY <1>1 DEF Stages
<1>4. r = IF Len(l) = 1 THEN Idle ELSE [st |-> "measuring", todo |-> Tail(l)]
  OBVIOUS
<1> HIDE DEF r, t, l
<1>5. /\ rec' \in [Machines -> [st : Stages, todo : Q]]
      /\ rec'[m] = r
      /\ \A k \in Machines \ {m} : rec'[k] = rec[k]
  BY <1>1, <1>2, <1>3
<1> QED BY <1>4, <1>5 DEF Q, l

LEMMA ParseInv ==
  ASSUME StatsInv, NEW m \in Machines, Parse(m)
  PROVE  StatsInv'
<1> DEFINE l == rec[m].todo
           x == Head(l)
<1>1. /\ UNCHANGED <<script, run, pc, samples>>
      /\ rec[m].st = "parsing"
      /\ rec' = [rec EXCEPT ![m] = IF Len(@.todo) = 1 THEN Idle
                                   ELSE [st |-> "measuring", todo |-> Tail(@.todo)]]
      /\ run \in Runs
  BY DEF Parse, StatsInv, DirsInv, Types
<1>2. /\ l \in Seq(Metric) /\ Len(l) \in Nat \ {0}
      /\ x = l[1] /\ x \in Metric /\ Recorded(S, m, x)
      /\ Tail(l) \in Seq(Metric) /\ Len(Tail(l)) = Len(l) - 1
      /\ \A i \in 1 .. Len(l) - 1 : Tail(l)[i] = l[i + 1]
  BY <1>1, HeadFacts
<1>3. /\ Kept
      /\ remote' \in [Remotes -> [Metric -> Files]] /\ FromRemote'
  <2>1. PICK v \in Outcomes(x) :
          IF v = "empty" THEN UNCHANGED <<dirs, remote>> ELSE Write(m, x, File(v, m, "new"))
    BY DEF Parse
  <2>2. v \in Vals
    BY <1>2, <2>1, OutcomeVals
  <2>3. CASE UNCHANGED <<dirs, remote>>
    BY <1>1, <2>3, DirsSame, RemoteSame DEF StatsInv
  <2>4. CASE Write(m, x, File(v, m, "new"))
    <3> HIDE DEF x
    <3> QED BY <1>1, <1>2, <2>2, <2>4, WriteOK
  <2> QED BY <2>1, <2>3, <2>4
<1>4. /\ rec' \in [Machines -> [st : Stages, todo : Seq(Metric)]]
      /\ rec'[m] = IF Len(l) = 1 THEN Idle
                   ELSE [st |-> "measuring", todo |-> Tail(l)]
      /\ \A k \in Machines \ {m} : rec'[k] = rec[k]
  BY ParseRec
<1>5. Todo'
  <2>1. TodoOf(m, rec'[m])
    <3>1. CASE Len(l) = 1
      BY <1>4, <3>1, Idles
    <3>2. CASE Len(l) # 1
      <4> DEFINE t == Tail(l)
      <4>1. rec'[m].st = "measuring" /\ rec'[m].todo = t
        BY <1>4, <3>2
      <4>2. Len(t) = Len(l) - 1 /\ t # <<>>
        <5>1. Len(t) = Len(l) - 1 /\ Len(l) - 1 > 0
          <6> HIDE DEF l
          <6> QED BY <1>2, <3>2
        <5> HIDE DEF t
        <5> QED BY <5>1
      <4>3. \A i \in 1 .. Len(t) : t[i] = l[i + 1] /\ Recorded(S, m, t[i])
        <5>1. \A i \in 1 .. Len(l) : Recorded(S, m, l[i])
          BY DEF StatsInv, DirsInv, Todo, TodoOf
        <5>2. ASSUME NEW i \in 1 .. Len(t)
              PROVE  t[i] = l[i + 1] /\ i + 1 \in 1 .. Len(l)
          <6> HIDE DEF l
          <6> QED BY <1>2, <4>2
        <5> HIDE DEF t, l
        <5> QED BY <5>1, <5>2
      <4> HIDE DEF t
      <4> QED BY <4>1, <4>2, <4>3 DEF TodoOf
    <3> QED BY <3>1, <3>2
  <2> QED BY <1>1, <1>4, <2>1, TodoPut
<1>6. FreshInv'
  <2>1. CASE m # "local"
    BY <1>1, <1>3, <1>4, <2>1, FreshQuiet DEF Measured, Machines
  <2>2. CASE m = "local"
    <3>1. S' = S
      BY <1>1, SameNames
    <3>2. FreshWhenMeasured'
      BY <1>1, <1>3, <3>1 DEF StatsInv, FreshInv, FreshWhenMeasured, Measured, Kept, Recorded, Fresh
    <3>3. ASSUME pc = "record", NEW n \in Metric, Recorded(S, "local", n)
          PROVE  \/ Fresh(dirs'[run][n])
                 \/ \E i \in 1 .. Len(rec'["local"].todo) :
                      rec'["local"].todo[i] = n /\ rec'["local"].st # "parsing"
      <4>1. CASE Fresh(dirs[run][n])
        BY <1>1, <1>3, <4>1 DEF Kept
      <4>2. CASE \E i \in 1 .. Len(l) : l[i] = n /\ i > 1
        <5>1. PICK i \in 1 .. Len(l) : l[i] = n /\ i > 1
          BY <4>2
        <5>2. Len(l) # 1 /\ i - 1 \in 1 .. Len(l) - 1
          <6> HIDE DEF l
          <6> QED BY <1>2, <5>1
        <5>3. Tail(l)[i - 1] = n
          <6> HIDE DEF l
          <6> QED BY <1>2, <5>1, <5>2
        <5>4. rec'["local"].st = "measuring" /\ rec'["local"].todo = Tail(l)
          <6> DEFINE t == Tail(l)
          <6> HIDE DEF t, l
          <6>1. rec'[m] = [st |-> "measuring", todo |-> t]
            BY <1>4, <5>2 DEF t
          <6> QED BY <2>2, <6>1 DEF t
        <5> HIDE DEF l
        <5> QED BY <1>2, <5>2, <5>3, <5>4
      <4> QED BY <1>1, <2>2, <3>3, <4>1, <4>2 DEF StatsInv, FreshInv, FreshWhileRecording
    <3>4. FreshWhileRecording'
      BY <1>1, <3>1, <3>3 DEF FreshWhileRecording, Recorded, Fresh
    <3> QED BY <3>2, <3>4 DEF FreshInv
  <2> QED BY <2>1, <2>2
<1> QED BY <1>1, <1>3, <1>4, <1>5, <1>6, Together

-----------------------------------------------------------------------------
(* The script's own recorder has returned: all it records is there. *)
LEMMA InterruptInv ==
  ASSUME StatsInv, Interrupt
  PROVE  StatsInv'
<1>1. /\ UNCHANGED <<script, run, dirs, remote, rec, samples>>
      /\ pc = "record" /\ pc' = "copy" /\ rec["local"].st = "off"
      /\ run \in Runs
  BY DEF Interrupt, StatsInv, DirsInv, Types
<1>2. S' = S
  BY <1>1, SameNames
<1>3. Kept
  BY <1>1, DirsSame DEF StatsInv
<1>4. \A n \in Metric : Recorded(S, "local", n) => Fresh(dirs[run][n])
  <2>1. rec["local"].todo = <<>>
    BY <1>1 DEF StatsInv, DirsInv, Todo, TodoOf, Machines
  <2>2. Len(rec["local"].todo) = 0
    BY <2>1
  <2> QED BY <1>1, <2>2 DEF StatsInv, FreshInv, FreshWhileRecording
<1>5. FreshWhenMeasured'
  BY <1>1, <1>2, <1>4 DEF StatsInv, FreshInv, FreshWhenMeasured, Measured, Recorded, Fresh
<1>6. FreshWhileRecording'
  BY <1>1 DEF FreshWhileRecording
<1> QED BY <1>1, <1>3, <1>5, <1>6, TodoSame, RemoteSame, Together DEF FreshInv

LEMMA OldReports ==
  ASSUME NEW w \in BOOLEAN, NEW m \in Machines
  PROVE  /\ OldReport(w, m) \in Files
         /\ OldReport(w, m) = NoFile \/ (w /\ OldReport(w, m).by = m)
<1>1. File("good", m, "old") \in Files /\ File("good", m, "old").by = m
  BY FileType DEF Vals, Ages
<1>2. NoFile \in Files
  BY DEF Files
<1> QED BY <1>1, <1>2 DEF OldReport

LEMMA OldRemotes ==
  /\ OldRemote \in [Remotes -> [Metric -> Files]]
  /\ \A m \in Remotes, x \in Metric : OldRemote[m][x] = NoFile \/ OldRemote[m][x].by = m
<1>1. ASSUME NEW m \in Remotes, NEW x \in Metric
      PROVE  /\ OldReport(Recorded(S, m, x), m) \in Files
             /\ \/ OldReport(Recorded(S, m, x), m) = NoFile
                \/ OldReport(Recorded(S, m, x), m).by = m
  <2>1. Recorded(S, m, x) \in BOOLEAN /\ m \in Machines
    BY DEF Recorded, Remotes, Machines
  <2> QED BY <2>1, OldReports
<1>2. OldRemote = [m \in Remotes |-> [x \in Metric |-> OldReport(Recorded(S, m, x), m)]]
  BY DEF OldRemote, Remotes
<1> QED BY <1>1, <1>2

LEMMA EndRunInv ==
  ASSUME StatsInv, EndRun
  PROVE  StatsInv'
<1>1. /\ UNCHANGED <<script, dirs, samples>>
      /\ script \in Scripts /\ run \in Runs /\ pc = "endrun"
      /\ \/ run < NumRuns - 1 /\ run' = run + 1 /\ pc' = "cleanup" /\ remote' = OldRemote
         \/ run = NumRuns - 1 /\ run' = run /\ pc' = "collect" /\ remote' = remote
  BY NumRunsAssumption DEF EndRun, StatsInv, DirsInv, Types, Runs
<1>2. rec' = rec \/ rec' = [rec EXCEPT !["client"] = Idle, !["host"] = Idle]
  BY DEF EndRun, QuitScreens
<1>3. S' = S /\ Kept
  BY <1>1, SameNames, DirsSame DEF StatsInv
<1>4. rec' \in [Machines -> [st : Stages, todo : Seq(Metric)]] /\ Todo'
  <2>1. rec \in [Machines -> [st : Stages, todo : Seq(Metric)]]
    BY DEF StatsInv, DirsInv, Types
  <2>2. \A m \in Machines : rec'[m] = rec[m] \/ rec'[m] = Idle
    BY <1>2, <2>1 DEF Machines
  <2>3. rec' \in [Machines -> [st : Stages, todo : Seq(Metric)]]
    BY <1>2, <2>1, Idles
  <2> QED BY <1>1, <2>2, <2>3, Idles, TodoPut
<1>5. remote' \in [Remotes -> [Metric -> Files]] /\ FromRemote'
  BY <1>1, OldRemotes, RemoteSame DEF FromRemote
<1>7. run' \in Runs
  BY <1>1, NumRunsAssumption DEF Runs
<1>8. \A r \in Runs : Measured(r)' => Measured(r)
  BY <1>1, NumRunsAssumption DEF Runs, Measured
<1>9. FreshWhenMeasured'
  BY <1>1, <1>3, <1>8 DEF StatsInv, FreshInv, FreshWhenMeasured, Recorded, Fresh
<1>10. FreshWhileRecording'
  BY <1>1 DEF FreshWhileRecording
<1> QED BY <1>1, <1>3, <1>4, <1>5, <1>7, <1>9, <1>10, Together DEF FreshInv

LEMMA CollectInv ==
  ASSUME StatsInv, Collect
  PROVE  StatsInv'
<1>1. /\ UNCHANGED <<script, run, dirs, remote, rec>>
      /\ script \in Scripts /\ run \in Runs /\ pc = "collect" /\ pc' = "report"
      /\ dirs \in [Runs -> [Names -> Files]]
  BY DEF Collect, StatsInv, DirsInv, Types
<1>2. CASE UNCHANGED samples
  BY <1>1, <1>2, Elsewhere DEF Measured
<1>3. CASE /\ ~CollectFails(dirs, S.sources)
           /\ samples' = Collected(dirs, S.sources)
  <2>1. S' = S /\ Kept
    BY <1>1, SameNames, DirsSame DEF StatsInv
  <2>2. FreshInv'
    BY <1>1, <2>1, FreshQuiet DEF Measured
  <2>3. DirsInv'
    <3>1. Types'
      BY <1>1, TodoSame, RemoteSame DEF StatsInv, DirsInv, Types
    <3> QED BY <1>1, <2>1, <3>1, TodoSame, RemoteSame DEF Kept, DirsInv
  <2>4. ASSUME NEW s \in samples'
        PROVE  \E k \in Kinds, r \in Runs :
                 /\ s.kind = k /\ s.file = dirs[r][S.sources[k]]
                 /\ Adds(k, s.file) \/ CountsAsZero(k, s.file)
    <3>1. PICK k \in Kinds, r \in DOMAIN dirs : s = Sample(k, r, dirs[r][S.sources[k]])
      BY <1>3 DEF Collected
    <3>2. s.kind = k /\ s.file = dirs[r][S.sources[k]]
      BY <3>1 DEF Sample
    <3>3. Adds(s.kind, s.file) \/ CountsAsZero(s.kind, s.file)
      BY <1>3 DEF Collected
    <3> QED BY <1>1, <3>2, <3>3
  <2>5. RetxFromSender'
    <3> SUFFICES ASSUME NEW s \in samples', s.kind = "retx"
                 PROVE  s.file.by = S.sender
      BY <2>1 DEF RetxFromSender, Of
    <3>1. PICK r \in Runs : /\ s.file = dirs[r][S.sources["retx"]]
                            /\ Adds("retx", s.file) \/ CountsAsZero("retx", s.file)
      BY <2>4
    <3>2. S.sources["retx"] \in Names /\ s.file \in Files
      BY <1>1, <3>1, SourceNames DEF Kinds
    <3>3. s.file # NoFile
      BY <3>1 DEF Adds, CountsAsZero, NoFile
    <3>4. S.period
      <4>1. dirs[r][S.sources["iperf"]] # NoFile
        BY <1>1, <1>3 DEF CollectFails, Aborts, Kinds
      <4> QED BY <1>1, <4>1, SourceNames DEF StatsInv, DirsInv, NoTput
    <3>5. OriginOf(S.sources.retx, s.file)
      BY <3>1, <3>2 DEF StatsInv, DirsInv, Origins
    <3> QED BY <1>1, <3>2, <3>3, <3>4, <3>5, RetxNames
  <2>6. LocalNeverStale'
    <3> SUFFICES ASSUME NEW s \in samples', s.kind \in Metric, s.file.by = "local"
                 PROVE  s.file.age # "old"
      BY DEF LocalNeverStale
    <3>1. PICK k \in Kinds, r \in Runs : s.kind = k /\ s.file = dirs[r][S.sources[k]]
      BY <2>4
    <3> DEFINE n == S.sources[k]
    <3>2. n \in Names /\ n \notin Own
      BY <1>1, <3>1, SourceNames
    <3> HIDE DEF n
    <3>3. s.file = dirs[r][n]
      BY <3>1 DEF n
    <3>4. OriginOf(n, s.file)
      BY <3>2, <3>3 DEF StatsInv, DirsInv, Origins
    <3>5. CASE s.file = NoFile
      BY <3>5 DEF NoFile
    <3>6. CASE n \in Metric /\ Recorded(S, "local", n)
      BY <1>1, <3>3, <3>6 DEF StatsInv, FreshInv, FreshWhenMeasured, Measured, Fresh
    <3> QED BY <3>2, <3>4, <3>5, <3>6 DEF OriginOf, LocalName, Remotes
  <2> QED BY <2>2, <2>3, <2>5, <2>6 DEF StatsInv
<1> QED BY <1>2, <1>3 DEF Collect

-----------------------------------------------------------------------------
LEMMA OldDirs ==
  ASSUME script \in Scripts, NEW n \in Names
  PROVE  /\ OldDir[n] \in Files
         /\ OriginOf(n, OldDir[n])
         /\ n = "iperf" /\ ~S.period => OldDir[n] = NoFile
<1>1. CASE CopiedFrom(S, n) # {}
  <2> DEFINE m == CHOOSE k \in CopiedFrom(S, n) : TRUE
  <2>1. m \in CopiedFrom(S, n)
    BY <1>1
  <2> HIDE DEF m
  <2>2. PICK i \in DOMAIN S.copies : S.copies[i].to = n /\ S.copies[i].from = m
    BY <2>1 DEF CopiedFrom
  <2>3. m \in Remotes /\ m \in Machines /\ n # "iperf" /\ CopiedName(n, m)
    BY <2>2, Copies DEF Remotes, Machines, CopiedName
  <2>4. OldDir[n] = OldReport(TRUE, m)
    BY <1>1 DEF OldDir, m
  <2> QED BY <2>3, <2>4, OldReports DEF OriginOf
<1>2. CASE CopiedFrom(S, n) = {}
  <2> DEFINE w == \/ n \in Metric /\ Recorded(S, "local", n)
                  \/ n = "iperf" /\ S.period
                  \/ n = "mem" /\ S.mem
                  \/ n = "ebpf"
  <2>1. OldDir[n] = OldReport(w, "local")
    BY <1>2 DEF OldDir
  <2>2. w => LocalName(n)
    BY DEF LocalName, Own
  <2>3. n = "iperf" /\ ~S.period => ~w
    BY DEF Metric
  <2>4. w \in BOOLEAN /\ "local" \in Machines
    BY DEF Machines
  <2> HIDE DEF w
  <2>5. OldReport(w, "local") = NoFile \/ (w /\ OldReport(w, "local").by = "local")
    BY <2>4, OldReports
  <2> QED BY <2>1, <2>2, <2>3, <2>4, <2>5, OldReports DEF OriginOf
<1> QED BY <1>1, <1>2

LEMMA InitStats == Init => StatsInv /\ Copying
<1> SUFFICES ASSUME Init PROVE StatsInv /\ Copying
  OBVIOUS
<1>1. script \in Scripts /\ 0 \in Runs /\ "iperf" \in Names
  BY NumRunsAssumption DEF Init, Runs, Names
<1>2. /\ dirs \in [Runs -> [Names -> Files]]
      /\ \A r \in Runs : dirs[r] = OldDir
  <2>1. OldDir = [n \in Names |-> OldDir[n]]
    BY DEF OldDir
  <2>2. OldDir \in [Names -> Files]
    BY <1>1, <2>1, OldDirs
  <2> QED BY <2>2 DEF Init
<1>3. /\ rec \in [Machines -> [st : Stages, todo : Seq(Metric)]]
      /\ \A m \in Machines : rec[m] = Idle
  BY Idles DEF Init
<1>4. Types
  BY <1>1, <1>2, <1>3, OldRemotes DEF Init, Types
<1>5. FromRemote
  BY OldRemotes DEF Init, FromRemote
<1>6. Origins /\ NoTput
  BY <1>1, <1>2, OldDirs DEF Origins, NoTput
<1>7. Todo
  BY <1>3, Idles DEF Todo
<1>8. FreshInv
  BY DEF Init, FreshInv, FreshWhenMeasured, FreshWhileRecording, Measured, Runs
<1>9. RetxFromSender /\ LocalNeverStale
  BY DEF Init, RetxFromSender, LocalNeverStale, Of
<1>10. Copying
  BY DEF Init, Copying
<1> QED BY <1>4, <1>5, <1>6, <1>7, <1>8, <1>9, <1>10 DEF StatsInv, DirsInv

LEMMA CopyingNext ==
  ASSUME StatsInv, Copying, [Next]_vars
  PROVE  Copying'
<1>1. script \in Scripts /\ Len(S.copies) \in Nat
  BY CopiesLen DEF StatsInv, DirsInv, Types
<1>2. ASSUME script' = script, left' = left, pc' = "copy" => pc = "copy"
      PROVE  Copying'
  BY <1>2, SameNames DEF Copying
<1>3. CASE \/ Cleanup \/ Start \/ Attached \/ StopTracing \/ Dumped
           \/ Period \/ EndRun \/ Collect \/ Report \/ UNCHANGED vars
  BY <1>2, <1>3 DEF Cleanup, Start, Attached, StopTracing, Dumped, Period, EndRun, Collect,
     Report, vars
<1>4. ASSUME NEW m \in Machines, Begin(m) \/ Stall(m) \/ Open(m) \/ Parse(m)
      PROVE  Copying'
  BY <1>2, <1>4 DEF Begin, Stall, Open, Parse
<1>5. CASE Tick
  BY <1>2, <1>5 DEF Tick, MayWait, Copying
<1>6. CASE Interrupt
  BY <1>1, <1>6, SameNames DEF Interrupt, Copying
<1>7. CASE CopyNext
  BY <1>1, <1>7, SameNames, CopyFrame DEF Copying
<1>8. CASE Settle
  BY <1>1, <1>8, Scripted, Fields DEF Settle, Copying
<1> QED BY <1>3, <1>4, <1>5, <1>6, <1>7, <1>8 DEF Next, Done

LEMMA StatsNext ==
  ASSUME StatsInv, Copying, [Next]_vars
  PROVE  StatsInv'
<1>1. CASE Cleanup
  BY <1>1, CleanupInv
<1>2. CASE Start
  BY <1>2, StartInv
<1>3. ASSUME NEW m \in Machines, Begin(m) \/ Stall(m) \/ Open(m) \/ Parse(m)
      PROVE  StatsInv'
  BY <1>3, BeginStallInv, OpenInv, ParseInv
<1>4. CASE Attached \/ StopTracing \/ Settle \/ Report \/ Done
  BY <1>4, LoaderSteps
<1>5. CASE Dumped
  BY <1>5, DumpedInv
<1>6. CASE Tick
  BY <1>6, TickInv
<1>7. CASE Interrupt
  BY <1>7, InterruptInv
<1>8. CASE CopyNext
  BY <1>8, CopyNextInv
<1>9. CASE Period
  BY <1>9, PeriodInv
<1>10. CASE EndRun
  BY <1>10, EndRunInv
<1>11. CASE Collect
  BY <1>11, CollectInv
<1>12. CASE UNCHANGED vars
  BY <1>12, Elsewhere DEF vars, Measured
<1> QED BY <1>1, <1>2, <1>3, <1>4, <1>5, <1>6, <1>7, <1>8, <1>9, <1>10, <1>11, <1>12 DEF Next

-----------------------------------------------------------------------------
(* The remaining types, and the loader's clock.                              *)
Phases == {"cleanup", "start", "record", "copy", "settle", "endrun", "collect", "report",
           "done"}

Misc ==
  /\ earlier \in BOOLEAN
  /\ pc \in Phases
  /\ left \in 0 .. 3
  /\ dat \in {"none", "old", "new"}
  /\ reported \in {"nothing", "old", "means", "deviations"}
  /\ mishaps \in 0 .. MaxMishaps
  /\ late \in BOOLEAN

(* A loader that is due to attach, or to have written its report, lets no    *)
(* time pass until it has.                                                   *)
LoaderOK ==
  /\ loader \in [st : {"off", "attaching", "tracing", "dumping"}, t : Nat, stop : BOOLEAN]
  /\ loader.st = "off" => loader.t = 0
  /\ loader.st = "attaching" => loader.t <= MaxAttach
  /\ loader.st = "tracing" => loader.t <= 1
  /\ loader.st = "dumping" => loader.t <= MaxDump

LEMMA InitMisc == Init => Misc /\ LoaderOK
<1> SUFFICES ASSUME Init PROVE Misc /\ LoaderOK
  OBVIOUS
<1>1. Misc
  <2>1. dat \in {"none", "old", "new"}
    BY DEF Init
  <2>2. /\ earlier \in BOOLEAN /\ pc = "cleanup" /\ left = 0 /\ reported = "nothing"
        /\ mishaps = 0 /\ late = FALSE
    BY DEF Init
  <2>3. mishaps \in 0 .. MaxMishaps /\ left \in 0 .. 3
    BY <2>2, BoundsAssumption
  <2>4. late \in BOOLEAN /\ reported \in {"nothing", "old", "means", "deviations"}
    BY <2>2, Zenon
  <2>5. pc \in Phases
    BY <2>2 DEF Phases
  <2> QED BY <2>1, <2>2, <2>3, <2>4, <2>5, Zenon DEF Misc
<1>2. loader = [st |-> "off", t |-> 0, stop |-> FALSE]
  BY DEF Init, NoLoader
<1>3. LoaderOK
  BY <1>2 DEF LoaderOK
<1> QED BY <1>1, <1>3

LEMMA FailingType ==
  ASSUME Misc, NEW cond, Failing(cond)
  PROVE  mishaps' \in 0 .. MaxMishaps
BY BoundsAssumption DEF Misc, Failing

LEMMA MiscNext ==
  ASSUME StatsInv, Misc, [Next]_vars
  PROVE  Misc'
<1> USE DEF Misc, Phases
<1>0. script \in Scripts
  BY DEF StatsInv, DirsInv, Types
<1>1. CASE Cleanup \/ Start \/ Collect \/ UNCHANGED vars
  BY <1>1 DEF Cleanup, Start, Collect, vars
<1>2. CASE Attached \/ StopTracing \/ Dumped
  BY <1>2 DEF Attached, StopTracing, Dumped
<1>3. ASSUME NEW m \in Machines, Begin(m) \/ Open(m)
      PROVE  Misc'
  BY <1>3 DEF Begin, Open
<1>4. ASSUME NEW m \in Machines, Stall(m) \/ Parse(m)
      PROVE  Misc'
  <2>1. \E cond : Failing(cond)
    BY <1>4 DEF Stall, Parse
  <2>2. mishaps' \in 0 .. MaxMishaps
    BY <2>1, FailingType
  <2> QED BY <1>4, <2>2 DEF Stall, Parse
<1>5. CASE Tick
  <2>1. left' = IF pc = "settle" THEN left - 1 ELSE left
    BY <1>5 DEF Tick
  <2>2. pc = "settle" => left > 0
    BY <1>5 DEF Tick, MayWait
  <2>3. left' \in 0 .. 3
    BY <2>1, <2>2
  <2>4. UNCHANGED <<earlier, pc, dat, reported, mishaps, late>>
    BY <1>5 DEF Tick
  <2> QED BY <2>3, <2>4
<1>6. CASE Interrupt
  BY <1>0, <1>6, CopiesLen DEF Interrupt
<1>7. CASE CopyNext
  <2>1. mishaps' = mishaps \/ \E cond : Failing(cond)
    BY <1>7, CopyEither
  <2>2. mishaps' \in 0 .. MaxMishaps
    BY <2>1, FailingType
  <2>3. late' \in BOOLEAN
    <3>1. \A m, x : Pending(m, x) \in BOOLEAN
      BY DEF Pending
    <3> QED BY <1>7, <3>1, CopyEither
  <2>4. UNCHANGED <<earlier, pc, dat, reported>> /\ left > 0 /\ left' = left - 1
    BY <1>7, CopyFrame
  <2> QED BY <2>2, <2>3, <2>4
<1>8. CASE Settle
  BY <1>0, <1>8, Scripted, Fields DEF Settle
<1>9. CASE Period
  <2>1. mishaps' = mishaps \/ \E cond : Failing(cond)
    BY <1>9 DEF Period
  <2>2. mishaps' \in 0 .. MaxMishaps
    BY <2>1, FailingType
  <2> QED BY <1>9, <2>2 DEF Period
<1>10. CASE EndRun
  BY <1>10 DEF EndRun
<1>11. CASE Report
  BY <1>11 DEF Report
<1> QED BY <1>1, <1>2, <1>3, <1>4, <1>5, <1>6, <1>7, <1>8, <1>9, <1>10, <1>11
        DEF Next, Done

LEMMA LoaderNext ==
  ASSUME LoaderOK, [Next]_vars
  PROVE  LoaderOK'
<1> USE DEF LoaderOK
<1>1. NoLoader \in [st : {"off"}, t : {0}, stop : BOOLEAN]
  BY DEF NoLoader
<1>2. CASE loader' = loader
  BY <1>2
<1>3. CASE loader' = NoLoader
  BY <1>1, <1>3
<1>4. CASE Start
  <2>1. loader' = [st |-> "attaching", t |-> 0, stop |-> FALSE]
    BY <1>4 DEF Start, NoLoader
  <2> QED BY <2>1, BoundsAssumption
<1>5. CASE Attached \/ StopTracing
  <2>1. PICK s \in {"tracing", "dumping"} : loader' = [loader EXCEPT !.st = s, !.t = 0]
    BY <1>5 DEF Attached, StopTracing
  <2>2. /\ loader' \in [st : {"tracing", "dumping"}, t : {0}, stop : BOOLEAN]
        /\ loader'.t = 0
    BY <2>1
  <2> QED BY <2>2, BoundsAssumption
<1>6. CASE Tick
  <2>1. /\ ~Leaves
        /\ loader.st = "attaching" => loader.t < MaxAttach
        /\ loader.st = "dumping" => loader.t < MaxDump
        /\ \/ loader' = loader
           \/ /\ loader.st # "off" /\ (loader.st = "tracing" => S.timed)
              /\ loader' = [loader EXCEPT !.t = @ + 1]
    BY <1>6 DEF Tick, MayWait
  <2>2. loader.st = "tracing" /\ S.timed => loader.t < 1
    BY <2>1 DEF Leaves
  <2>3. CASE loader' = [loader EXCEPT !.t = @ + 1]
    <3>1. loader' = [st |-> loader.st, t |-> loader.t + 1, stop |-> loader.stop]
      BY <2>3
    <3> QED BY <2>1, <2>2, <3>1, BoundsAssumption
  <2> QED BY <1>2, <2>1, <2>3
<1>7. CASE Interrupt
  <2>1. loader' \in {NoLoader, loader, [loader EXCEPT !.stop = TRUE]}
    BY <1>7 DEF Interrupt
  <2>2. CASE loader' = [loader EXCEPT !.stop = TRUE]
    <3>1. loader' = [st |-> loader.st, t |-> loader.t, stop |-> TRUE]
      BY <2>2
    <3> QED BY <3>1
  <2> QED BY <1>2, <1>3, <2>1, <2>2
<1>8. ASSUME NEW m \in Machines, Begin(m) \/ Stall(m) \/ Open(m) \/ Parse(m)
      PROVE  loader' = loader
  BY <1>8 DEF Begin, Stall, Open, Parse
<1>9. CASE \/ Cleanup \/ Dumped \/ CopyNext \/ Settle \/ Period \/ EndRun \/ Collect
           \/ Report \/ Done \/ UNCHANGED vars
  <2>1. loader' \in {loader, NoLoader}
    BY <1>9, CopyFrame DEF Cleanup, Dumped, Settle, Period, EndRun, Collect, Report, Done,
       KillLoader, vars
  <2> QED BY <1>2, <1>3, <2>1
<1> QED BY <1>2, <1>4, <1>5, <1>6, <1>7, <1>8, <1>9 DEF Next

-----------------------------------------------------------------------------
(* The loader attaches before it is interrupted, and writes its report      *)
(* before it is killed.                                                      *)

(* The units of time the local recorder has measured for in this run. *)
Elapsed == Len(S.records["local"]) - Len(rec["local"].todo)
             + (IF rec["local"].st \in {"measured", "parsing"} THEN 1 ELSE 0)

LoaderInTime ==
  /\ loader.st = "attaching" => pc = "record" /\ loader.t = Elapsed
  /\ loader.st = "tracing" => pc = "record" \/ loader.stop
  /\ loader.st # "off" => pc \in {"record", "copy", "settle"}
  /\ pc = "settle" => /\ loader.st = "tracing" => left = S.settle
                      /\ loader.st = "dumping" => loader.t + left >= S.settle

Traced(r) == dirs[r]["ebpf"] = File("good", "local", "new")
TraceWritten ==
  /\ \A r \in Runs : r < run => Traced(r)
  /\ pc \notin {"cleanup", "start"} =>
       IF loader.st = "off" THEN Traced(run)
       ELSE dirs[run]["ebpf"] = File("empty", "local", "new")

TraceInv == Misc /\ LoaderOK /\ LoaderInTime /\ TraceWritten

LEMMA Waits ==
  ASSUME script \in Scripts
  PROVE  /\ Len(S.records["local"]) \in Nat /\ MaxAttach < Len(S.records["local"])
         /\ S.settle = 2 /\ MaxDump < 2
<1>1. S.settle = 2
  BY Scripted, Fields
<1>2. S.records["local"] \in Seq(Metric)
  BY Records DEF Machines
<1>3. MaxAttach < Len(S.records["local"]) /\ MaxDump < S.settle
  BY WaitsAssumption DEF S
<1> QED BY <1>1, <1>2, <1>3, LenProperties

LEMMA LocalTodo ==
  ASSUME StatsInv
  PROVE  /\ Len(rec["local"].todo) \in Nat
         /\ rec["local"].st = "off" => Len(rec["local"].todo) = 0
<1> DEFINE l == rec["local"].todo
           Q == Seq(Metric)
<1>1. l \in Q
  <2>1. rec["local"] \in [st : Stages, todo : Q]
    BY DEF StatsInv, DirsInv, Types, Machines
  <2> HIDE DEF Q
  <2> QED BY <2>1
<1>2. rec["local"].st = "off" => l = <<>>
  BY DEF StatsInv, DirsInv, Todo, TodoOf, Machines
<1> HIDE DEF l
<1>3. Len(l) \in Nat /\ (l = <<>> => Len(l) = 0)
  BY <1>1, LenProperties, EmptySeq
<1> QED BY <1>2, <1>3 DEF l

\* What a recorder does on its own does not change the time measured.
LEMMA ElapsedKept ==
  ASSUME StatsInv, UNCHANGED script, NEW m \in Machines,
         Begin(m) \/ Stall(m) \/ Open(m) \/ Parse(m)
  PROVE  Elapsed' = Elapsed
<1>1. S' = S /\ rec \in [Machines -> [st : Stages, todo : Seq(Metric)]] /\ "local" \in Machines
  BY SameNames DEF StatsInv, DirsInv, Types, Machines
<1>2. CASE Begin(m) \/ Stall(m) \/ Open(m)
  <2>1. PICK s \in {"measuring", "stalled", "parsing"} :
          /\ rec' = [rec EXCEPT ![m] = [@ EXCEPT !.st = s]]
          /\ s = "parsing" <=> rec[m].st = "measured"
          /\ rec[m].st # "parsing"
    BY <1>2 DEF Begin, Stall, Open
  <2>2. s \in Stages
    BY DEF Stages
  <2>3. /\ \A k \in Machines : rec'[k].todo = rec[k].todo
        /\ rec'[m].st = s
        /\ \A k \in Machines \ {m} : rec'[k] = rec[k]
    BY <1>1, <2>1, <2>2, StagePut
  <2>4. rec'["local"].todo = rec["local"].todo
    BY <1>1, <2>3
  <2>5. rec'["local"].st \in {"measured", "parsing"} <=> rec["local"].st \in {"measured", "parsing"}
    BY <1>1, <2>1, <2>3
  <2> QED BY <1>1, <2>4, <2>5 DEF Elapsed
<1>3. CASE Parse(m)
  <2>1. CASE m # "local"
    <3>1. rec'["local"] = rec["local"]
      BY <1>1, <1>3, <2>1, ParseRec
    <3> QED BY <1>1, <3>1 DEF Elapsed
  <2>2. CASE m = "local"
    <3> DEFINE l == rec["local"].todo
    <3>1. /\ rec["local"].st = "parsing"
          /\ Len(l) \in Nat \ {0} /\ Len(Tail(l)) = Len(l) - 1
      BY <1>3, <2>2, HeadFacts DEF Parse
    <3>2. rec'["local"] = IF Len(l) = 1 THEN Idle ELSE [st |-> "measuring", todo |-> Tail(l)]
      BY <1>3, <2>2, ParseRec
    <3>3. Len(rec'["local"].todo) = Len(l) - 1
      <4>1. Len(Idle.todo) = 0
        BY Idles, EmptySeq
      <4> DEFINE t == Tail(l)
      <4>2. Len(l) = 1 => rec'["local"].todo = Idle.todo
        BY <3>2
      <4>3. Len(l) # 1 => rec'["local"].todo = t
        BY <3>2
      <4>4. Len(t) = Len(l) - 1
        BY <3>1
      <4> HIDE DEF l, t
      <4>5. CASE Len(l) = 1
        BY <4>1, <4>2, <4>5
      <4>6. CASE Len(l) # 1
        BY <4>3, <4>4, <4>6
      <4> QED BY <4>5, <4>6
    <3>4. rec'["local"].st \notin {"measured", "parsing"}
      BY <3>2, Idles
    <3>5. Len(S.records["local"]) \in Nat
      BY Waits DEF StatsInv, DirsInv, Types
    <3> HIDE DEF l
    <3> QED BY <1>1, <3>1, <3>3, <3>4, <3>5 DEF Elapsed, l
  <2> QED BY <2>1, <2>2
<1> QED BY <1>2, <1>3

\* The interrupt that ends a run never meets a loader without its handler.
LEMMA NotInterrupted ==
  ASSUME StatsInv, TraceInv, Interrupt
  PROVE  loader.st # "attaching"
<1> DEFINE a == Len(S.records["local"])
<1>1. /\ a \in Nat /\ MaxAttach < a /\ rec["local"].st = "off"
      /\ Len(rec["local"].todo) = 0
  BY Waits, LocalTodo DEF StatsInv, DirsInv, Types, Interrupt
<1>2. loader.st = "attaching" => loader.t = Elapsed /\ loader.t <= MaxAttach
  BY DEF TraceInv, LoaderInTime, LoaderOK
<1> HIDE DEF a
<1>3. Elapsed = a - 0 + 0
  BY <1>1 DEF Elapsed, a
<1> QED BY <1>1, <1>2, <1>3, BoundsAssumption

LEMMA LoaderInTimeNext ==
  ASSUME StatsInv, Copying, TraceInv, [Next]_vars
  PROVE  LoaderInTime'
<1>0. /\ script \in Scripts /\ left \in 0 .. 3 /\ loader.t \in Nat
      /\ LoaderOK /\ LoaderInTime
      /\ S.settle = 2 /\ MaxDump < 2
      /\ Len(S.records["local"]) \in Nat /\ Len(rec["local"].todo) \in Nat
  BY Waits, LocalTodo DEF StatsInv, DirsInv, Types, TraceInv, Misc, LoaderOK
<1>1. ASSUME script' = script PROVE S' = S
  BY <1>1, SameNames
<1>2. ASSUME loader' = NoLoader PROVE LoaderInTime'
  BY <1>2 DEF LoaderInTime, NoLoader
<1>3. CASE Cleanup \/ EndRun
  <2>1. CASE loader' = NoLoader
    BY <1>2, <2>1
  <2>2. CASE EndRun /\ loader' = loader
    <3>1. loader.st = "off"
      BY <1>0, <2>2 DEF EndRun, LoaderInTime
    <3> QED BY <2>2, <3>1 DEF LoaderInTime
  <2> QED BY <1>3, <2>1, <2>2 DEF Cleanup, EndRun, KillLoader
<1>4. CASE Start
  <2>1. loader' = [st |-> "attaching", t |-> 0, stop |-> FALSE] /\ pc' = "record"
    BY <1>4 DEF Start, NoLoader
  <2>2. S.records["local"] # <<>>
    BY <1>0, Waits, EmptySeq, BoundsAssumption
  <2>3. rec'["local"].st = "measuring" /\ rec'["local"].todo = S.records["local"]
    BY <1>4, <2>2 DEF Start, Machines
  <2>4. Elapsed' = 0
    <3> DEFINE a == Len(S.records["local"])
    <3>1. S' = S
      BY <1>1, <1>4 DEF Start
    <3>2. a \in Nat /\ Len(S'.records["local"]) = a /\ Len(rec'["local"].todo) = a
      BY <1>0, <2>3, <3>1
    <3>3. rec'["local"].st \notin {"measured", "parsing"}
      BY <2>3
    <3> HIDE DEF a
    <3> QED BY <3>2, <3>3 DEF Elapsed
  <2> QED BY <2>1, <2>4 DEF LoaderInTime
<1>5. ASSUME NEW m \in Machines, Begin(m) \/ Stall(m) \/ Open(m) \/ Parse(m)
      PROVE  LoaderInTime'
  <2>1. UNCHANGED <<script, pc, left, loader>>
    BY <1>5 DEF Begin, Stall, Open, Parse
  <2>2. Elapsed' = Elapsed
    BY <1>5, <2>1, ElapsedKept
  <2> QED BY <1>0, <1>1, <2>1, <2>2 DEF LoaderInTime
<1>6. CASE Attached
  <2>1. UNCHANGED <<script, pc, left>> /\ loader.st = "attaching" /\ loader'.st = "tracing"
    BY <1>0, <1>6 DEF Attached, LoaderOK
  <2> QED BY <1>0, <2>1 DEF LoaderInTime
<1>7. CASE StopTracing
  <2>1. /\ UNCHANGED <<script, pc, left>>
        /\ loader.st = "tracing" /\ loader'.st = "dumping" /\ loader'.t = 0
    BY <1>0, <1>7 DEF StopTracing, Leaves, LoaderOK
  <2> QED BY <1>0, <1>1, <2>1 DEF LoaderInTime
<1>8. CASE Dumped
  BY <1>2, <1>8 DEF Dumped
<1>9. CASE Tick
  <2>1. /\ UNCHANGED <<script, pc>> /\ ~Leaves /\ pc \in {"record", "settle"}
        /\ pc = "record" => rec["local"].st = "measuring"
        /\ left' = IF pc = "settle" THEN left - 1 ELSE left
        /\ \/ loader' = loader /\ (loader.st = "off" \/ (loader.st = "tracing" /\ ~S.timed))
           \/ loader' = [loader EXCEPT !.t = @ + 1]
    BY <1>9 DEF Tick, MayWait
  <2>2. loader'.st = loader.st /\ loader'.stop = loader.stop
    BY <1>0, <2>1 DEF LoaderOK
  <2>3. loader.st \in {"attaching", "dumping"} => loader'.t = loader.t + 1
    BY <1>0, <2>1 DEF LoaderOK
  <2>4. pc = "settle" => loader.st # "tracing"
    BY <1>0, <2>1 DEF LoaderInTime, Leaves
  <2>5. pc = "record" => Elapsed' = Elapsed + 1
    <3>1. rec["local"] \in [st : Stages, todo : Seq(Metric)] /\ "local" \in Machines
      BY DEF StatsInv, DirsInv, Types, Machines
    <3>2. CASE rec["local"].st = "measuring"
      <4> DEFINE Q == Seq(Metric)
      <4>1. rec'["local"] = [rec["local"] EXCEPT !.st = "measured"]
        BY <1>9, <3>1, <3>2 DEF Tick
      <4>2. rec["local"] \in [st : Stages, todo : Q]
        BY <3>1
      <4> HIDE DEF Q
      <4>3. rec'["local"].st = "measured" /\ rec'["local"].todo = rec["local"].todo
        BY <4>1, <4>2
      <4> QED BY <1>0, <1>1, <2>1, <3>2, <4>3 DEF Elapsed
    <3> QED BY <2>1, <3>2
  <2> QED BY <1>0, <1>1, <2>1, <2>2, <2>3, <2>4, <2>5 DEF LoaderInTime
<1>10. CASE Interrupt
  <2>1. /\ UNCHANGED script /\ pc = "record" /\ pc' = "copy" /\ rec["local"].st = "off"
    BY <1>10 DEF Interrupt
  <2>2. loader.st # "attaching"
    BY <1>10, NotInterrupted
  <2>3. /\ loader'.st = loader.st
        /\ loader.st = "tracing" => loader'.stop
    <3>1. loader \in [st : {"off", "attaching", "tracing", "dumping"}, t : Nat, stop : BOOLEAN]
      BY <1>0 DEF LoaderOK
    <3> QED BY <1>10, <2>2, <3>1 DEF Interrupt
  <2> QED BY <2>1, <2>2, <2>3 DEF LoaderInTime
<1>11. CASE CopyNext
  BY <1>0, <1>11, CopyFrame DEF LoaderInTime
<1>12. CASE Settle
  <2>1. UNCHANGED <<script, loader>> /\ pc = "copy" /\ pc' = "settle" /\ left' = S.settle
    BY <1>12 DEF Settle
  <2> QED BY <1>0, <1>1, <2>1 DEF LoaderInTime
<1>13. CASE Period
  <2>1. UNCHANGED loader /\ pc = "settle" /\ left = 0
    BY <1>13 DEF Period
  <2>2. loader.st = "off"
    BY <1>0, <2>1, BoundsAssumption DEF LoaderInTime, LoaderOK
  <2> QED BY <2>1, <2>2 DEF LoaderInTime
<1>14. CASE Collect \/ Report
  <2>1. UNCHANGED loader /\ loader.st = "off"
    BY <1>0, <1>14 DEF Collect, Report, LoaderInTime
  <2> QED BY <2>1 DEF LoaderInTime
<1>15. CASE UNCHANGED vars
  <2>1. UNCHANGED <<script, pc, left, rec, loader>>
    BY <1>15 DEF vars
  <2>2. Elapsed' = Elapsed
    BY <1>1, <2>1 DEF Elapsed
  <2> QED BY <1>0, <1>1, <2>1, <2>2 DEF LoaderInTime
<1> QED BY <1>3, <1>4, <1>5, <1>6, <1>7, <1>8, <1>9, <1>10, <1>11, <1>12, <1>13, <1>14, <1>15
        DEF Next, Done

-----------------------------------------------------------------------------
(* What a step writes into the script's directories: one report of this run. *)
Writes(n, f) ==
  \A r \in Runs, m \in Names : dirs'[r][m] = IF r = run /\ m = n THEN f ELSE dirs[r][m]

LEMMA OneWrite ==
  ASSUME StatsInv, NEW n \in Names, NEW f \in Files, dirs' = [dirs EXCEPT ![run][n] = f]
  PROVE  Writes(n, f)
<1>1. DirsInv
  BY DEF StatsInv
<1>2. \A r \in Runs, m \in Names :
        dirs'[r][m] = IF r = run /\ m = n THEN f ELSE dirs[r][m]
  BY <1>1, DirWrite
<1> QED BY <1>2 DEF Writes

LEMMA CopyFacts ==
  ASSUME StatsInv, Copying, CopyNext
  PROVE  /\ Len(S.copies) - left + 1 \in DOMAIN S.copies
         /\ NextCopy.from \in Remotes /\ NextCopy.metric \in Metric
         /\ NextCopy.to \in {"client-retx", "host-retx", "host-pcie", "retx"}
         /\ Copied \in Files
         /\ UNCHANGED dirs \/ Writes(NextCopy.to, Copied)
<1>1. script \in Scripts
  BY DEF StatsInv, DirsInv, Types
<1>2. Len(S.copies) - left + 1 \in DOMAIN S.copies
  BY <1>1, CopyItem
<1>3. /\ NextCopy.from \in Remotes /\ NextCopy.metric \in Metric
      /\ NextCopy.to \in {"client-retx", "host-retx", "host-pcie", "retx"}
  BY <1>1, CopyItem
<1>4. Copied \in Files
  BY <1>3 DEF Copied, StatsInv, DirsInv, Types
<1>5. dirs' = dirs \/ dirs' = [dirs EXCEPT ![run][NextCopy.to] = Copied]
  BY CopyEither
<1>6. NextCopy.to \in Names
  BY <1>3 DEF Names
<1>7. UNCHANGED dirs \/ Writes(NextCopy.to, Copied)
  <2> DEFINE n == NextCopy.to
             f == Copied
  <2>1. n \in Names /\ f \in Files /\ (dirs' = dirs \/ dirs' = [dirs EXCEPT ![run][n] = f])
    BY <1>4, <1>5, <1>6
  <2> HIDE DEF n, f
  <2>2. UNCHANGED dirs \/ Writes(n, f)
    BY <2>1, OneWrite
  <2> QED BY <2>2 DEF n, f
<1> QED BY <1>2, <1>3, <1>4, <1>7

LEMMA WriteFacts ==
  ASSUME StatsInv, NEW m \in Machines, NEW x \in Metric, NEW v \in Vals,
         Write(m, x, File(v, m, "new"))
  PROVE  /\ m = "local" => Writes(x, File(v, "local", "new")) /\ UNCHANGED remote
         /\ m # "local" =>
              /\ UNCHANGED dirs
              /\ \A k \in Remotes, y \in Metric :
                   remote'[k][y] = IF k = m /\ y = x THEN File(v, m, "new") ELSE remote[k][y]
<1> DEFINE f == File(v, m, "new")
<1>1. f \in Files
  BY FileType DEF Ages
<1>2. CASE m = "local"
  <2>1. dirs' = [dirs EXCEPT ![run][x] = f] /\ UNCHANGED remote
    BY <1>2 DEF Write
  <2> HIDE DEF f
  <2>2. x \in Names
    BY MetricNames
  <2>3. Writes(x, f)
    BY <1>1, <2>1, <2>2, OneWrite
  <2> QED BY <1>2, <2>1, <2>3 DEF f
<1>3. CASE m # "local"
  <2>1. remote' = [remote EXCEPT ![m][x] = f] /\ UNCHANGED dirs /\ m \in Remotes
    BY <1>3 DEF Write, Machines, Remotes
  <2>2. remote \in [Remotes -> [Metric -> Files]]
    BY DEF StatsInv, DirsInv, Types
  <2> DEFINE d == [remote[m] EXCEPT ![x] = f]
  <2>3. \A y \in Metric : d[y] = IF y = x THEN f ELSE remote[m][y]
    BY <2>1, <2>2
  <2>4. remote' = [remote EXCEPT ![m] = d]
    BY <2>1
  <2> HIDE DEF d, f
  <2>5. \A k \in Remotes : remote'[k] = IF k = m THEN d ELSE remote[k]
    BY <2>1, <2>2, <2>4
  <2>6. \A k \in Remotes, y \in Metric :
          remote'[k][y] = IF k = m /\ y = x THEN f ELSE remote[k][y]
    BY <2>3, <2>5
  <2> QED BY <1>3, <2>1, <2>6 DEF f
<1> QED BY <1>2, <1>3

\* A recorder touches the report it is at, and no other.
LEMMA RecorderWrites ==
  ASSUME StatsInv, NEW m \in Machines, Open(m) \/ Parse(m)
  PROVE  LET x == Head(rec[m].todo)
         IN /\ rec[m].st # "off" /\ x \in Metric
            /\ \E v \in Vals :
                 /\ \/ v = "empty" /\ UNCHANGED <<dirs, remote>>
                    \/ Write(m, x, File(v, m, "new"))
                 /\ Parse(m) => Failing(v # "good")
<1> DEFINE x == Head(rec[m].todo)
<1>1. rec[m].st # "off"
  BY DEF Open, Parse
<1>2. x \in Metric
  BY <1>1, HeadFacts
<1> HIDE DEF x
<1>3. CASE Open(m)
  <2>1. Write(m, x, File("empty", m, "new")) /\ rec[m].st = "measured"
    BY <1>3 DEF Open, x
  <2>2. "empty" \in Vals /\ ~Parse(m)
    BY <2>1 DEF Vals, Parse
  <2> QED BY <1>1, <1>2, <2>1, <2>2 DEF x
<1>4. CASE Parse(m)
  <2>1. PICK v \in Outcomes(x) :
          /\ Failing(v # "good")
          /\ IF v = "empty" THEN UNCHANGED <<dirs, remote>> ELSE Write(m, x, File(v, m, "new"))
    BY <1>4 DEF Parse, x
  <2>2. v \in Vals
    BY <1>2, <2>1, OutcomeVals
  <2> QED BY <1>1, <1>2, <2>1, <2>2 DEF x
<1> QED BY <1>3, <1>4

\* No step but those of the loader touches the loader's report.
LEMMA EbpfKept ==
  ASSUME StatsInv, Copying, [Next]_vars, ~Start, ~Dumped
  PROVE  \A r \in Runs : dirs'[r]["ebpf"] = dirs[r]["ebpf"]
<1>1. "ebpf" \in Names /\ "ebpf" \notin Metric
  BY DEF Names, Metric
<1>2. ASSUME NEW n, NEW f, Writes(n, f), n # "ebpf"
      PROVE  \A r \in Runs : dirs'[r]["ebpf"] = dirs[r]["ebpf"]
  BY <1>1, <1>2 DEF Writes
<1>3. CASE UNCHANGED dirs
  BY <1>3
<1>4. CASE Cleanup
  <2>1. UNCHANGED dirs \/ \E f : dirs' = [dirs EXCEPT ![run]["mem"] = f]
    BY <1>4 DEF Cleanup
  <2>2. \A r \in Runs : dirs[r] \in [Names -> Files]
    BY DEF StatsInv, DirsInv, Types
  <2>3. dirs \in [Runs -> [Names -> Files]] /\ run \in Runs
    BY DEF StatsInv, DirsInv, Types
  <2> QED BY <1>1, <2>1, <2>2, <2>3
<1>5. ASSUME NEW m \in Machines, Open(m) \/ Parse(m)
      PROVE  \A r \in Runs : dirs'[r]["ebpf"] = dirs[r]["ebpf"]
  <2> DEFINE x == Head(rec[m].todo)
  <2>1. PICK v \in Vals : UNCHANGED <<dirs, remote>> \/ Write(m, x, File(v, m, "new"))
    BY <1>5, RecorderWrites
  <2>2. x \in Metric
    BY <1>5, RecorderWrites
  <2> HIDE DEF x
  <2>3. UNCHANGED dirs \/ Writes(x, File(v, "local", "new"))
    BY <2>1, <2>2, WriteFacts
  <2> QED BY <1>1, <1>2, <1>3, <2>2, <2>3
<1>6. CASE CopyNext
  <2>1. UNCHANGED dirs \/ Writes(NextCopy.to, Copied)
    BY <1>6, CopyFacts
  <2>2. NextCopy.to # "ebpf"
    BY <1>6, CopyFacts
  <2> QED BY <1>2, <1>3, <2>1, <2>2
<1>7. CASE Period
  <2>1. UNCHANGED dirs \/ \E f : dirs' = [dirs EXCEPT ![run]["iperf"] = f]
    BY <1>7 DEF Period
  <2>2. dirs \in [Runs -> [Names -> Files]] /\ run \in Runs
    BY DEF StatsInv, DirsInv, Types
  <2> QED BY <1>1, <2>1, <2>2
<1>8. ASSUME NEW m \in Machines, Begin(m) \/ Stall(m)
      PROVE  UNCHANGED dirs
  BY <1>8 DEF Begin, Stall
<1>9. CASE \/ Attached \/ StopTracing \/ Tick \/ Interrupt \/ Settle \/ EndRun \/ Collect
           \/ Report \/ UNCHANGED vars
  <2>1. UNCHANGED dirs
    BY <1>9 DEF Attached, StopTracing, Tick, Interrupt, Settle, EndRun, Collect, Report, vars
  <2> QED BY <1>3, <2>1
<1> QED BY <1>3, <1>4, <1>5, <1>6, <1>7, <1>8, <1>9 DEF Next, Done

LEMMA TraceWrittenNext ==
  ASSUME StatsInv, Copying, TraceInv, LoaderInTime', [Next]_vars
  PROVE  TraceWritten'
<1>0. /\ run \in Runs /\ TraceWritten /\ LoaderInTime /\ "ebpf" \in Names
      /\ dirs \in [Runs -> [Names -> Files]]
  BY DEF StatsInv, DirsInv, Types, TraceInv, Names
<1>1. ASSUME \A r \in Runs : dirs'[r]["ebpf"] = dirs[r]["ebpf"], run' = run,
             loader'.st = "off" <=> loader.st = "off",
             pc' \notin {"cleanup", "start"} => pc \notin {"cleanup", "start"}
      PROVE  TraceWritten'
  BY <1>0, <1>1 DEF TraceWritten, Traced
<1>2. CASE Cleanup
  <2>1. \A r \in Runs : dirs'[r]["ebpf"] = dirs[r]["ebpf"]
    <3>1. ~Start /\ ~Dumped
      BY <1>0, <1>2 DEF Cleanup, Start, Dumped, LoaderInTime
    <3> QED BY <1>2, <3>1, EbpfKept DEF Next
  <2> QED BY <1>0, <1>2, <2>1 DEF Cleanup, TraceWritten, Traced
<1>3. CASE Start
  <2> DEFINE f == File("empty", "local", "new")
  <2>1. f \in Files
    BY FileType DEF Vals, Machines, Ages
  <2>2. dirs' = [dirs EXCEPT ![run]["ebpf"] = f] /\ run' = run /\ loader'.st = "attaching"
    BY <1>3 DEF Start, NoLoader
  <2> HIDE DEF f
  <2>3. /\ \A r \in Runs : r # run => dirs'[r]["ebpf"] = dirs[r]["ebpf"]
        /\ dirs'[run]["ebpf"] = f
    BY <1>0, <2>1, <2>2, DirWrite DEF StatsInv
  <2>4. \A r \in Runs : r < run => r # run
    BY <1>0 DEF Runs
  <2>5. loader'.st # "off" /\ dirs'[run']["ebpf"] = File("empty", "local", "new")
    BY <2>2, <2>3 DEF f
  <2>6. \A r \in Runs : r < run' => Traced(r)'
    BY <1>0, <2>2, <2>3, <2>4 DEF TraceWritten, Traced
  <2> QED BY <2>5, <2>6 DEF TraceWritten
<1>4. CASE Dumped
  <2> DEFINE f == [dirs[run]["ebpf"] EXCEPT !.val = "good"]
  <2>1. /\ loader.st = "dumping" /\ loader'.st = "off" /\ run' = run /\ pc' = pc
        /\ dirs' = [dirs EXCEPT ![run]["ebpf"] = f]
    BY <1>4 DEF Dumped, NoLoader
  <2>2. dirs[run]["ebpf"] = File("empty", "local", "new")
    BY <1>0, <2>1 DEF LoaderInTime, TraceWritten
  <2>3. f = File("good", "local", "new")
    BY <2>2 DEF File
  <2> HIDE DEF f
  <2>4. f \in Files
    BY <2>3, FileType DEF Vals, Machines, Ages
  <2>5. /\ \A r \in Runs : r # run => dirs'[r]["ebpf"] = dirs[r]["ebpf"]
        /\ dirs'[run]["ebpf"] = f
    BY <1>0, <2>1, <2>4, DirWrite DEF StatsInv
  <2> QED BY <1>0, <2>1, <2>3, <2>5 DEF TraceWritten, Traced, Runs
<1>5. CASE ~Start /\ ~Dumped /\ ~Cleanup
  <2>1. \A r \in Runs : dirs'[r]["ebpf"] = dirs[r]["ebpf"]
    BY <1>5, EbpfKept
  <2>2. ASSUME NEW m \in Machines, Begin(m) \/ Stall(m) \/ Open(m) \/ Parse(m)
        PROVE  UNCHANGED <<run, pc, loader>>
    BY <2>2 DEF Begin, Stall, Open, Parse
  <2>3. CASE \/ Attached \/ StopTracing \/ Tick \/ CopyNext \/ Settle \/ Period \/ Collect
             \/ Report \/ UNCHANGED vars
    <3>1. /\ run' = run
          /\ pc' \notin {"cleanup", "start"} => pc \notin {"cleanup", "start"}
      <4>1. CASE Settle \/ Period \/ Collect \/ Report
        BY <4>1 DEF Settle, Period, Collect, Report
      <4>2. CASE CopyNext
        BY <4>2, CopyFrame
      <4>3. CASE Attached \/ StopTracing
        BY <4>3 DEF Attached, StopTracing
      <4>4. CASE Tick
        BY <4>4, Zenon DEF Tick
      <4>5. CASE UNCHANGED vars
        BY <4>5 DEF vars
      <4> QED BY <2>3, <4>1, <4>2, <4>3, <4>4, <4>5
    <3>2. loader'.st = "off" <=> loader.st = "off"
      <4>1. LoaderOK
        BY DEF TraceInv
      <4> QED BY <2>3, <4>1, CopyFrame DEF Attached, StopTracing, Leaves, Tick, Settle, Period,
          Collect, Report, vars, LoaderOK
    <3> QED BY <1>1, <2>1, <3>1, <3>2
  <2>4. CASE Interrupt
    <3>1. run' = run /\ pc = "record" /\ pc' = "copy"
      BY <2>4 DEF Interrupt
    <3>2. loader.st # "attaching"
      BY <2>4, NotInterrupted
    <3>3. loader'.st = "off" <=> loader.st = "off"
      BY <2>4, <3>2 DEF Interrupt, TraceInv, LoaderOK
    <3> QED BY <1>1, <2>1, <3>1, <3>3
  <2>5. CASE EndRun
    <3>1. pc = "endrun" /\ loader.st = "off"
      BY <1>0, <2>5 DEF EndRun, LoaderInTime
    <3>2. loader'.st = "off"
      BY <2>5, <3>1 DEF EndRun, KillLoader, NoLoader
    <3>3. Traced(run) /\ \A r \in Runs : r < run => Traced(r)
      BY <1>0, <3>1 DEF TraceWritten
    <3>4. \/ run' = run
          \/ run' = run + 1 /\ pc' = "cleanup"
      BY <2>5 DEF EndRun
    <3>5. \A r \in Runs : r < run + 1 => r < run \/ r = run
      BY <1>0 DEF Runs
    <3>6. \A r \in Runs : r < run \/ r = run => Traced(r)'
      BY <2>1, <3>3 DEF Traced
    <3> QED BY <1>0, <3>2, <3>4, <3>5, <3>6 DEF TraceWritten, Traced
  <2> QED BY <1>1, <1>5, <2>1, <2>2, <2>3, <2>4, <2>5 DEF Next, Done
<1> QED BY <1>2, <1>3, <1>4, <1>5

-----------------------------------------------------------------------------
(* When nothing fails and no copy comes too early, every report the collector *)
(* reads is whole and of this invocation.                                    *)
Good(f) == f.val = "good" /\ f.age = "new"
Clean == mishaps = 0 /\ ~late

(* The script's own recorder is done when the script goes on, and the loader *)
(* when the last run is over.                                                *)
AtRest ==
  /\ pc # "record" => rec["local"].st = "off"
  /\ pc \in {"collect", "report", "done"} => loader.st = "off"

(* What a recorder has left behind it in this run is good. *)
ReportOf(m, x) == IF m = "local" THEN dirs[run][x] ELSE remote[m][x]
Recording == pc \in {"record", "copy", "settle", "endrun"}
RecordersGood ==
  Recording => \A m \in Machines, x \in Metric :
                 Recorded(S, m, x) => Good(ReportOf(m, x)) \/ Pending(m, x)

(* So is what has been copied, and the throughput. *)
CopyMade(i) == \/ pc \in {"settle", "endrun"}
               \/ pc = "copy" /\ i <= Len(S.copies) - left
CopiesGood == \A i \in DOMAIN S.copies : CopyMade(i) => Good(dirs[run][S.copies[i].to])
TputGood == pc = "endrun" /\ S.period => Good(dirs[run]["iperf"])

(* And so are the runs that are over, and the statistics made of them. *)
RunGood(r) ==
  /\ \A x \in Metric : Recorded(S, "local", x) => Good(dirs[r][x])
  /\ \A i \in DOMAIN S.copies : Good(dirs[r][S.copies[i].to])
  /\ S.period => Good(dirs[r]["iperf"])
Through(r) == r < run \/ pc \in {"collect", "report", "done"}
RunsGood == \A r \in Runs : Through(r) => RunGood(r)
Printed ==
  S.period =>
    /\ pc \in {"report", "done"} => dat = "new" /\ samples = Collected(dirs, S.sources)
    /\ pc = "done" => reported \in {"means", "deviations"}

WholeInv == Clean => RecordersGood /\ CopiesGood /\ TputGood /\ RunsGood /\ Printed

LEMMA FailingCounts ==
  ASSUME Misc, NEW cond, Failing(cond), mishaps' = 0
  PROVE  mishaps = 0 /\ ~cond
BY DEF Misc, Failing

LEMMA CleanBefore ==
  ASSUME Misc, [Next]_vars, Clean'
  PROVE  Clean
<1> USE DEF Clean
<1>1. CASE UNCHANGED <<mishaps, late>>
  BY <1>1
<1>2. ASSUME NEW cond, Failing(cond), late \in BOOLEAN, late => late'
      PROVE  Clean
  BY <1>2, FailingCounts
<1>3. late \in BOOLEAN
  BY DEF Misc
<1>4. ASSUME NEW m \in Machines, Begin(m) \/ Stall(m) \/ Open(m) \/ Parse(m)
      PROVE  Clean
  <2>1. late' = late /\ (mishaps' = mishaps \/ \E cond : Failing(cond))
    BY <1>4 DEF Begin, Stall, Open, Parse
  <2> QED BY <1>1, <1>2, <1>3, <2>1
<1>5. CASE CopyNext \/ Period
  <2>1. late => late'
    <3>1. CASE Period
      BY <3>1 DEF Period
    <3>2. CASE CopyNext
      BY <1>3, <3>2, CopyEither, Zenon
    <3> QED BY <1>5, <3>1, <3>2
  <2>2. mishaps' = mishaps \/ \E cond : Failing(cond)
    BY <1>5, CopyEither DEF Period
  <2> QED BY <1>1, <1>2, <1>3, <2>1, <2>2
<1>6. CASE \/ Cleanup \/ Start \/ Attached \/ StopTracing \/ Dumped \/ Tick \/ Interrupt
           \/ Settle \/ EndRun \/ Collect \/ Report \/ UNCHANGED vars
  <2>1. UNCHANGED <<mishaps, late>>
    BY <1>6 DEF Cleanup, Start, Attached, StopTracing, Dumped, Tick, Interrupt, Settle,
       EndRun, Collect, Report, vars
  <2> QED BY <1>1, <2>1
<1> QED BY <1>4, <1>5, <1>6 DEF Next, Done

\* A copy is of a report its machine records.
LEMMA CopiesRecorded ==
  ASSUME script \in Scripts, NEW i \in DOMAIN S.copies
  PROVE  Recorded(S, S.copies[i].from, S.copies[i].metric)
<1>1. CASE script \in {"VmRx", "VmTx"}
  <2>1. S.copies = VmRx.copies /\ S.records = VmRx.records
    BY <1>1, Scripted, Fields
  <2>2. S.copies[i] \in {Copy("client", "retx", "client-retx"), Copy("host", "retx", "host-retx"),
                         Copy("host", "pcie", "host-pcie")}
    BY <2>1, Fields
  <2>3. /\ S.records["client"] = <<"cpu", "retx">>
        /\ S.records["host"] = <<"retx", "pcie">>
    BY <2>1, Fields
  <2>4. Recorded(S, "client", "retx") /\ Recorded(S, "host", "retx") /\ Recorded(S, "host", "pcie")
    BY <2>3 DEF Recorded
  <2> QED BY <2>2, <2>4 DEF Copy
<1>2. CASE script \in {"Tx", "Rx"}
  <2>1. S.records = Tx.records /\ (S.copies = Tx.copies \/ S.copies = Rx.copies)
    BY <1>2, Scripted, Fields
  <2>2. S.copies[i] \in {Copy("client", "retx", "client-retx"), Copy("client", "retx", "retx")}
    BY <2>1, Fields
  <2>3. S.records["client"] = <<"cpu", "retx">>
    BY <2>1, Fields
  <2>4. Recorded(S, "client", "retx")
    BY <2>3 DEF Recorded
  <2> QED BY <2>2, <2>4 DEF Copy
<1> QED BY <1>1, <1>2, Scripted

\* What the collector reads is recorded here, copied, or the throughput.
LEMMA SourceKinds ==
  ASSUME script \in Scripts, S.period, NEW k \in {"retx", "cpu", "pcie"}
  PROVE  \/ S.sources[k] \in Metric /\ Recorded(S, "local", S.sources[k])
         \/ \E i \in DOMAIN S.copies : S.copies[i].to = S.sources[k]
<1>1. script \in {"VmRx", "VmTx", "Tx"}
  BY Scripted, Fields
<1>2. CASE script \in {"VmRx", "VmTx"}
  <2>1. /\ S.copies = VmRx.copies /\ S.records["local"] = <<"cpu", "retx">>
        /\ S.sources \in {VmRxSources, VmTxSources}
    BY <1>2, Scripted, Fields
  <2>2. /\ S.sources.cpu = "cpu" /\ S.sources.pcie = "host-pcie"
        /\ S.sources.retx \in {"client-retx", "retx"}
    BY <2>1, SourceFields
  <2>3. Recorded(S, "local", "cpu") /\ Recorded(S, "local", "retx")
    BY <2>1 DEF Recorded
  <2>4. /\ 1 \in DOMAIN S.copies /\ S.copies[1].to = "client-retx"
        /\ 3 \in DOMAIN S.copies /\ S.copies[3].to = "host-pcie"
    BY <2>1, Fields DEF Copy
  <2> QED BY <2>2, <2>3, <2>4 DEF Metric
<1>3. CASE script = "Tx"
  <2>1. S.records["local"] = <<"cpu", "retx", "pcie">> /\ S.sources = TxSources
    BY <1>3, Scripted, Fields
  <2>2. S.sources.cpu = "cpu" /\ S.sources.pcie = "pcie" /\ S.sources.retx = "retx"
    BY <2>1, SourceFields
  <2>3. Recorded(S, "local", "cpu") /\ Recorded(S, "local", "retx") /\ Recorded(S, "local", "pcie")
    BY <2>1 DEF Recorded
  <2> QED BY <2>2, <2>3 DEF Metric
<1> QED BY <1>1, <1>2, <1>3

LEMMA SourceGood ==
  ASSUME script \in Scripts, S.period, NEW r, RunGood(r), NEW k \in {"iperf", "retx", "cpu", "pcie"}
  PROVE  Good(dirs[r][S.sources[k]])
<1>1. CASE k = "iperf"
  BY <1>1, SourceNames DEF RunGood
<1>2. CASE k # "iperf"
  BY <1>2, SourceKinds DEF RunGood
<1> QED BY <1>1, <1>2

-----------------------------------------------------------------------------
(* What a recorder has still to write. *)
LEMMA PendingSame ==
  ASSUME NEW m, rec'[m].todo = rec[m].todo, rec'[m].st = "off" <=> rec[m].st = "off", NEW x
  PROVE  Pending(m, x)' <=> Pending(m, x)
BY DEF Pending

LEMMA PendingKept ==
  ASSUME StatsInv, Tick \/ \E k \in Machines : Begin(k) \/ Stall(k) \/ Open(k),
         NEW m \in Machines, NEW x
  PROVE  Pending(m, x)' <=> Pending(m, x)
<1>1. rec \in [Machines -> [st : Stages, todo : Seq(Metric)]]
  BY DEF StatsInv, DirsInv, Types
<1>2. ASSUME NEW k \in Machines, Begin(k) \/ Stall(k) \/ Open(k)
      PROVE  rec'[m].todo = rec[m].todo /\ (rec'[m].st = "off" <=> rec[m].st = "off")
  <2>1. PICK s \in {"measuring", "stalled", "parsing"} :
          rec' = [rec EXCEPT ![k] = [@ EXCEPT !.st = s]] /\ rec[k].st # "off"
    BY <1>2 DEF Begin, Stall, Open
  <2>2. s \in Stages
    BY DEF Stages
  <2> QED BY <1>1, <2>1, <2>2, StagePut
<1>3. CASE Tick
  BY <1>3, TickRec, PendingSame
<1> QED BY <1>2, <1>3, PendingSame

LEMMA PendingParse ==
  ASSUME StatsInv, NEW k \in Machines, Parse(k), NEW m \in Machines, NEW x,
         Pending(m, x), m = k => x # Head(rec[k].todo)
  PROVE  Pending(m, x)'
<1>1. CASE m # k
  BY <1>1, ParseRec, PendingSame
<1>2. CASE m = k
  <2> DEFINE l == rec[m].todo
             t == Tail(l)
  <2>1. /\ l \in Seq(Metric) /\ Len(l) \in Nat \ {0} /\ Head(l) = l[1]
        /\ t \in Seq(Metric) /\ Len(t) = Len(l) - 1
        /\ \A i \in 1 .. Len(l) - 1 : t[i] = l[i + 1]
    BY <1>2, HeadFacts DEF Parse
  <2>2. PICK i \in DOMAIN l : l[i] = x
    BY DEF Pending
  <2>3. rec'[m] = IF Len(l) = 1 THEN Idle ELSE [st |-> "measuring", todo |-> t]
    BY <1>2, ParseRec
  <2>4. x # l[1]
    BY <1>2, <2>1
  <2> HIDE DEF l, t
  <2>5. DOMAIN l = 1 .. Len(l) /\ DOMAIN t = 1 .. Len(t)
    BY <2>1, LenProperties
  <2>6. i - 1 \in DOMAIN t /\ t[i - 1] = x /\ Len(l) # 1
    BY <2>1, <2>2, <2>4, <2>5
  <2>7. rec'[m].st = "measuring" /\ rec'[m].todo = t
    BY <2>3, <2>6
  <2>8. \E j \in DOMAIN rec'[m].todo : rec'[m].todo[j] = x
    BY <2>6, <2>7
  <2> QED BY <2>7, <2>8 DEF Pending
<1> QED BY <1>1, <1>2

LEMMA PendingStart ==
  ASSUME StatsInv, Start, NEW m \in Machines, NEW x, Recorded(S, m, x)
  PROVE  Pending(m, x)'
<1> DEFINE l == S.records[m]
<1>1. PICK i \in DOMAIN l : l[i] = x
  BY DEF Recorded
<1>2. l \in Seq(Metric)
  BY Records DEF StatsInv, DirsInv, Types
<1>3. l # <<>>
  <2> HIDE DEF l
  <2> QED BY <1>1, <1>2, EmptySeq, LenProperties
<1>4. rec'[m].todo = l /\ rec'[m].st \in {"measuring", "due"}
  BY <1>3 DEF Start
<1> HIDE DEF l
<1> QED BY <1>1, <1>4 DEF Pending

LEMMA HeadPending ==
  ASSUME StatsInv, NEW m \in Machines, rec[m].st # "off"
  PROVE  Pending(m, Head(rec[m].todo))
<1> DEFINE l == rec[m].todo
<1>1. l \in Seq(Metric) /\ Len(l) \in Nat \ {0} /\ Head(l) = l[1]
  BY HeadFacts
<1>2. DOMAIN l = 1 .. Len(l)
  <2> HIDE DEF l
  <2> QED BY <1>1, LenProperties
<1>3. 1 \in DOMAIN l
  BY <1>1, <1>2
<1> QED BY <1>1, <1>3 DEF Pending

-----------------------------------------------------------------------------
(* What a step without a failure leaves in the script's directories. *)
LEMMA GoodFile ==
  /\ ~Good(NoFile)
  /\ \A m \in Machines : Good(File("good", m, "new"))
<1>1. ASSUME NEW m \in Machines PROVE Good(File("good", m, "new"))
  <2> DEFINE f == [val |-> "good", by |-> m, age |-> "new"]
  <2>1. File("good", m, "new") = f
    BY DEF File
  <2>2. f.val = "good" /\ f.age = "new"
    OBVIOUS
  <2> HIDE DEF f
  <2> QED BY <2>1, <2>2 DEF Good
<1>2. NoFile.val = "none"
  BY DEF NoFile
<1>3. ~Good(NoFile)
  BY <1>2, Zenon DEF Good
<1> QED BY <1>1, <1>3

LEMMA CopyGood ==
  ASSUME StatsInv, Copying, Misc, RecordersGood, CopyNext, Clean, Clean'
  PROVE  Writes(NextCopy.to, Copied) /\ Good(Copied)
<1>1. /\ NextCopy.from \in Remotes /\ NextCopy.metric \in Metric /\ Copied \in Files
      /\ NextCopy.to \in {"client-retx", "host-retx", "host-pcie", "retx"}
  BY CopyFacts
<1>2. Recorded(S, NextCopy.from, NextCopy.metric)
  BY CopyFacts, CopiesRecorded DEF NextCopy, StatsInv, DirsInv, Types
<1>3. CASE /\ Copied # NoFile
           /\ dirs' = [dirs EXCEPT ![run][NextCopy.to] = Copied]
           /\ late' = (late \/ Pending(NextCopy.from, NextCopy.metric))
  <2>1. ~Pending(NextCopy.from, NextCopy.metric)
    <3>1. ~late' /\ late \in BOOLEAN
      BY DEF Clean, Misc
    <3> QED BY <1>3, <3>1, Zenon
  <2>2. Good(Copied)
    <3>1. pc = "copy"
      BY CopyFrame
    <3>2. NextCopy.from \in Machines /\ NextCopy.from # "local"
      BY <1>1 DEF Remotes, Machines
    <3>3. Good(ReportOf(NextCopy.from, NextCopy.metric))
      BY <1>1, <1>2, <2>1, <3>1, <3>2 DEF RecordersGood, Recording
    <3> QED BY <3>2, <3>3 DEF ReportOf, Copied
  <2>3. Writes(NextCopy.to, Copied)
    <3> DEFINE n == NextCopy.to
               f == Copied
    <3>1. n \in Names /\ f \in Files /\ dirs' = [dirs EXCEPT ![run][n] = f]
      BY <1>1, <1>3 DEF Names
    <3> HIDE DEF n, f
    <3>2. Writes(n, f)
      BY <3>1, OneWrite
    <3> QED BY <3>2 DEF n, f
  <2> QED BY <2>2, <2>3
<1>4. CASE /\ Failing(Copied # NoFile)
           /\ late' = (late \/ Copied = NoFile)
  <2>1. mishaps' = 0 /\ ~late'
    BY DEF Clean
  <2>2. ~(Copied # NoFile)
    BY <1>4, <2>1, FailingCounts
  <2>3. late'
    BY <1>4, <2>2, Zenon
  <2> QED BY <2>1, <2>3
<1> QED BY <1>3, <1>4, CopyEither

LEMMA PeriodGood ==
  ASSUME StatsInv, Misc, Period, S.period, Clean'
  PROVE  Writes("iperf", File("good", "local", "new"))
<1>1. PICK log \in IperfLogs :
        /\ Failing(log # "busy")
        /\ dirs' = [dirs EXCEPT ![run]["iperf"] = PeriodReport(@, log)]
  BY DEF Period
<1>2. log = "busy"
  BY <1>1, FailingCounts DEF Clean
<1> DEFINE f == File("good", "local", "new")
<1>3. f \in Files /\ "iperf" \in Names
  BY FileType DEF Vals, Machines, Ages, Names
<1>4. \A g : PeriodReport(g, "busy") = f
  BY DEF PeriodReport
<1> HIDE DEF f
<1>5. dirs' = [dirs EXCEPT ![run]["iperf"] = f]
  BY <1>1, <1>2, <1>4
<1>6. Writes("iperf", f)
  BY <1>3, <1>5, OneWrite
<1> QED BY <1>6 DEF f

\* The reports the collector may look for.
Looked == Names \ {"mem", "ebpf"}

(* A good report stays, but for one that a recorder is writing. *)
KeepsGood ==
  /\ \A r \in Runs \ {run}, n \in Looked : dirs'[r][n] = dirs[r][n]
  /\ \A n \in Looked : (pc = "record" => n \notin Metric) =>
       dirs'[run][n] = dirs[run][n] \/ Good(dirs'[run][n])

LEMMA FilesGood ==
  ASSUME StatsInv, Copying, Misc, AtRest, RecordersGood, [Next]_vars, Clean, Clean'
  PROVE  KeepsGood
<1>0. /\ run \in Runs /\ Looked \subseteq Names /\ "mem" \notin Looked /\ "ebpf" \notin Looked
      /\ dirs \in [Runs -> [Names -> Files]]
  BY DEF StatsInv, DirsInv, Types, Looked
<1>1. ASSUME UNCHANGED dirs PROVE KeepsGood
  BY <1>1 DEF KeepsGood
<1>2. ASSUME NEW n, NEW f, Writes(n, f),
             n \in {"mem", "ebpf"} \/ Good(f) \/ (pc = "record" /\ n \in Metric)
      PROVE  KeepsGood
  BY <1>0, <1>2 DEF Writes, KeepsGood
<1>3. CASE Cleanup
  <2>1. UNCHANGED dirs \/ dirs' = [dirs EXCEPT ![run]["mem"] = MemReport(dirs[run]["mem"])]
    BY <1>3 DEF Cleanup
  <2> DEFINE f == MemReport(dirs[run]["mem"])
  <2>2. f \in {File("good", "local", "new"), File("good", "local", "mixed")}
    BY DEF MemReport
  <2> HIDE DEF f
  <2>3. f \in Files /\ "mem" \in Names
    BY <2>2, FileType DEF Vals, Machines, Ages, Names
  <2>4. UNCHANGED dirs \/ Writes("mem", f)
    BY <2>1, <2>3, OneWrite DEF f
  <2> QED BY <1>1, <1>2, <2>4
<1>4. CASE Start \/ Dumped
  <2>1. PICK f : f \in Files /\ dirs' = [dirs EXCEPT ![run]["ebpf"] = f]
    <3>1. CASE Start
      <4>1. File("empty", "local", "new") \in Files
        BY FileType DEF Vals, Machines, Ages
      <4> QED BY <3>1, <4>1 DEF Start
    <3>2. CASE Dumped
      <4> DEFINE g == [dirs[run]["ebpf"] EXCEPT !.val = "good"]
      <4>1. dirs[run]["ebpf"] \in Files
        BY <1>0 DEF Names
      <4>2. g \in Files
        BY <4>1 DEF Files, NoFile, Vals, Machines, Ages
      <4>3. dirs' = [dirs EXCEPT ![run]["ebpf"] = g]
        BY <3>2 DEF Dumped
      <4> HIDE DEF g
      <4> QED BY <4>2, <4>3
    <3> QED BY <1>4, <3>1, <3>2
  <2>2. "ebpf" \in Names
    BY DEF Names
  <2>3. Writes("ebpf", f)
    BY <2>1, <2>2, OneWrite
  <2> QED BY <1>2, <2>3
<1>5. ASSUME NEW m \in Machines, Open(m) \/ Parse(m)
      PROVE  KeepsGood
  <2> DEFINE x == Head(rec[m].todo)
  <2>1. PICK v \in Vals : UNCHANGED <<dirs, remote>> \/ Write(m, x, File(v, m, "new"))
    BY <1>5, RecorderWrites
  <2>2. x \in Metric /\ rec[m].st # "off"
    BY <1>5, RecorderWrites
  <2> HIDE DEF x
  <2>3. \/ UNCHANGED dirs
        \/ m = "local" /\ Writes(x, File(v, "local", "new"))
    BY <2>1, <2>2, WriteFacts
  <2>4. m = "local" => pc = "record"
    BY <2>2 DEF AtRest
  <2> QED BY <1>1, <1>2, <2>2, <2>3, <2>4
<1>6. CASE CopyNext
  BY <1>2, <1>6, CopyGood
<1>7. CASE Period
  <2>1. CASE S.period
    BY <1>2, <1>7, <2>1, PeriodGood, GoodFile DEF Machines
  <2>2. CASE ~S.period
    BY <1>1, <1>7, <2>2 DEF Period
  <2> QED BY <2>1, <2>2
<1>8. ASSUME NEW m \in Machines, Begin(m) \/ Stall(m)
      PROVE  UNCHANGED dirs
  BY <1>8 DEF Begin, Stall
<1>9. CASE \/ Attached \/ StopTracing \/ Tick \/ Interrupt \/ Settle \/ EndRun \/ Collect
           \/ Report \/ UNCHANGED vars
  <2>1. UNCHANGED dirs
    BY <1>9 DEF Attached, StopTracing, Tick, Interrupt, Settle, EndRun, Collect, Report, vars
  <2> QED BY <1>1, <2>1
<1> QED BY <1>1, <1>3, <1>4, <1>5, <1>6, <1>7, <1>8, <1>9 DEF Next, Done

-----------------------------------------------------------------------------
LEMMA LookedNames ==
  ASSUME script \in Scripts
  PROVE  /\ Metric \subseteq Looked /\ "iperf" \in Looked /\ "iperf" \notin Metric
         /\ \A i \in DOMAIN S.copies : S.copies[i].to \in Looked
<1>1. {"client-retx", "host-retx", "host-pcie", "retx", "iperf"} \cup Metric \subseteq Looked
  BY DEF Looked, Names, Metric
<1>2. "iperf" \notin Metric
  BY DEF Metric
<1> QED BY <1>1, <1>2, Copies

LEMMA AtRestNext ==
  ASSUME StatsInv, AtRest, [Next]_vars
  PROVE  AtRest'
<1>1. "local" \in Machines /\ rec \in [Machines -> [st : Stages, todo : Seq(Metric)]]
  BY DEF StatsInv, DirsInv, Types, Machines
<1>2. ASSUME UNCHANGED <<rec, loader>>, pc' # "record" => pc # "record",
             pc' \in {"collect", "report", "done"} => pc \in {"collect", "report", "done"}
      PROVE  AtRest'
  BY <1>2 DEF AtRest
<1>3. CASE Cleanup
  BY <1>1, <1>3 DEF Cleanup, QuitScreens, AtRest
<1>4. CASE Start
  BY <1>4 DEF Start, AtRest
<1>5. ASSUME NEW m \in Machines, Begin(m) \/ Stall(m) \/ Open(m) \/ Parse(m)
      PROVE  AtRest'
  <2>1. UNCHANGED <<pc, loader>> /\ rec[m].st # "off"
    BY <1>5 DEF Begin, Stall, Open, Parse
  <2>2. CASE m = "local"
    BY <2>1, <2>2 DEF AtRest
  <2>3. CASE m # "local"
    <3>1. rec'["local"] = rec["local"]
      BY <1>1, <1>5, <2>3 DEF Begin, Stall, Open, Parse
    <3> QED BY <2>1, <3>1 DEF AtRest
  <2> QED BY <2>2, <2>3
<1>6. CASE Attached \/ StopTracing \/ Dumped
  <2>1. UNCHANGED <<rec, pc>> /\ loader.st # "off"
    BY <1>6 DEF Attached, StopTracing, Leaves, Dumped
  <2> QED BY <2>1 DEF AtRest
<1>7. CASE Tick
  <2>1. UNCHANGED pc /\ pc \in {"record", "settle"}
    BY <1>7 DEF Tick, MayWait
  <2>2. rec'["local"].st = "off" <=> rec["local"].st = "off"
    BY <1>1, <1>7, TickRec
  <2> QED BY <2>1, <2>2 DEF AtRest
<1>8. CASE Interrupt
  BY <1>8 DEF Interrupt, AtRest
<1>9. CASE EndRun
  <2>1. pc = "endrun" /\ rec'["local"] = rec["local"]
    BY <1>1, <1>9 DEF EndRun, QuitScreens
  <2>2. pc' \in {"collect", "report", "done"} => loader' = NoLoader
    <3>1. run \in Runs
      BY DEF StatsInv, DirsInv, Types
    <3> QED BY <1>9, <3>1, NumRunsAssumption DEF EndRun, KillLoader, Runs
  <2> QED BY <2>1, <2>2 DEF AtRest, NoLoader
<1>10. CASE CopyNext \/ Settle \/ Period
  BY <1>2, <1>10, CopyFrame DEF Settle, Period
<1>11. CASE Collect \/ Report \/ UNCHANGED vars
  BY <1>2, <1>11 DEF Collect, Report, vars
<1> QED BY <1>3, <1>4, <1>5, <1>6, <1>7, <1>8, <1>9, <1>10, <1>11 DEF Next, Done

\* A recorder leaves good reports behind it when no parser fails.
LEMMA RecorderGood ==
  ASSUME StatsInv, Misc, UNCHANGED <<script, run>>, NEW k \in Machines, Open(k) \/ Parse(k), Clean',
         NEW m \in Machines, NEW x \in Metric, Good(ReportOf(m, x)) \/ Pending(m, x)
  PROVE  Good(ReportOf(m, x))' \/ Pending(m, x)'
<1> DEFINE h == Head(rec[k].todo)
<1>1. PICK v \in Vals : /\ \/ v = "empty" /\ UNCHANGED <<dirs, remote>>
                           \/ Write(k, h, File(v, k, "new"))
                        /\ Parse(k) => Failing(v # "good")
  BY RecorderWrites
<1>2. h \in Metric /\ rec[k].st # "off"
  BY RecorderWrites
<1>3. Pending(k, h)
  BY <1>2, HeadPending
<1> DEFINE f == File(v, k, "new")
<1>4. /\ run \in Runs /\ x \in Names /\ (m # "local" => m \in Remotes)
  BY MetricNames DEF StatsInv, DirsInv, Types, Machines, Remotes
<1> HIDE DEF h
<1>5. CASE m # k \/ x # h
  <2>1. ReportOf(m, x)' = ReportOf(m, x)
    <3>1. CASE UNCHANGED <<dirs, remote>>
      BY <3>1 DEF ReportOf
    <3>2. CASE Write(k, h, f)
      <4>1. /\ k = "local" => Writes(h, File(v, "local", "new")) /\ UNCHANGED remote
            /\ k # "local" =>
                 /\ UNCHANGED dirs
                 /\ \A j \in Remotes, y \in Metric :
                      remote'[j][y] = IF j = k /\ y = h THEN f ELSE remote[j][y]
        BY <1>2, <3>2, WriteFacts
      <4> HIDE DEF f
      <4> QED BY <1>4, <1>5, <4>1 DEF Writes, ReportOf
    <3> QED BY <1>1, <3>1, <3>2
  <2>2. Pending(m, x) => Pending(m, x)'
    <3>1. CASE Open(k)
      BY <3>1, PendingKept
    <3>2. CASE Parse(k)
      BY <1>5, <3>2, PendingParse DEF h
    <3> QED BY <3>1, <3>2
  <2> QED BY <2>1, <2>2 DEF Good
<1>6. CASE m = k /\ x = h /\ Open(k)
  BY <1>3, <1>6, PendingKept
<1>7. CASE m = k /\ x = h /\ Parse(k)
  <2>1. v = "good"
    BY <1>1, <1>7, FailingCounts DEF Clean
  <2>2. Write(k, h, f) /\ Good(f)
    BY <1>1, <2>1, GoodFile
  <2>3. /\ k = "local" => Writes(h, f)
        /\ k # "local" => \A j \in Remotes, y \in Metric :
                            remote'[j][y] = IF j = k /\ y = h THEN f ELSE remote[j][y]
    BY <1>2, <2>2, WriteFacts
  <2> HIDE DEF f
  <2>4. ReportOf(m, x)' = f
    BY <1>2, <1>4, <1>7, <2>3 DEF Writes, ReportOf
  <2> QED BY <2>2, <2>4 DEF Good
<1> QED BY <1>5, <1>6, <1>7

LEMMA RecordersGoodNext ==
  ASSUME StatsInv, Misc, AtRest, RecordersGood, KeepsGood, [Next]_vars, Clean'
  PROVE  RecordersGood'
<1>0. script \in Scripts /\ Metric \subseteq Looked
  BY LookedNames DEF StatsInv, DirsInv, Types
<1>1. ASSUME NEW m, NEW x, script' = script PROVE Recorded(S, m, x)' <=> Recorded(S, m, x)
  BY <1>1, SameNames DEF Recorded
<1>2. ASSUME UNCHANGED <<script, run, remote>>, Recording' => Recording,
             \A x \in Metric : dirs'[run][x] = dirs[run][x] \/ Good(dirs'[run][x]),
             \A m \in Machines, x \in Metric : Pending(m, x) => Pending(m, x)'
      PROVE  RecordersGood'
  <2> SUFFICES ASSUME Recording', NEW m \in Machines, NEW x \in Metric, Recorded(S, m, x)'
               PROVE  Good(ReportOf(m, x))' \/ Pending(m, x)'
    BY DEF RecordersGood
  <2>1. Good(ReportOf(m, x)) \/ Pending(m, x)
    BY <1>1, <1>2 DEF RecordersGood
  <2>2. ReportOf(m, x)' = ReportOf(m, x) \/ Good(ReportOf(m, x)')
    BY <1>2 DEF ReportOf
  <2> QED BY <1>2, <2>1, <2>2 DEF Good
<1>3. ASSUME UNCHANGED rec
      PROVE  \A m \in Machines, x \in Metric : Pending(m, x) => Pending(m, x)'
  BY <1>3 DEF Pending
<1>4. CASE Start
  <2> SUFFICES ASSUME NEW m \in Machines, NEW x \in Metric, Recorded(S, m, x)'
               PROVE  Pending(m, x)'
    BY DEF RecordersGood
  <2>1. script' = script
    BY <1>4 DEF Start
  <2> QED BY <1>1, <1>4, <2>1, PendingStart
<1>5. ASSUME NEW k \in Machines, Open(k) \/ Parse(k)
      PROVE  RecordersGood'
  <2>1. UNCHANGED <<script, run, pc>>
    BY <1>5 DEF Open, Parse
  <2> SUFFICES ASSUME Recording', NEW m \in Machines, NEW x \in Metric, Recorded(S, m, x)'
               PROVE  Good(ReportOf(m, x))' \/ Pending(m, x)'
    BY DEF RecordersGood
  <2>2. Good(ReportOf(m, x)) \/ Pending(m, x)
    BY <1>1, <2>1 DEF RecordersGood, Recording
  <2> QED BY <1>5, <2>1, <2>2, RecorderGood
<1>6. CASE Tick \/ \E k \in Machines : Begin(k) \/ Stall(k)
  <2>1. UNCHANGED <<script, run, pc, dirs, remote>>
    BY <1>6 DEF Tick, Begin, Stall
  <2>2. \A m \in Machines, x \in Metric : Pending(m, x) => Pending(m, x)'
    BY <1>6, PendingKept
  <2> QED BY <1>2, <2>1, <2>2 DEF Recording
<1>7. CASE Attached \/ StopTracing \/ Interrupt \/ Settle \/ UNCHANGED vars
  <2>1. UNCHANGED <<script, run, dirs, remote, rec>> /\ (Recording' => Recording)
    BY <1>7 DEF Attached, StopTracing, Interrupt, Settle, vars, Recording
  <2> QED BY <1>2, <1>3, <2>1
<1>8. CASE Dumped
  <2>1. UNCHANGED <<script, run, pc, remote, rec>>
    BY <1>8 DEF Dumped
  <2>2. \A x \in Metric : dirs'[run][x] = dirs[run][x]
    <3>1. dirs \in [Runs -> [Names -> Files]] /\ run \in Runs /\ Metric \subseteq Names
      BY MetricNames DEF StatsInv, DirsInv, Types
    <3>2. PICK g : dirs' = [dirs EXCEPT ![run]["ebpf"] = g]
      BY <1>8 DEF Dumped
    <3>3. "ebpf" \notin Metric
      BY DEF Metric
    <3> QED BY <3>1, <3>2, <3>3
  <2> QED BY <1>2, <1>3, <2>1, <2>2 DEF Recording
<1>9. CASE CopyNext \/ Period
  <2>1. UNCHANGED <<script, run, remote, rec>> /\ pc # "record" /\ Recording
    BY <1>9, CopyFrame DEF Period, Recording
  <2>2. \A x \in Metric : dirs'[run][x] = dirs[run][x] \/ Good(dirs'[run][x])
    BY <1>0, <2>1 DEF KeepsGood
  <2> QED BY <1>2, <1>3, <2>1, <2>2
<1>10. CASE Cleanup \/ EndRun \/ Collect \/ Report
  <2>1. ~Recording'
    BY <1>10 DEF Cleanup, EndRun, Collect, Report, Recording
  <2> QED BY <2>1 DEF RecordersGood
<1> QED BY <1>4, <1>5, <1>6, <1>7, <1>8, <1>9, <1>10 DEF Next, Done

-----------------------------------------------------------------------------
(* The rest of the wholeness invariant, step by step. *)
\* What has been copied is good: each copy is of a report that is whole.
LEMMA CopiesGoodNext ==
  ASSUME StatsInv, Copying, Misc, RecordersGood, CopiesGood, KeepsGood, [Next]_vars,
         Clean, Clean'
  PROVE  CopiesGood'
<1>0. /\ script \in Scripts /\ run \in Runs /\ left \in Nat
      /\ Len(S.copies) \in Nat /\ DOMAIN S.copies = 1 .. Len(S.copies)
      /\ \A i \in DOMAIN S.copies : S.copies[i].to \in Looked /\ S.copies[i].to \in Names
  BY LookedNames, CopiesLen DEF StatsInv, DirsInv, Types, Copying, Looked
<1>1. ASSUME script' = script PROVE S' = S
  BY <1>1, SameNames
<1>2. ASSUME UNCHANGED <<script, run>>,
             \A i \in DOMAIN S.copies : CopyMade(i)' => pc # "record" /\ CopyMade(i)
      PROVE  CopiesGood'
  <2> SUFFICES ASSUME NEW i \in DOMAIN S.copies, CopyMade(i)'
               PROVE  Good(dirs'[run][S.copies[i].to])
    BY <1>1, <1>2 DEF CopiesGood, Good
  <2>1. pc # "record" /\ Good(dirs[run][S.copies[i].to])
    BY <1>2 DEF CopiesGood
  <2>2. \/ dirs'[run][S.copies[i].to] = dirs[run][S.copies[i].to]
        \/ Good(dirs'[run][S.copies[i].to])
    BY <1>0, <2>1 DEF KeepsGood
  <2> QED BY <2>1, <2>2
<1>3. ASSUME pc' \notin {"copy", "settle", "endrun"} PROVE CopiesGood'
  BY <1>3 DEF CopiesGood, CopyMade
<1>4. ASSUME UNCHANGED <<script, run, pc, left>> PROVE CopiesGood'
  <2>1. \A i : CopyMade(i)' => pc # "record" /\ CopyMade(i)
    BY <1>1, <1>4 DEF CopyMade
  <2> QED BY <1>2, <1>4, <2>1
<1>5. CASE Cleanup \/ Start \/ EndRun \/ Collect \/ Report
  BY <1>3, <1>5 DEF Cleanup, Start, EndRun, Collect, Report
<1>6. CASE \/ \E m \in Machines : Begin(m) \/ Stall(m) \/ Open(m) \/ Parse(m)
           \/ Attached \/ StopTracing \/ Dumped \/ UNCHANGED vars
  <2>1. UNCHANGED <<script, run, pc, left>>
    BY <1>6 DEF Begin, Stall, Open, Parse, Attached, StopTracing, Dumped, vars
  <2> QED BY <1>4, <2>1
<1>7. CASE Tick
  <2>1. UNCHANGED <<script, run, pc>> /\ pc \in {"record", "settle"}
    BY <1>7 DEF Tick, MayWait
  <2> QED BY <1>2, <2>1 DEF CopyMade
<1>8. CASE Interrupt
  <2>1. pc' = "copy" /\ UNCHANGED <<script, run>> /\ left' = Len(S.copies)
    BY <1>8 DEF Interrupt
  <2>2. \A i \in DOMAIN S.copies : ~CopyMade(i)'
    BY <1>0, <1>1, <2>1 DEF CopyMade
  <2> QED BY <1>2, <2>1, <2>2
<1>9. CASE Settle \/ Period
  <2>1. /\ UNCHANGED <<script, run>> /\ pc # "record"
        /\ pc = "settle" \/ (pc = "copy" /\ left = 0)
    BY <1>9 DEF Settle, Period
  <2>2. \A i \in DOMAIN S.copies : CopyMade(i)
    BY <1>0, <2>1 DEF CopyMade
  <2> QED BY <1>2, <2>1, <2>2
<1>10. CASE CopyNext
  <2>1. UNCHANGED <<script, run, pc>> /\ pc = "copy" /\ left' = left - 1
    BY <1>10, CopyFrame
  <2>2. Writes(NextCopy.to, Copied) /\ Good(Copied)
    BY <1>10, CopyGood
  <2>3. Len(S.copies) - left + 1 \in DOMAIN S.copies
    BY <1>10, CopyFacts
  <2>4. Good(dirs'[run][NextCopy.to])
    BY <1>0, <2>2, <2>3 DEF Writes, NextCopy
  <2> SUFFICES ASSUME NEW i \in DOMAIN S.copies, CopyMade(i)'
               PROVE  Good(dirs'[run][S.copies[i].to])
    BY <1>1, <2>1 DEF CopiesGood, Good
  <2>5. i <= Len(S.copies) - left + 1
    BY <1>0, <1>1, <2>1 DEF CopyMade
  <2>6. CASE i = Len(S.copies) - left + 1
    BY <2>4, <2>6 DEF NextCopy
  <2>7. CASE i <= Len(S.copies) - left
    <3>1. Good(dirs[run][S.copies[i].to])
      BY <2>1, <2>7 DEF CopiesGood, CopyMade
    <3>2. \/ dirs'[run][S.copies[i].to] = dirs[run][S.copies[i].to]
          \/ Good(dirs'[run][S.copies[i].to])
      BY <1>0, <2>1 DEF KeepsGood
    <3> QED BY <3>1, <3>2
  <2>8. i \in Nat /\ Len(S.copies) \in Nat /\ left \in Nat
    BY <1>0
  <2> QED BY <2>5, <2>6, <2>7, <2>8
<1> QED BY <1>5, <1>6, <1>7, <1>8, <1>9, <1>10 DEF Next, Done

\* The throughput is, once it has been computed.
LEMMA TputGoodNext ==
  ASSUME StatsInv, Misc, TputGood, KeepsGood, [Next]_vars, Clean'
  PROVE  TputGood'
<1>0. script \in Scripts /\ run \in Runs /\ "iperf" \in Names /\ "iperf" \in Looked
  BY LookedNames DEF StatsInv, DirsInv, Types, Names
<1>1. ASSUME pc' # "endrun" PROVE TputGood'
  BY <1>1 DEF TputGood
<1>2. ASSUME UNCHANGED <<script, run, pc>> PROVE TputGood'
  <2> SUFFICES ASSUME pc = "endrun", S.period PROVE Good(dirs'[run]["iperf"])
    BY <1>2, SameNames DEF TputGood, Good
  <2>1. dirs'[run]["iperf"] = dirs[run]["iperf"] \/ Good(dirs'[run]["iperf"])
    BY <1>0 DEF KeepsGood
  <2> QED BY <2>1 DEF TputGood
<1>3. CASE Period
  <2>1. UNCHANGED <<script, run>>
    BY <1>3 DEF Period
  <2> SUFFICES ASSUME S.period PROVE Good(dirs'[run]["iperf"])
    BY <2>1, SameNames DEF TputGood, Good
  <2>2. Writes("iperf", File("good", "local", "new"))
    BY <1>3, PeriodGood
  <2>3. Good(File("good", "local", "new"))
    BY GoodFile DEF Machines
  <2> QED BY <1>0, <2>2, <2>3 DEF Writes
<1>4. CASE \/ Cleanup \/ Start \/ Interrupt \/ Settle \/ EndRun \/ Collect \/ Report
  BY <1>1, <1>4 DEF Cleanup, Start, Interrupt, Settle, EndRun, Collect, Report
<1>5. CASE \E m \in Machines : Begin(m) \/ Stall(m) \/ Open(m) \/ Parse(m)
  <2>1. UNCHANGED <<script, run, pc>>
    BY <1>5 DEF Begin, Stall, Open, Parse
  <2> QED BY <1>2, <2>1
<1>6. CASE Attached \/ StopTracing \/ Dumped \/ Tick \/ CopyNext \/ UNCHANGED vars
  <2>1. UNCHANGED <<script, run, pc>>
    BY <1>6, CopyFrame DEF Attached, StopTracing, Dumped, Tick, vars
  <2> QED BY <1>2, <2>1
<1> QED BY <1>3, <1>4, <1>5, <1>6 DEF Next, Done

-----------------------------------------------------------------------------
\* Only the end of a run adds to the runs that are over.
LEMMA OnlyEndRun ==
  ASSUME [Next]_vars, ~EndRun
  PROVE  /\ UNCHANGED <<script, run>>
         /\ pc' \in {"collect", "report", "done"} => pc \in {"collect", "report", "done"}
<1>1. CASE \E m \in Machines : Begin(m) \/ Stall(m) \/ Open(m) \/ Parse(m)
  BY <1>1 DEF Begin, Stall, Open, Parse
<1>2. CASE \/ Cleanup \/ Start \/ Attached \/ StopTracing \/ Dumped \/ Tick \/ Interrupt
           \/ CopyNext \/ Settle \/ Period \/ Collect \/ Report \/ UNCHANGED vars
  BY <1>2, CopyFrame DEF Cleanup, Start, Attached, StopTracing, Dumped, Tick, Interrupt, Settle,
     Period, Collect, Report, vars
<1> QED BY <1>1, <1>2 DEF Next, Done

\* A run that ends has all its reports.
LEMMA EndedRunGood ==
  ASSUME StatsInv, AtRest, RecordersGood, CopiesGood, TputGood, pc = "endrun"
  PROVE  RunGood(run)
<1>1. \A x \in Metric : Recorded(S, "local", x) => Good(dirs[run][x])
  <2>1. "local" \in Machines
    BY DEF Machines
  <2>2. \A x : ~Pending("local", x)
    BY DEF AtRest, Pending
  <2> QED BY <2>1, <2>2 DEF RecordersGood, Recording, ReportOf
<1>2. \A i \in DOMAIN S.copies : Good(dirs[run][S.copies[i].to])
  BY DEF CopiesGood, CopyMade
<1>3. S.period => Good(dirs[run]["iperf"])
  BY DEF TputGood
<1> QED BY <1>1, <1>2, <1>3 DEF RunGood

\* And nothing takes them away.
LEMMA RunsGoodNext ==
  ASSUME StatsInv, AtRest, RecordersGood, CopiesGood, TputGood, RunsGood, KeepsGood,
         [Next]_vars
  PROVE  RunsGood'
<1>0. /\ script \in Scripts /\ run \in Runs /\ Metric \subseteq Looked /\ "iperf" \in Looked
      /\ \A i \in DOMAIN S.copies : S.copies[i].to \in Looked
  BY LookedNames DEF StatsInv, DirsInv, Types
<1>1. script' = script
  BY OnlyEndRun DEF EndRun
<1>2. S' = S
  BY <1>1, SameNames
<1>3. ASSUME NEW r \in Runs, RunGood(r), r = run => pc # "record"
      PROVE  RunGood(r)'
  <2>1. \A n \in Looked : Good(dirs[r][n]) => Good(dirs'[r][n])
    BY <1>3 DEF KeepsGood
  <2>2. \A x \in Metric : Recorded(S, "local", x) => Good(dirs'[r][x])
    BY <1>0, <1>3, <2>1 DEF RunGood
  <2>3. \A i \in DOMAIN S.copies : Good(dirs'[r][S.copies[i].to])
    BY <1>0, <1>3, <2>1 DEF RunGood
  <2>4. S.period => Good(dirs'[r]["iperf"])
    BY <1>0, <1>3, <2>1 DEF RunGood
  <2> QED BY <1>2, <2>2, <2>3, <2>4 DEF RunGood, Recorded, Good
<1>4. ASSUME NEW r \in Runs, Through(r) PROVE RunGood(r)'
  <2>1. r = run => pc # "record"
    BY <1>4 DEF Through, Runs
  <2> QED BY <1>3, <1>4, <2>1 DEF RunsGood
<1>5. CASE ~EndRun
  <2>1. \A r \in Runs : Through(r)' => Through(r)
    BY <1>5, OnlyEndRun DEF Through
  <2> QED BY <1>4, <2>1 DEF RunsGood, Runs
<1>6. CASE EndRun
  <2>1. pc = "endrun" /\ (run' = run + 1 \/ (run' = run /\ run = NumRuns - 1))
    BY <1>0, <1>6, NumRunsAssumption DEF EndRun, Runs
  <2>2. ASSUME NEW r \in Runs, r = run PROVE RunGood(r)'
    <3>1. RunGood(r)
      BY <2>1, <2>2, EndedRunGood
    <3> QED BY <1>3, <2>1, <3>1
  <2>3. \A r \in Runs : r = run \/ r < run \/ ~Through(r)'
    BY <1>0, <1>6, <2>1, NumRunsAssumption DEF Through, Runs, EndRun
  <2>4. \A r \in Runs : r < run => Through(r)
    BY DEF Through
  <2>5. ASSUME NEW r \in Runs, Through(r)' PROVE RunGood(r)'
    BY <1>4, <2>2, <2>3, <2>4, <2>5
  <2> QED BY <2>5 DEF RunsGood, Runs
<1> QED BY <1>5, <1>6
-----------------------------------------------------------------------------
(* The statistics. *)
\* Once the last run is over nothing writes into the directories any more:
\* the loader and the script's own recorder are done.
LEMMA NothingWritten ==
  ASSUME StatsInv, AtRest, [Next]_vars, pc \in {"report", "done"}
  PROVE  UNCHANGED <<dirs, dat, samples>> /\ (pc = "done" => UNCHANGED reported)
<1>1. loader.st = "off" /\ rec["local"].st = "off"
  BY DEF AtRest
<1>2. ASSUME NEW m \in Machines, Open(m) \/ Parse(m)
      PROVE  UNCHANGED <<dirs, dat, samples, reported>>
  <2> DEFINE x == Head(rec[m].todo)
  <2>1. PICK v \in Vals : UNCHANGED <<dirs, remote>> \/ Write(m, x, File(v, m, "new"))
    BY <1>2, RecorderWrites
  <2>2. m # "local" /\ x \in Metric
    BY <1>1, <1>2, RecorderWrites
  <2> HIDE DEF x
  <2>3. UNCHANGED dirs
    BY <2>1, <2>2, WriteFacts
  <2> QED BY <1>2, <2>3 DEF Open, Parse
<1>3. ASSUME NEW m \in Machines, Begin(m) \/ Stall(m)
      PROVE  UNCHANGED <<dirs, dat, samples, reported>>
  BY <1>3 DEF Begin, Stall
<1>4. CASE Attached \/ StopTracing \/ Dumped \/ Tick \/ UNCHANGED vars
  BY <1>1, <1>4 DEF Attached, StopTracing, Leaves, Dumped, Tick, vars
<1>5. CASE \/ Cleanup \/ Start \/ Interrupt \/ CopyNext \/ Settle \/ Period \/ EndRun
           \/ Collect \/ Report
  BY <1>5, CopyFrame DEF Cleanup, Start, Interrupt, Settle, Period, EndRun, Collect, Report
<1> QED BY <1>2, <1>3, <1>4, <1>5 DEF Next, Done

\* The collector gets through the reports of runs that are good.
LEMMA CollectorPasses ==
  ASSUME StatsInv, S.period, \A r \in Runs : RunGood(r)
  PROVE  ~CollectFails(dirs, S.sources)
<1>1. DOMAIN dirs = Runs /\ script \in Scripts
  BY DEF StatsInv, DirsInv, Types
<1>2. ASSUME NEW r \in Runs, NEW k \in {"iperf", "retx", "cpu"}
      PROVE  Good(dirs[r][S.sources[k]])
  BY <1>1, SourceGood
<1>3. ASSUME NEW f, NEW k, Good(f) PROVE ~Aborts(k, f)
  BY <1>3, GoodFile DEF Aborts, Good
<1>4. ASSUME NEW r \in Runs, NEW k \in Kinds, Aborts(k, dirs[r][S.sources[k]])
      PROVE  k \in {"iperf", "retx", "cpu"}
  BY <1>4 DEF Aborts
<1> QED BY <1>1, <1>2, <1>3, <1>4 DEF CollectFails

LEMMA PrintedNext ==
  ASSUME StatsInv, AtRest, RunsGood, Printed, [Next]_vars
  PROVE  Printed'
<1>1. S' = S
  BY OnlyEndRun, SameNames DEF EndRun
<1>2. CASE pc' \notin {"report", "done"}
  BY <1>2 DEF Printed
<1>3. CASE Collect
  <2> SUFFICES ASSUME S.period PROVE dat' = "new" /\ samples' = Collected(dirs, S.sources)
    BY <1>1, <1>3 DEF Printed, Collect
  <2>1. \A r \in Runs : RunGood(r)
    BY <1>3 DEF Collect, RunsGood, Through
  <2> QED BY <1>3, <2>1, CollectorPasses DEF Collect
<1>4. CASE Report
  <2>1. pc = "report" /\ UNCHANGED <<dirs, dat, samples>>
    BY <1>4 DEF Report
  <2> SUFFICES ASSUME S.period PROVE reported' \in {"means", "deviations"}
    BY <1>1, <2>1 DEF Printed
  <2>2. dat = "new"
    BY <2>1 DEF Printed
  <2> QED BY <1>4, <2>2 DEF Report
<1>5. CASE pc' = pc /\ pc \in {"report", "done"}
  BY <1>1, <1>5, NothingWritten DEF Printed
<1>6. \/ pc' \notin {"report", "done"} \/ Collect \/ Report
      \/ pc' = pc /\ pc \in {"report", "done"}
  <2>1. CASE \E m \in Machines : Begin(m) \/ Stall(m) \/ Open(m) \/ Parse(m)
    BY <2>1 DEF Begin, Stall, Open, Parse
  <2>2. CASE Attached \/ StopTracing \/ Dumped \/ Tick \/ CopyNext \/ UNCHANGED vars
    BY <2>2, CopyFrame DEF Attached, StopTracing, Dumped, Tick, vars
  <2>3. CASE Cleanup \/ Start \/ Interrupt \/ Settle \/ Period \/ EndRun
    BY <2>3 DEF Cleanup, Start, Interrupt, Settle, Period, EndRun
  <2> QED BY <2>1, <2>2, <2>3 DEF Next, Done
<1> QED BY <1>2, <1>3, <1>4, <1>5, <1>6

LEMMA WholeInit ==
  ASSUME Init
  PROVE  AtRest /\ WholeInv
<1>1. pc = "cleanup" /\ run = 0
  BY DEF Init
<1>2. rec["local"].st = "off"
  BY DEF Init, Machines, Idle
<1>3. AtRest
  BY <1>1, <1>2 DEF AtRest
<1>4. RecordersGood /\ CopiesGood /\ TputGood /\ Printed
  BY <1>1 DEF RecordersGood, Recording, CopiesGood, CopyMade, TputGood, Printed
<1>5. RunsGood
  BY <1>1 DEF RunsGood, Through, Runs
<1> QED BY <1>3, <1>4, <1>5 DEF WholeInv

LEMMA WholeNext ==
  ASSUME StatsInv, Copying, Misc, AtRest, WholeInv, [Next]_vars
  PROVE  AtRest' /\ WholeInv'
<1>1. AtRest'
  BY AtRestNext
<1>2. ASSUME Clean'
      PROVE  RecordersGood' /\ CopiesGood' /\ TputGood' /\ RunsGood' /\ Printed'
  <2>1. Clean /\ RecordersGood /\ CopiesGood /\ TputGood /\ RunsGood /\ Printed
    BY <1>2, CleanBefore DEF WholeInv
  <2>2. KeepsGood
    BY <1>2, <2>1, FilesGood
  <2>3. RecordersGood'
    BY <1>2, <2>1, <2>2, RecordersGoodNext
  <2>4. CopiesGood'
    BY <1>2, <2>1, <2>2, CopiesGoodNext
  <2>5. TputGood'
    BY <1>2, <2>1, <2>2, TputGoodNext
  <2>6. RunsGood'
    BY <2>1, <2>2, RunsGoodNext
  <2>7. Printed'
    BY <2>1, PrintedNext
  <2> QED BY <2>3, <2>4, <2>5, <2>6, <2>7
<1> QED BY <1>1, <1>2 DEF WholeInv

\* A collector given good reports takes one sample of each from each run.
LEMMA OneSample ==
  ASSUME StatsInv, S.period, NEW r \in Runs, RunGood(r),
         NEW k \in {"iperf", "retx", "cpu", "pcie"}, samples = Collected(dirs, S.sources)
  PROVE  LET f == dirs[r][S.sources[k]]
         IN  f \in Files /\ Good(f) /\ {s \in Of(samples, k) : s.run = r} = {Sample(k, r, f)}
<1> DEFINE src == S.sources
           f == dirs[r][src[k]]
<1>1. script \in Scripts /\ dirs \in [Runs -> [Names -> Files]] /\ k \in Kinds
  BY DEF StatsInv, DirsInv, Types, Kinds
<1>2. src[k] \in Names
  BY <1>1, SourceNames
<1> HIDE DEF src
<1>3. f \in Files
  BY <1>1, <1>2
<1>4. Good(f)
  BY <1>1, SourceGood DEF src
<1>5. Adds(k, f)
  BY <1>4 DEF Adds, Good
<1>6. Sample(k, r, f) \in samples
  <2>1. samples = Collected(dirs, src)
    BY DEF src
  <2>2. r \in DOMAIN dirs
    BY <1>1
  <2>3. Sample(k, r, f).kind = k /\ Sample(k, r, f).file = f
    BY DEF Sample
  <2> QED BY <1>1, <1>5, <2>1, <2>2, <2>3 DEF Collected
<1>7. ASSUME NEW s \in samples, s.kind = k, s.run = r
      PROVE  s = Sample(k, r, f)
  <2>1. PICK j \in Kinds, q \in DOMAIN dirs : s = Sample(j, q, dirs[q][src[j]])
    BY DEF Collected, src
  <2>2. j = k /\ q = r
    BY <1>7, <2>1 DEF Sample
  <2> QED BY <2>1, <2>2
<1>8. Sample(k, r, f).kind = k /\ Sample(k, r, f).run = r
  BY DEF Sample
<1> HIDE DEF f
<1>9. {s \in Of(samples, k) : s.run = r} = {Sample(k, r, f)}
  BY <1>6, <1>7, <1>8 DEF Of
<1> QED BY <1>3, <1>4, <1>9 DEF f, src
-----------------------------------------------------------------------------
(* Where every report in the directories comes from, and when it was opened, *)
(* for any number of runs and whatever fails: the invariant the two          *)
(* properties below rest on.                                                 *)
THEOREM ExperimentStats == Spec => [](StatsInv /\ Copying)
<1>1. StatsInv /\ Copying /\ [Next]_vars => (StatsInv /\ Copying)'
  BY StatsNext, CopyingNext
<1> QED BY InitStats, <1>1, PTL DEF Spec

(* What the script's own machine recorded is never of an earlier invocation, *)
(* as record-host-metrics.sh opens every report before its parser runs and   *)
(* the script waits for it.                                                  *)
THEOREM ExperimentLocalNeverStale == Spec => []LocalNeverStale
<1>1. StatsInv => LocalNeverStale
  BY DEF StatsInv
<1> QED BY ExperimentStats, <1>1, PTL

(* The retransmission rate that is reported is that of the sending machine.  *)
THEOREM ExperimentRetxFromSender == Spec => []RetxFromSender
<1>1. StatsInv => RetxFromSender
  BY DEF StatsInv
<1> QED BY ExperimentStats, <1>1, PTL

(* Every variable has its type, for any number of runs and however long the  *)
(* loader takes; a recorder without metrics left is off, and no other is.    *)
THEOREM ExperimentTypeOK == Spec => []TypeOK
<1>1. Init => Misc /\ LoaderOK
  BY InitMisc
<1>2. StatsInv /\ Misc /\ LoaderOK /\ [Next]_vars => (Misc /\ LoaderOK)'
  BY MiscNext, LoaderNext
<1>3. StatsInv /\ Misc /\ LoaderOK => TypeOK
  <2> SUFFICES ASSUME StatsInv, Misc, LoaderOK PROVE TypeOK
    OBVIOUS
  <2>1. Types /\ Todo
    BY DEF StatsInv, DirsInv
  <2>2. ASSUME NEW m \in Machines
        PROVE  /\ rec[m].st \in Stages /\ rec[m].todo \in Seq(Metric)
               /\ (rec[m].st = "off") = (rec[m].todo = <<>>)
    <3> DEFINE Q == Seq(Metric)
    <3>1. rec[m] \in [st : Stages, todo : Q]
      BY <2>1 DEF Types
    <3> HIDE DEF Q
    <3>2. rec[m].st \in Stages /\ rec[m].todo \in Q
      BY <3>1
    <3> QED BY <2>1, <3>2 DEF Q, Todo, TodoOf
  <2>3. loader \in [st : {"off", "attaching", "tracing", "dumping"},
                    t : 0 .. (1 + MaxAttach + MaxDump), stop : BOOLEAN]
    <3>1. loader.t \in 0 .. (1 + MaxAttach + MaxDump)
      BY BoundsAssumption DEF LoaderOK
    <3> QED BY <3>1 DEF LoaderOK
  <2> QED BY <2>1, <2>2, <2>3 DEF TypeOK, Types, Misc, Stages, Phases, Remotes
<1> QED BY ExperimentStats, <1>1, <1>2, <1>3, PTL DEF Spec

(* The loader attaches before the interrupt that ends the run and has        *)
(* written its report before the next cleanup kills it: the invariant that   *)
(* relates its clock to the recorder's and to the wait.                      *)
THEOREM ExperimentTrace == Spec => []TraceInv
<1>1. Init => TraceInv
  <2> SUFFICES ASSUME Init PROVE TraceInv
    OBVIOUS
  <2>1. Misc /\ LoaderOK
    BY InitMisc
  <2>2. LoaderInTime
    BY DEF Init, LoaderInTime, NoLoader
  <2>3. TraceWritten
    BY DEF Init, TraceWritten, Runs
  <2> QED BY <2>1, <2>2, <2>3 DEF TraceInv
<1>2. StatsInv /\ Copying /\ TraceInv /\ [Next]_vars => TraceInv'
  <2> SUFFICES ASSUME StatsInv, Copying, TraceInv, [Next]_vars PROVE TraceInv'
    OBVIOUS
  <2>1. Misc' /\ LoaderOK'
    BY MiscNext, LoaderNext DEF TraceInv
  <2>2. LoaderInTime'
    BY LoaderInTimeNext
  <2>3. TraceWritten'
    BY <2>2, TraceWrittenNext
  <2> QED BY <2>1, <2>2, <2>3 DEF TraceInv
<1> QED BY ExperimentStats, <1>1, <1>2, PTL DEF Spec

(* Every run that is cleaned up after has its own, complete tracer report:   *)
(* neither the SIGINT at its end nor the SIGKILL of cleanup() catches a       *)
(* loader that has not written it, as long as the waits outlast the loader.  *)
THEOREM ExperimentTraceSurvivesCleanup == Spec => []TraceSurvivesCleanup
<1>1. StatsInv /\ TraceInv => TraceSurvivesCleanup
  <2> SUFFICES ASSUME StatsInv, TraceInv, NEW r \in Runs,
                      (r < run /\ pc # "cleanup") \/ (r = run /\ Finished(r))
               PROVE  Traced(r)
    BY DEF TraceSurvivesCleanup, Traced
  <2>1. CASE r < run
    BY <2>1 DEF TraceInv, TraceWritten
  <2>2. CASE r = run /\ pc \in {"collect", "report", "done"}
    BY <2>2 DEF TraceInv, TraceWritten, LoaderInTime
  <2>3. ~(run < run)
    BY DEF StatsInv, DirsInv, Types, Runs
  <2> QED BY <2>1, <2>2, <2>3 DEF Finished
<1> QED BY ExperimentStats, ExperimentTrace, <1>1, PTL

(* When nothing failed and no copy came too early, every report the          *)
(* collector will read is whole from the moment its recorder is through with *)
(* it: the invariant that follows the reports through recorders, copies and  *)
(* runs, for any number of runs and however long the loader takes.           *)
THEOREM ExperimentWhole == Spec => [](AtRest /\ WholeInv)
<1>1. Init => Misc /\ AtRest /\ WholeInv
  BY InitMisc, WholeInit
<1>2. /\ StatsInv /\ Copying /\ Misc /\ AtRest /\ WholeInv /\ [Next]_vars
      => (Misc /\ AtRest /\ WholeInv)'
  BY MiscNext, WholeNext
<1> QED BY ExperimentStats, <1>1, <1>2, PTL DEF Spec

(* When nothing failed and no report was copied too early, the statistics    *)
(* that are printed have one sample of each metric from each run, whole and  *)
(* of this invocation.                                                       *)
THEOREM ExperimentOneFreshSamplePerRun == Spec => []OneFreshSamplePerRun
<1>1. StatsInv /\ WholeInv => OneFreshSamplePerRun
  <2> SUFFICES ASSUME StatsInv, WholeInv, pc = "done", S.period, mishaps = 0 /\ ~late
               PROVE  /\ reported \in {"means", "deviations"}
                      /\ \A k \in {"iperf", "retx", "cpu", "pcie"}, r \in Runs :
                           \E f \in Files :
                             /\ f.val = "good" /\ f.age = "new"
                             /\ {s \in Of(samples, k) : s.run = r} = {Sample(k, r, f)}
    BY DEF OneFreshSamplePerRun
  <2>1. RunsGood /\ Printed
    BY DEF WholeInv, Clean
  <2>2. reported \in {"means", "deviations"} /\ samples = Collected(dirs, S.sources)
    BY <2>1 DEF Printed
  <2>3. ASSUME NEW k \in {"iperf", "retx", "cpu", "pcie"}, NEW r \in Runs
        PROVE  \E f \in Files :
                 /\ f.val = "good" /\ f.age = "new"
                 /\ {s \in Of(samples, k) : s.run = r} = {Sample(k, r, f)}
    <3>1. RunGood(r)
      BY <2>1 DEF RunsGood, Through
    <3> QED BY <2>2, <3>1, OneSample DEF Good
  <2> QED BY <2>2, <2>3
<1> QED BY ExperimentStats, ExperimentWhole, <1>1, PTL
=============================================================================
