----------------------------- MODULE Experiment ----------------------------
(* An invocation of one of the experiment scripts (vm-run-, vm-tx-run-,     *)
(* tx-run- and run-dctcp-tput-experiment.sh): for each run it cleans up,    *)
(* starts the tracer's loader and the recorders of the client and the host, *)
(* records on its own machine, stops the tracer, copies the remote reports, *)
(* waits, computes the throughput; after the last run it collects the       *)
(* statistics, which report-tput-metrics.py then prints.                    *)
(*                                                                          *)
(* The unit of time is CORE_DURATION_S, what a recorder measures a metric   *)
(* for.  Everything else the script does takes no time.                     *)
EXTENDS Reports

CONSTANTS Scripts,      \* names of the scripts that may be invoked
          NumRuns,      \* NUM_RUNS
          MaxAttach,    \* the longest the loader takes to attach its probes
          MaxDump,      \* and to write its report
          MaxMishaps    \* bound on the failures injected

ASSUME ScriptsAssumption == Scripts \subseteq {"VmRx", "VmTx", "Tx", "Rx"}
ASSUME NumRunsAssumption == NumRuns \in Nat \ {0}
ASSUME BoundsAssumption == MaxAttach \in Nat /\ MaxDump \in Nat /\ MaxMishaps \in Nat

Copy(from, metric, to) == [from |-> from, metric |-> metric, to |-> to]

\* What the scripts differ in: what each machine records, which reports are
\* copied under which name, whether the loader is given a duration, whether
\* memory is sampled and the throughput computed, whether a run ends with
\* a cleanup, the wait after the copies, and the collector's files.
VmRx == [records |-> [local |-> <<"cpu", "retx">>, client |-> <<"cpu", "retx">>,
                      host |-> <<"retx", "pcie">>],
         copies |-> <<Copy("client", "retx", "client-retx"),
                      Copy("host", "retx", "host-retx"),
                      Copy("host", "pcie", "host-pcie")>>,
         timed |-> TRUE, mem |-> TRUE, period |-> TRUE, cleanupAtEnd |-> FALSE,
         settle |-> 2, sources |-> VmRxSources, sender |-> "client"]
VmTx == [VmRx EXCEPT !.mem = FALSE, !.sources = VmTxSources, !.sender = "local"]
Tx ==   [VmTx EXCEPT !.records = [local |-> <<"cpu", "retx", "pcie">>,
                                  client |-> <<"cpu", "retx">>, host |-> <<>>],
                     !.copies = <<Copy("client", "retx", "client-retx")>>,
                     !.sources = TxSources]
Rx ==   [Tx EXCEPT !.copies = <<Copy("client", "retx", "retx")>>,
                   !.timed = FALSE, !.period = FALSE, !.cleanupAtEnd = TRUE,
                   !.sources = RxSources, !.sender = "client"]
Table == [VmRx |-> VmRx, VmTx |-> VmTx, Tx |-> Tx, Rx |-> Rx]

\* The scripts' waits outlast the loader: it attaches before the last of the
\* local metrics is recorded, and writes its report within the settling wait.
ASSUME WaitsAssumption ==
  \A s \in Scripts : /\ MaxAttach < Len(Table[s].records["local"])
                     /\ MaxDump < Table[s].settle

Runs == 0 .. NumRuns - 1
Names == {"cpu", "retx", "pcie", "client-retx", "host-retx", "host-pcie",
          "host-membw", "membw", "iperf", "mem", "ebpf"}
Metric == {"cpu", "retx", "pcie"}

VARIABLES script,    \* the script invoked
          earlier,   \* whether it was invoked before under the same name
          run,       \* j
          pc,        \* the phase it is in
          left,      \* units of the wait that remain, or copies to make
          dirs,      \* the reports directory of each run on its own machine
          remote,    \* the directories of this run on the client and the host
          rec,       \* record-host-metrics.sh on each machine
          loader,    \* guest_loader or host_loader
          dat,       \* tput_metrics.dat: of no, an old or this invocation
          samples,   \* what the collector put into it
          reported,  \* what report-tput-metrics.py printed
          mishaps,   \* failures injected so far
          late       \* a report was copied before its recorder wrote it
vars == <<script, earlier, run, pc, left, dirs, remote, rec, loader, dat, samples,
          reported, mishaps, late>>

S == Table[script]
Idle == [st |-> "off", todo |-> <<>>]
NoLoader == [st |-> "off", t |-> 0, stop |-> FALSE]

\* A report of the earlier invocation, where that wrote one.
OldReport(written, by) == IF earlier /\ written THEN File("good", by, "old") ELSE NoFile

Recorded(s, m, x) == \E i \in DOMAIN s.records[m] : s.records[m][i] = x
CopiedFrom(s, n) == {s.copies[i].from : i \in {j \in DOMAIN s.copies : s.copies[j].to = n}}
OldDir ==
  [n \in Names |->
     IF CopiedFrom(S, n) # {} THEN OldReport(TRUE, CHOOSE m \in CopiedFrom(S, n) : TRUE)
     ELSE OldReport(\/ n \in Metric /\ Recorded(S, "local", n)
                    \/ n = "iperf" /\ S.period
                    \/ n = "mem" /\ S.mem
                    \/ n = "ebpf", "local")]
OldRemote ==
  [m \in {"client", "host"} |-> [x \in Metric |-> OldReport(Recorded(S, m, x), m)]]

Init ==
  /\ script \in Scripts
  /\ earlier \in BOOLEAN
  /\ dirs = [r \in Runs |-> OldDir]
  /\ remote = OldRemote
  /\ dat = IF earlier /\ S.period THEN "old" ELSE "none"
  /\ run = 0
  /\ pc = "cleanup"
  /\ left = 0
  /\ rec = [m \in Machines |-> Idle]
  /\ loader = NoLoader
  /\ samples = {}
  /\ reported = "nothing"
  /\ mishaps = 0
  /\ late = FALSE

\* A step that is a failure if cond holds.
Failing(cond) ==
  IF cond THEN mishaps < MaxMishaps /\ mishaps' = mishaps + 1 ELSE UNCHANGED mishaps

-----------------------------------------------------------------------------
(* cleanup(): the loader is sent SIGINT and at once SIGKILL, the screen     *)
(* sessions of the remote recorders are quit.                               *)

KillLoader == loader' = NoLoader
\* Mutant: the session is gone, its list of metrics is not.
QuitScreensHalf == rec' = [rec EXCEPT !["client"].st = "off", !["host"].st = "off"]

QuitScreens == rec' = [rec EXCEPT !["client"] = Idle, !["host"] = Idle]

Cleanup ==
  /\ pc = "cleanup"
  /\ KillLoader
  /\ QuitScreens
  /\ dirs' = IF S.mem THEN [dirs EXCEPT ![run]["mem"] = MemReport(@)] ELSE dirs
  /\ pc' = "start"
  /\ UNCHANGED <<script, earlier, run, left, remote, dat, samples, reported, mishaps, late>>

\* The loader truncates its report and attaches; the remote recorders'
\* sessions are detached at once; the local recorder runs in the foreground.
Start ==
  /\ pc = "start"
  /\ loader' = [NoLoader EXCEPT !.st = "attaching"]
  /\ dirs' = [dirs EXCEPT ![run]["ebpf"] = File("empty", "local", "new")]
  /\ rec' = [m \in Machines |->
               IF S.records[m] = <<>> THEN rec[m]
               ELSE [st |-> IF m = "local" THEN "measuring" ELSE "due",
                     todo |-> S.records[m]]]
  /\ pc' = "record"
  /\ UNCHANGED <<script, earlier, run, left, remote, dat, samples, reported, mishaps, late>>

-----------------------------------------------------------------------------
(* record-host-metrics.sh: one metric after the other.                      *)

\* A detached session gets going at once, or whenever its machine gets to
\* it: a stalled one may not have begun before cleanup() quits it.
Begin(m) ==
  /\ rec[m].st \in {"due", "stalled"}
  /\ rec' = [rec EXCEPT ![m].st = "measuring"]
  /\ UNCHANGED <<script, earlier, run, pc, left, dirs, remote, loader, dat, samples,
                 reported, mishaps, late>>

Stall(m) ==
  /\ rec[m].st = "due"
  /\ Failing(TRUE)
  /\ rec' = [rec EXCEPT ![m].st = "stalled"]
  /\ UNCHANGED <<script, earlier, run, pc, left, dirs, remote, loader, dat, samples,
                 reported, late>>

\* File x in machine m's directory of this run.
Write(m, x, f) ==
  IF m = "local"
  THEN dirs' = [dirs EXCEPT ![run][x] = f] /\ UNCHANGED remote
  ELSE remote' = [remote EXCEPT ![m][x] = f] /\ UNCHANGED dirs

\* Mutant: the report is only written when its parser succeeds.
OpenOnSuccess(m) ==
  /\ rec[m].st = "measured"
  /\ rec' = [rec EXCEPT ![m].st = "parsing"]
  /\ UNCHANGED <<script, earlier, run, pc, left, dirs, remote, loader, dat, samples,
                 reported, mishaps, late>>

\* The shell opens the report for the parser.
Open(m) ==
  /\ rec[m].st = "measured"
  /\ Write(m, Head(rec[m].todo), File("empty", m, "new"))
  /\ rec' = [rec EXCEPT ![m].st = "parsing"]
  /\ UNCHANGED <<script, earlier, run, pc, left, loader, dat, samples, reported, mishaps, late>>

\* A parser that gives up leaves the report as it was opened.
Outcomes(x) ==
  CASE x = "cpu"  -> {CpuReport(log) : log \in SarLogs}
    [] x = "retx" -> {RetxReport(log) : log \in NetstatLogs}
    [] x = "pcie" -> {PcieReport(rows) : rows \in PcieLogs}

Parse(m) ==
  /\ rec[m].st = "parsing"
  /\ \E v \in Outcomes(Head(rec[m].todo)) :
        /\ Failing(v # "good")
        /\ IF v = "empty" THEN UNCHANGED <<dirs, remote>>
           ELSE Write(m, Head(rec[m].todo), File(v, m, "new"))
  /\ rec' = [rec EXCEPT ![m] = IF Len(@.todo) = 1 THEN Idle
                               ELSE [st |-> "measuring", todo |-> Tail(@.todo)]]
  /\ UNCHANGED <<script, earlier, run, pc, left, loader, dat, samples, reported, late>>

-----------------------------------------------------------------------------
(* The loader.  Its report is written when it leaves its loop; a SIGINT     *)
(* that comes before the handler is installed ends it as SIGKILL does.      *)

Attached ==
  /\ loader.st = "attaching"
  /\ loader' = [loader EXCEPT !.st = "tracing", !.t = 0]
  /\ UNCHANGED <<script, earlier, run, pc, left, dirs, remote, rec, dat, samples,
                 reported, mishaps, late>>

Leaves == loader.st = "tracing" /\ (loader.stop \/ (S.timed /\ loader.t >= 1))

StopTracing ==
  /\ Leaves
  /\ loader' = [loader EXCEPT !.st = "dumping", !.t = 0]
  /\ UNCHANGED <<script, earlier, run, pc, left, dirs, remote, rec, dat, samples,
                 reported, mishaps, late>>

Dumped ==
  /\ loader.st = "dumping"
  /\ loader' = NoLoader
  /\ dirs' = [dirs EXCEPT ![run]["ebpf"].val = "good"]
  /\ UNCHANGED <<script, earlier, run, pc, left, remote, rec, dat, samples, reported, mishaps, late>>

\* Time passes while the script waits and nothing is about to happen.
MayWait ==
  /\ pc \in {"record", "settle"}
  /\ pc = "record" => rec["local"].st = "measuring"
  /\ pc = "settle" => left > 0
  /\ \A m \in Machines : rec[m].st \notin {"due", "measured", "parsing"}
  /\ ~Leaves
  /\ loader.st = "attaching" => loader.t < MaxAttach
  /\ loader.st = "dumping" => loader.t < MaxDump

\* Mutant: the wait is not counted down.
TickNotCounted ==
  /\ MayWait
  /\ rec' = [m \in Machines |-> IF rec[m].st = "measuring" THEN [rec[m] EXCEPT !.st = "measured"]
                                ELSE rec[m]]
  /\ loader' = IF loader.st = "off" \/ (loader.st = "tracing" /\ ~S.timed) THEN loader
               ELSE [loader EXCEPT !.t = @ + 1]
  /\ left' = left
  /\ UNCHANGED <<script, earlier, run, pc, dirs, remote, dat, samples, reported, mishaps, late>>

Tick ==
  /\ MayWait
  /\ rec' = [m \in Machines |-> IF rec[m].st = "measuring" THEN [rec[m] EXCEPT !.st = "measured"]
                                ELSE rec[m]]
  /\ loader' = IF loader.st = "off" \/ (loader.st = "tracing" /\ ~S.timed) THEN loader
               ELSE [loader EXCEPT !.t = @ + 1]
  /\ left' = IF pc = "settle" THEN left - 1 ELSE left
  /\ UNCHANGED <<script, earlier, run, pc, dirs, remote, dat, samples, reported, mishaps, late>>

-----------------------------------------------------------------------------
(* The script, after its recorder has returned.                             *)

\* SIGINT to the loader.
Interrupt ==
  /\ pc = "record"
  /\ rec["local"].st = "off"
  /\ loader' = CASE loader.st = "attaching" -> NoLoader
                 [] loader.st = "tracing" -> [loader EXCEPT !.stop = TRUE]
                 [] OTHER -> loader
  /\ pc' = "copy"
  /\ left' = Len(S.copies)
  /\ UNCHANGED <<script, earlier, run, dirs, remote, rec, dat, samples, reported, mishaps, late>>

\* The reports are copied in order; a copy that fails leaves the file that
\* is there, and the script goes on.
Pending(m, x) == rec[m].st # "off" /\ \E i \in DOMAIN rec[m].todo : rec[m].todo[i] = x

CopyNext ==
  /\ pc = "copy"
  /\ left > 0
  /\ LET c == S.copies[Len(S.copies) - left + 1]
         f == remote[c.from][c.metric]
     IN  \/ /\ f # NoFile
            /\ dirs' = [dirs EXCEPT ![run][c.to] = f]
            /\ late' = (late \/ Pending(c.from, c.metric))
            /\ UNCHANGED mishaps
         \/ /\ Failing(f # NoFile)
            /\ late' = (late \/ f = NoFile)
            /\ UNCHANGED dirs
  /\ left' = left - 1
  /\ UNCHANGED <<script, earlier, run, pc, remote, rec, loader, dat, samples, reported>>

\* Mutant: no wait after the copies.
SettleNot ==
  /\ pc = "copy"
  /\ left = 0
  /\ pc' = "settle"
  /\ UNCHANGED <<script, earlier, run, left, dirs, remote, rec, loader, dat, samples,
                 reported, mishaps, late>>

Settle ==
  /\ pc = "copy"
  /\ left = 0
  /\ left' = S.settle
  /\ pc' = "settle"
  /\ UNCHANGED <<script, earlier, run, dirs, remote, rec, loader, dat, samples, reported,
                 mishaps, late>>

\* The throughput is computed from the iperf logs, where the script does so.
Period ==
  /\ pc = "settle"
  /\ left = 0
  /\ \/ /\ S.period
        /\ \E log \in IperfLogs :
              /\ Failing(log # "busy")
              /\ dirs' = [dirs EXCEPT ![run]["iperf"] = PeriodReport(@, log)]
     \/ ~S.period /\ UNCHANGED <<dirs, mishaps>>
  /\ pc' = "endrun"
  /\ UNCHANGED <<script, earlier, run, left, remote, rec, loader, dat, samples, reported, late>>

EndRun ==
  /\ pc = "endrun"
  /\ IF S.cleanupAtEnd \/ run = NumRuns - 1 THEN KillLoader /\ QuitScreens
     ELSE UNCHANGED <<loader, rec>>
  /\ IF run < NumRuns - 1
     THEN /\ run' = run + 1
          /\ pc' = "cleanup"
          /\ remote' = OldRemote
     ELSE pc' = "collect" /\ UNCHANGED <<run, remote>>
  /\ UNCHANGED <<script, earlier, left, dirs, dat, samples, reported, mishaps, late>>

\* The collector writes tput_metrics.dat, or ends with the old one there.
Collect ==
  /\ pc = "collect"
  /\ IF CollectFails(dirs, S.sources) THEN UNCHANGED <<dat, samples>>
     ELSE dat' = "new" /\ samples' = Collected(dirs, S.sources)
  /\ pc' = "report"
  /\ UNCHANGED <<script, earlier, run, left, dirs, remote, rec, loader, reported, mishaps, late>>

\* report-tput-metrics.py prints the row that is there, and where it has
\* deviations, those after going over the runs.
Report ==
  /\ pc = "report"
  /\ reported' =
       CASE dat = "none" -> "nothing"
         [] dat = "old" -> "old"
         [] OTHER -> IF Metrics(samples)["iperf"].stdev /\ PrintsRuns(dirs) THEN "deviations" ELSE "means"
  /\ pc' = "done"
  /\ UNCHANGED <<script, earlier, run, left, dirs, remote, rec, loader, dat, samples, mishaps, late>>

Done == pc = "done" /\ UNCHANGED vars

Next ==
  \/ Cleanup \/ Start
  \/ \E m \in Machines : Begin(m) \/ Stall(m) \/ Open(m) \/ Parse(m)
  \/ Attached \/ StopTracing \/ Dumped
  \/ Tick
  \/ Interrupt \/ CopyNext \/ Settle \/ Period \/ EndRun
  \/ Collect \/ Report
  \/ Done

\* Programs and shells run on: some step that is enabled is taken.
Spec == Init /\ [][Next]_vars /\ WF_vars(Next)

-----------------------------------------------------------------------------
(* Properties *)

TypeOK ==
  /\ script \in Scripts /\ earlier \in BOOLEAN
  /\ run \in Runs /\ left \in 0 .. 3
  /\ pc \in {"cleanup", "start", "record", "copy", "settle", "endrun", "collect",
             "report", "done"}
  /\ dirs \in [Runs -> [Names -> Files]]
  /\ remote \in [{"client", "host"} -> [Metric -> Files]]
  /\ \A m \in Machines :
        /\ rec[m].st \in {"off", "due", "stalled", "measuring", "measured", "parsing"}
        /\ rec[m].todo \in Seq(Metric)
        /\ (rec[m].st = "off") = (rec[m].todo = <<>>)
  /\ loader \in [st : {"off", "attaching", "tracing", "dumping"},
                 t : 0 .. (1 + MaxAttach + MaxDump), stop : BOOLEAN]
  /\ dat \in {"none", "old", "new"}
  /\ reported \in {"nothing", "old", "means", "deviations"}
  /\ mishaps \in 0 .. MaxMishaps /\ late \in BOOLEAN

Finished(r) == r < run \/ pc \in {"collect", "report", "done"}

\* The SIGKILL that cleanup() sends right after its SIGINT, and the SIGINT
\* that ends a run, never catch a loader that has not written its report:
\* every run that is cleaned up after has its own, complete tracer report.
TraceSurvivesCleanup ==
  \A r \in Runs : (r < run /\ pc # "cleanup") \/ (r = run /\ Finished(r)) =>
     dirs[r]["ebpf"] = File("good", "local", "new")

\* The retransmission rate the collector reports is of the machine that
\* sends, which is where record-host-metrics.sh asks for it to be taken,
\* whatever reports are missing or left over.
RetxFromSender == \A s \in Of(samples, "retx") : s.file.by = S.sender

\* When nothing failed and no report was copied too early, the statistics
\* are printed and are of this invocation alone: each run gives one sample of
\* each metric its recorders measured, none missing, none counted as zero
\* for want of its file, none left by an earlier invocation.
OneFreshSamplePerRun ==
  pc = "done" /\ S.period /\ mishaps = 0 /\ ~late =>
     /\ reported \in {"means", "deviations"}
     /\ \A k \in {"iperf", "retx", "cpu", "pcie"}, r \in Runs :
          \E f \in Files : /\ f.val = "good" /\ f.age = "new"
                          /\ {s \in Of(samples, k) : s.run = r} = {Sample(k, r, f)}

\* What the script's own machine recorded is never of an earlier
\* invocation, whatever failed: the shell truncates a report before its
\* parser gets to fail.  (A copied report and the throughput may be.)
LocalNeverStale ==
  \A s \in samples : s.kind \in Metric /\ s.file.by = "local" => s.file.age # "old"

\* An invocation comes to its end, whatever fails on the way.
InvocationEnds == <>(pc = "done")
=============================================================================
