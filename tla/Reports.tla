------------------------------ MODULE Reports ------------------------------
(* The report files of a run: what the parsers in utils/ write into them    *)
(* and what the collectors in scripts/ read out of them.  A report is       *)
(* reduced to what its readers tell apart: whether it is there, whether it  *)
(* holds its value, the machine it was measured on and the invocation of    *)
(* the experiment script it comes from.                                     *)
EXTENDS Integers, Sequences, FiniteSets

Machines == {"local", "client", "host"}
Ages == {"old", "new", "mixed"}
Vals == {"empty", "blank", "zero", "good"}

NoFile == [val |-> "none", by |-> "local", age |-> "new"]
File(val, by, age) == [val |-> val, by |-> by, age |-> age]
Files == {NoFile} \cup [val : Vals, by : Machines, age : Ages]

-----------------------------------------------------------------------------
(* Parsers.  Each returns the value its report file ends up with: the shell *)
(* opened the file before the parser ran, so a parser that gives up leaves  *)
(* it without the lines the collectors look for.                            *)

\* cpu_util.py on a sar log: without the header it exits, and without a row
\* of samples the average of no cpus is a division by zero.
SarLogs == [header : BOOLEAN, rows : 0 .. 1]
CpuReport(log) == IF log.header /\ log.rows > 0 THEN "good" ELSE "empty"

\* print_retx_rate.py on the output of two netstat snapshots, as the number
\* of times each counter occurs in it: the first occurrence is the value
\* before, the last one after, and the asserts want both.  The counter of
\* lost retransmissions is not asserted.
Asserted == {"retransmitted", "sent", "received"}
NetstatLogs == {[c \in Asserted \cup {"lost"} |-> IF c \in lacking THEN 1 ELSE 2] :
                  lacking \in {{}, {"lost"}, {"sent"}}}
RetxReport(log) ==
  IF \A c \in Asserted : log[c] >= 2 THEN "good" ELSE "empty"

\* parse_pciebw averages no rows to zero when the counter tool left none.
PcieLogs == {0, 1}
PcieReport(rows) == IF rows = 0 THEN "zero" ELSE "good"

\* collect-period-tput.sh on the iperf logs: without a log it leaves the
\* report as it is; the last period that has a line becomes the average,
\* and no such period leaves the average blank.
IperfLogs == {"absent", "no_period", "idle", "busy"}
PeriodReport(old, log) ==
  CASE log = "absent"    -> old
    [] log = "no_period" -> File("blank", "local", "new")
    [] log = "idle"      -> File("zero", "local", "new")
    [] log = "busy"      -> File("good", "local", "new")

\* collect-mem-stats.sh appends to the csv that is there.
MemReport(old) ==
  File("good", "local", IF old = NoFile THEN "new" ELSE "mixed")

-----------------------------------------------------------------------------
(* Collectors.  A collector goes over the runs and adds to each metric what *)
(* it finds in the run's file; an exception outside a try ends it before    *)
(* anything is written.                                                     *)

Kinds == {"iperf", "mem", "retx", "membw", "cpu", "pcie"}

\* The files each collector takes its metrics from.
VmRxSources == [retx |-> "client-retx", membw |-> "host-membw", pcie |-> "host-pcie",
                iperf |-> "iperf", mem |-> "mem", cpu |-> "cpu"]

\* Mutant: the sender is taken to be the client.
VmTxAsVmRx == VmRxSources

VmTxSources == [VmRxSources EXCEPT !.retx = "retx"]

\* Mutant: file names of a virtual machine on bare metal.
TxAsVmTx == VmTxSources

TxSources == [VmTxSources EXCEPT !.membw = "membw", !.pcie = "pcie"]
RxSources == TxSources

\* A file whose open, or whose first float(), is not guarded.
Aborts(kind, f) ==
  \/ kind \in {"iperf", "retx", "cpu"} /\ f = NoFile
  \/ kind = "iperf" /\ f.val = "blank"

\* A file that adds a sample of its own.  A throughput has to be positive;
\* a report of zeros from the PCIe counters counts like any other.
Adds(kind, f) ==
  CASE kind = "iperf" -> f.val = "good"
    [] kind = "pcie"  -> f.val \in {"good", "zero"}
    [] OTHER          -> f.val = "good"

\* A file that is missing and counted as a zero all the same.
CountsAsZero(kind, f) == kind \in {"membw", "pcie"} /\ f = NoFile

Sample(kind, r, f) == [kind |-> kind, run |-> r, file |-> f]

\* dirs[r] are the files of run r, src the collector's file names.
CollectFails(dirs, src) ==
  \E r \in DOMAIN dirs, k \in Kinds : Aborts(k, dirs[r][src[k]])

Collected(dirs, src) ==
  {s \in {Sample(k, r, dirs[r][src[k]]) : k \in Kinds, r \in DOMAIN dirs} :
     Adds(s.kind, s.file) \/ CountsAsZero(s.kind, s.file)}

Of(samples, kind) == {s \in samples : s.kind = kind}

\* mean_or_zero and stdev_or_zero: the row of a metric in tput_metrics.dat
\* tells which of its two columns stand for samples.
Row(samples, kind) ==
  [mean  |-> Of(samples, kind) # {},
   stdev |-> Cardinality(Of(samples, kind)) > 1]
Metrics(samples) == [k \in Kinds |-> Row(samples, k)]

-----------------------------------------------------------------------------
(* report-tput-metrics.py: it prints the row, then goes over the runs'      *)
(* tracer reports, where a run with a tracer report and no throughput, or a *)
(* blank one, ends it before the deviations are printed.                    *)

TputOfRun(f) == IF f = NoFile THEN "none" ELSE IF f.val \in {"blank", "empty"} THEN "fails" ELSE "value"

PrintsRuns(dirs) ==
  \A r \in DOMAIN dirs :
     /\ TputOfRun(dirs[r]["iperf"]) # "fails"
     /\ dirs[r]["ebpf"].val = "good" => TputOfRun(dirs[r]["iperf"]) = "value"
=============================================================================
