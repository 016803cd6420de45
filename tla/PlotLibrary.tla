---------------------------- MODULE PlotLibrary ----------------------------
(* What the plotting functions of src/plots do with the results they read.  *)
(* A result is the experiment it comes from: what the bar of a figure       *)
(* shows is the experiment whose directory the value was read from, or no   *)
(* data, which is drawn as a bar of height zero.                            *)
EXTENDS Integers, Sequences, SequencesExt

\* An experiment of the sweep: the traffic it measures, the configuration of
\* the IOMMU it runs under and the point of the sweep.
Exp(traffic, cfg, x) == [traffic |-> traffic, cfg |-> cfg, x |-> x]
NoData == Exp("none", "none", 0)
Exps(traffic, cfg, xs) == [i \in DOMAIN xs |-> Exp(traffic, cfg, xs[i])]

\* A list of experiments whose name the script never assigns.
Undefined == <<NoData>>

\* One experiment may be without its tput_metrics.dat, or without traces, or
\* the script (no experiment) without its directory csvs.
Missing(e, what) == [exp |-> e, what |-> what]
HasTable(e, missing) == e # NoData /\ missing # Missing(e, "table")
HasTrace(e, missing) == HasTable(e, missing) /\ missing.exp # e

-----------------------------------------------------------------------------
(* Reading.  *)

\* Mutant: get_data goes on with the files it finds.
ReadableInPart(list, missing) == \E i \in DOMAIN list : HasTable(list[i], missing)

\* genfromtxt raises an exception for a file that is not there.
Readable(list, missing) == \A i \in DOMAIN list : HasTable(list[i], missing)

\* Mutant: an experiment without traces is passed over.
TracesFound(list, missing) ==
  SelectSeq(list, LAMBDA e : HasTrace(e, missing))

\* get_ebpf_stats: one entry per experiment, None for one without traces.
EbpfStats(list, missing) ==
  [i \in DOMAIN list |-> IF HasTrace(list[i], missing) THEN list[i] ELSE NoData]

\* It also saves what it averages; to_csv raises when there is no directory csvs.
Savable(list, missing) ==
  \A i \in DOMAIN list : HasTrace(list[i], missing) => missing.what # "csvs"

GetData(list, missing) == [data |-> list, ebpf |-> EbpfStats(list, missing)]

-----------------------------------------------------------------------------
(* Drawing.  A plot is named by what it takes its values from, the tables,  *)
(* a traced function or the ratio of two of them, and by its metric.        *)

Subplots == <<<<"table", "tput">>, <<"table", "cpu-util">>, <<"table", "drop-rate">>>>

EbpfMetrics == <<"count", "mean_ns", "total_time", "count_per_page">>
SelectedFunctions(functions) ==
  [k \in 1 .. 4 * Len(functions) |->
     <<functions[(k + 3) \div 4], EbpfMetrics[((k - 1) % 4) + 1]>>]

CoalesceRatio == <<<<"ratio", "unmap_to_qi_submit_ratio">>>>

FromTraces(plot) == plot[1] # "table"

\* A figure: where it is saved, the traffic and the x labels it announces,
\* its series as pairs of a legend and the list that was read for it, and the
\* calls of the three functions above in their order.
Fig(dir, title, traffic, labels, series, plots) ==
  [dir |-> dir, title |-> title, traffic |-> traffic, labels |-> labels,
   series |-> series, plots |-> plots]

FileOf(fig, plot) == <<fig.dir, fig.title, plot>>

\* Mutant: the bars are the values, however many there are.
Unpadded(values, n) == values

\* plot_bars_dynamic fills up with zeros, or cuts off, from the right.
Padded(values, n) ==
  [i \in 1 .. n |-> IF i <= Len(values) THEN values[i] ELSE NoData]

Drawing(fig, plot, read) ==
  [age |-> "new", traffic |-> fig.traffic, labels |-> fig.labels,
   series |-> [s \in DOMAIN fig.series |->
     LET got == read[fig.series[s][2]] IN
     [name |-> fig.series[s][1],
      bars |-> Padded(IF FromTraces(plot) THEN got.ebpf ELSE got.data,
                      Len(fig.labels))]]]

\* The plots of traces are skipped, all of them, once one of the lists is not
\* as long as the labels.
LengthMismatch(fig, read) ==
  \E s \in DOMAIN fig.series : Len(read[fig.series[s][2]].ebpf) # Len(fig.labels)

Drawn(fig, read) ==
  SelectSeq(fig.plots, LAMBDA p : FromTraces(p) => ~LengthMismatch(fig, read))
=============================================================================
