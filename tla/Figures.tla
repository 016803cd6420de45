------------------------------ MODULE Figures ------------------------------
(* A run of a plot script: it reads the lists of results of a function, one *)
(* after the other, and draws the function's figures over the files that    *)
(* earlier runs left in the same directories.                               *)
EXTENDS FigureTables, FiniteSets

CONSTANT Sessions
ASSUME SessionsAssumption == Sessions \subseteq DOMAIN Table

VARIABLES session,  \* what the script runs
          missing,  \* the experiment without results, and which it is without,
                    \* or that the directory csvs is not there
          disk,     \* the figures, by file
          block,    \* the function under way
          pc,       \* "read", "draw", "done" or "failed"
          pos,      \* the next list to read, or plot to draw
          read      \* the lists read so far

vars == <<session, missing, disk, block, pc, pos, read>>

Blocks(s) == Table[s]
Now == Blocks(session)[block]

Elements(seq) == {seq[i] : i \in DOMAIN seq}
ExperimentsOf(b) == UNION {Elements(l) : l \in Elements(b.reads)}
FilesOf(b) == UNION {{FileOf(f, p) : p \in Elements(f.plots)} : f \in Elements(b.figs)}
Experiments(s) == UNION {ExperimentsOf(b) : b \in Elements(Blocks(s))} \ {NoData}
Files(s) == UNION {FilesOf(b) : b \in Elements(Blocks(s))}

Blank(age) == [age |-> age, traffic |-> "none", labels |-> <<>>, series |-> <<>>]

\* The plots of the block, in order.
Jobs == FlattenSeq([i \in DOMAIN Now.figs |->
          LET f == Now.figs[i]
              drawn == Drawn(f, read)
          IN [k \in DOMAIN drawn |-> <<f, drawn[k]>>]])

Init ==
  /\ session \in Sessions
  /\ missing \in {Missing(NoData, "table"), Missing(NoData, "csvs")} \cup
                 {Missing(e, what) : <<e, what>> \in Experiments(session) \X {"table", "traces"}}
  /\ \E age \in {"none", "old"} : disk = [f \in Files(session) |-> Blank(age)]
  /\ block = 1 /\ pc = "read" /\ pos = 1 /\ read = <<>>

\* get_data reads the tables of a list and, with traces, saves their averages.
Gets(list) == Readable(list, missing) /\ (Now.traces => Savable(list, missing))

ReadList ==
  /\ pc = "read"
  /\ Gets(Now.reads[pos])
  /\ read' = Append(read, GetData(Now.reads[pos], missing))
  /\ IF pos < Len(Now.reads) THEN pc' = "read" /\ pos' = pos + 1
                             ELSE pc' = "draw" /\ pos' = 1
  /\ UNCHANGED <<session, missing, disk, block>>

\* Nothing catches the exception.
ReadFails ==
  /\ pc = "read"
  /\ ~Gets(Now.reads[pos])
  /\ pc' = "failed"
  /\ UNCHANGED <<session, missing, disk, block, pos, read>>

DrawPlot ==
  /\ pc = "draw"
  /\ LET f == Jobs[pos][1]
         p == Jobs[pos][2]
     IN disk' = [disk EXCEPT ![FileOf(f, p)] = Drawing(f, p, read)]
  /\ \/ /\ pos < Len(Jobs)
        /\ pos' = pos + 1
        /\ UNCHANGED <<block, pc, read>>
     \/ /\ pos = Len(Jobs)
        /\ pos' = 1 /\ read' = <<>>
        /\ IF block < Len(Blocks(session))
             THEN pc' = "read" /\ block' = block + 1
             ELSE pc' = "done" /\ UNCHANGED block
  /\ UNCHANGED <<session, missing>>

Ended == pc \in {"done", "failed"} /\ UNCHANGED vars

Next == ReadList \/ ReadFails \/ DrawPlot \/ Ended

Spec == Init /\ [][Next]_vars

-----------------------------------------------------------------------------
\* A figure of this run has one bar per series and label.
TypeOK ==
  /\ session \in Sessions
  /\ DOMAIN disk = Files(session)
  /\ block \in DOMAIN Blocks(session)
  /\ pc \in {"read", "draw", "done", "failed"}
  /\ \A f \in DOMAIN disk : disk[f].age = "new" =>
       \A s \in DOMAIN disk[f].series :
          DOMAIN disk[f].series[s].bars = DOMAIN disk[f].labels

\* A figure is drawn from every experiment the function reads or not at all: a
\* lost tput_metrics.dat ends the script before the first figure of the
\* function that wants it (get_data reads all files before any is plotted).
AllOrNothing ==
  \A b \in Elements(Blocks(session)) :
     (\E f \in FilesOf(b) : disk[f].age = "new")
       => \A e \in ExperimentsOf(b) : HasTable(e, missing)

\* No figure drawn by a run is replaced by a later one of the same run: the
\* title and the directory are the only name a figure has.
NothingOverwritten ==
  [][\A f \in DOMAIN disk : disk[f].age = "new" => disk'[f] = disk[f]]_vars

\* A run that gets to its end leaves no figure of an earlier run behind, not
\* one of those that are skipped when a list of traces does not match the
\* labels: what lies in the directories is of one run.
OneInvocation ==
  pc = "done" => \A f \in DOMAIN disk : disk[f].age = "new"

-----------------------------------------------------------------------------
\* The configuration a legend names.
Legends == {
  <<"vIOMMU Off", "off">>, <<"vIOMMU Nested", "nested">>, <<"Guest Shadow", "shadow">>,
  <<"IOMMU Strict", "strict">>, <<"+ vFree", "iova-contig-cb-opt">>, <<"+ SBI", "iova-contig">>,
  <<"+ SBI + DFP", "iova-contig-cb-opt">>, <<"+ vF&S", "dlf-z1-dfp">>,
  <<"+ Async (pinned)", "async">>, <<"+ Async (DLF)", "dlf-z1">>,
  <<"+ Async (DLF) + DFP", "dlf-z1-dfp">>, <<"+ Queue + Batch (DLF)", "contig-dlf">>,
  <<"+ Queue + Batch (Pinned)", "iova-contig">>, <<"z=1", "dlf-z1">>, <<"z=10", "dlf-z10">>,
  <<"z=100", "dlf-z100">>, <<"z=100 + DFP", "dlf-z100-dfp">>}
Named(legend) == (CHOOSE l \in Legends : l[1] = legend)[2]

\* The bar over a label in a series is the experiment both name, and missing
\* only from a plot of traces the experiment has none of.
Labelled(f, fig) ==
  \A s \in DOMAIN fig.series, i \in DOMAIN fig.labels :
     LET e == Exp(fig.traffic, Named(fig.series[s].name), fig.labels[i]) IN
     fig.series[s].bars[i] =
       IF FromTraces(f[3]) /\ ~HasTrace(e, missing) THEN NoData ELSE e

AllLabelled ==
  \A f \in DOMAIN disk : disk[f].age = "new" => Labelled(f, disk[f])

\* Every bar of every figure is what its legend and its label say, whichever
\* experiment has lost its traces.
BarsAsLabelled == AllLabelled

\* The same of all functions but the three whose lists differ from their
\* labels: the two sensitivity figures (z=100) and the Tx motivation figure of
\* siyuan_Evaluation_main.py (no list entry for one core).
OthersAsLabelled ==
  session \notin {"main_sensitivity", "motivation_sensitivity", "main_motivation"}
    => AllLabelled
=============================================================================
