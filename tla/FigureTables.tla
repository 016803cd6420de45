---------------------------- MODULE FigureTables ----------------------------
(* The figure functions of the plot scripts: the lists of experiments each  *)
(* reads, in order, and the figures it then draws from them.                *)
EXTENDS PlotLibrary

Block(reads, figs) == [reads |-> reads, figs |-> figs, traces |-> TRUE]

\* get_data(.., collect_ebpf=False)
WithoutTraces(b) == [b EXCEPT !.traces = FALSE]

C6  == <<4, 8, 12, 16, 20, 24>>
C7  == <<1>> \o C6
C28 == C6 \o <<28>>
Stressed == <<1, 2, 4, 8>>

F3 == <<"cache_tag_flush_range_np", "cache_tag_flush_range", "qi_submit_sync">>
F4 == Append(F3, "__iommu_dma_unmap")
F5 == F3 \o <<"intel_iommu_tlb_sync", "trace_qi_submit_sync_cs">>
Full(functions) == Subplots \o SelectedFunctions(functions)

OffNested(traffic, xs) == <<Exps(traffic, "off", xs), Exps(traffic, "nested", xs)>>
NestedOff(traffic, xs) == <<Exps(traffic, "nested", xs), Exps(traffic, "off", xs)>>
OffNestedSeries == <<<<"vIOMMU Off", 1>>, <<"vIOMMU Nested", 2>>>>
NestedOffSeries == <<<<"vIOMMU Off", 2>>, <<"vIOMMU Nested", 1>>>>

-----------------------------------------------------------------------------
(* siyuan_Evaluation_main.py *)

MainFlows == Block(<<Undefined, Exps("rx", "off", C7), Exps("rx", "shadow", C7)>>,
  <<Fig("Off_vs_Shadow_leshna", "emerald-rapids", "rx", C7,
        <<<<"vIOMMU Off", 2>>, <<"Guest Shadow", 3>>, <<"vIOMMU Nested", 1>>>>, Full(F3))>>)

MainMotivationRx == Block(NestedOff("rx", C7),
  <<Fig("Motivation_Rx", "motivation_rx", "rx", C7, NestedOffSeries, Subplots)>>)

\* The lists start at 4 cores, the labels at one.
MainMotivationTx == Block(NestedOff("tx", C6),
  <<Fig("Motivation_Tx", "motivation_tx_varying_cores", "tx", C7, NestedOffSeries, Subplots)>>)

MainCoresReads == OffNested("rx", C6) \o
  <<Exps("rx", "dlf-z1-dfp", C6), Exps("rx", "iova-contig-cb-opt", C6)>>
MainCores == Block(MainCoresReads,
  <<Fig("Siyuan_Evaluation_diff_cores", "eval_core_exp", "rx", C6,
        Append(OffNestedSeries, <<"+ vFree", 4>>), Full(F4) \o CoalesceRatio)>>)

MainStress == Block(Append(NestedOff("stress", Stressed), Exps("stress", "iova-contig-cb-opt", Stressed)),
  <<Fig("Siyuan_Evaluation_stress_exp", "stress_exp", "stress", Stressed,
        Append(NestedOffSeries, <<"+ vFree", 3>>), Full(F4) \o CoalesceRatio)>>)

MainTx == Block(OffNested("tx", C28) \o
                <<Exps("tx", "contig-dlf", C28), Exps("tx", "iova-contig-cb-opt", C28)>>,
  <<Fig("TX_EBPF_Evaluation", "tx-ebpf", "tx", C28,
        Append(OffNestedSeries, <<"+ vFree", 4>>), Full(F5))>>)

AblationReads(traffic) == OffNested(traffic, C6) \o
  <<Exps(traffic, "iova-contig", C6), Exps(traffic, "iova-contig-cb-opt", C6)>>
AblationSeries == OffNestedSeries \o <<<<"+ SBI", 3>>, <<"+ SBI + DFP", 4>>>>

\* Mutant: both bars of the ablation come from the same list.
AblationSeriesTwice == OffNestedSeries \o <<<<"+ SBI", 3>>, <<"+ SBI + DFP", 3>>>>

MainAblationRxReads == AblationReads("rx")
MainAblationRxSeries == AblationSeries
MainAblationRx == Block(MainAblationRxReads,
  <<Fig("Siyuan_Evaluation_ablation_RX", "eval_core_exp", "rx", C6, MainAblationRxSeries, Full(F3))>>)

\* The list of the third series is read from a name that is commented out.
MainAblationReads == Append(OffNested("rx", C6), Undefined)
MainAblation == Block(MainAblationReads,
  <<Fig("Siyuan_Evaluation_ablation", "eval_ablation_core_exp", "rx", C6,
        Append(OffNestedSeries, <<"+ Async (DLF)", 3>>), Full(F3))>>)

\* z_val_100 holds the directories of z=1.
SensitivityReads == OffNested("rx", C6) \o
  <<Exps("rx", "dlf-z1", C6), Exps("rx", "dlf-z10", C6), Exps("rx", "dlf-z1", C6),
    Exps("rx", "dlf-z1-dfp", C6), Exps("rx", "dlf-z10-dfp", C6), Exps("rx", "dlf-z100-dfp", C6)>>

\* Mutant: the title of the second figure is that of the first.
SensitivityDfpUntitled ==
  Fig("Siyuan_Evaluation_sensitivity", "eval_sensitivity_core_exp", "rx", C6,
      OffNestedSeries \o <<<<"z=100 + DFP", 6>>, <<"z=100 + DFP", 7>>, <<"z=100 + DFP", 8>>>>, Full(F3))

SensitivityDfp ==
  Fig("Siyuan_Evaluation_sensitivity", "eval_sensitivity_core_exp_dlf", "rx", C6,
      OffNestedSeries \o <<<<"z=100 + DFP", 6>>, <<"z=100 + DFP", 7>>, <<"z=100 + DFP", 8>>>>, Full(F3))
MainSensitivity == Block(SensitivityReads,
  <<Fig("Siyuan_Evaluation_sensitivity", "eval_sensitivity_core_exp", "rx", C6,
        OffNestedSeries \o <<<<"z=1", 3>>, <<"z=10", 4>>, <<"z=100", 5>>>>, Full(F3)),
    SensitivityDfp>>)

-----------------------------------------------------------------------------
(* siyuan_motivation_plot.py *)

\* The figure of the tables and that of the traces have titles of their own.
MotivationRx == Block(NestedOff("rx", C7),
  <<Fig("Motivation_Rx", "motivation_rx", "rx", C7, NestedOffSeries, Subplots),
    Fig("Motivation_Rx", "emerald-rapids", "rx", C7, NestedOffSeries, SelectedFunctions(F3))>>)

MotivationTx == Block(NestedOff("tx", C7),
  <<Fig("Motivation_Tx", "motivation_tx_varying_cores", "tx", C7, NestedOffSeries, Subplots)>>)

MotivationCoresReads == OffNested("rx", C6) \o
  <<Exps("rx", "no-map-contention", C6), Exps("rx", "async", C6), Exps("rx", "dlf-z1-dfp", C6)>>
MotivationCores == Block(MotivationCoresReads,
  <<Fig("Siyuan_Evaluation_diff_cores", "eval_core_exp", "rx", C6,
        Append(OffNestedSeries, <<"+ vF&S", 5>>), Full(F4))>>)

\* The last two lists are read and not drawn.
StressReads(zvals) ==
  <<Exps("stress", "nested", Stressed), Exps("stress", "async", Stressed),
    Exps("stress", "off", Stressed)>> \o
  [i \in DOMAIN zvals |-> Exps("stress", zvals[i], Stressed)]
StressSeries == <<<<"vIOMMU Off", 3>>, <<"vIOMMU Nested", 1>>, <<"+ vF&S", 4>>>>
MotivationStress == Block(StressReads([i \in 1 .. 3 |-> "dlf-z1-dfp"]),
  <<Fig("Siyuan_Evaluation_stress_exp", "stress_exp", "stress", Stressed, StressSeries, Full(F4))>>)

MotivationTxTraced == Block(OffNested("tx", C28) \o
                        <<Exps("tx", "contig-dlf", C28), Exps("tx", "iova-contig", C28)>>,
  <<Fig("TX_EBPF_Evaluation", "tx-ebpf", "tx", C28,
        OffNestedSeries \o <<<<"+ Queue + Batch (DLF)", 3>>, <<"+ Queue + Batch (Pinned)", 4>>>>,
        Full(F5))>>)

MotivationAblationReads == OffNested("rx", C6) \o
  <<Exps("rx", "no-map-contention", C6), Exps("rx", "async", C6),
    Exps("rx", "dlf-z1", C6), Exps("rx", "dlf-z1-dfp", C6)>>
MotivationAblation == Block(MotivationAblationReads,
  <<Fig("Siyuan_Evaluation_ablation", "eval_core_exp", "rx", C6,
        OffNestedSeries \o <<<<"+ Async (pinned)", 4>>, <<"+ Async (DLF)", 5>>, <<"+ Async (DLF) + DFP", 6>>>>,
        Full(F3))>>)

\* The second function of the same name, the one a caller reaches.
MotivationAblation2Reads == Append(MotivationAblationReads, Exps("rx", "async-dfp", C6))
MotivationAblation2 == Block(MotivationAblation2Reads,
  <<Fig("Siyuan_Evaluation_ablation", "eval_ablation_core_exp", "rx", C6,
        OffNestedSeries \o <<<<"+ Async (DLF)", 5>>, <<"+ Async (DLF) + DFP", 6>>>>, Full(F3))>>)

MotivationSensitivityReads == SensitivityReads
MotivationSensitivity == Block(MotivationSensitivityReads, MainSensitivity.figs)

-----------------------------------------------------------------------------
(* siyuan_Evaluation_Ablation.py *)

AblationRxReads == AblationReads("rx")
AblationRx == Block(AblationRxReads,
  <<Fig("Siyuan_Evaluation_ablation_RX", "eval_ablation_rx", "rx", C6, AblationSeries,
        Full(F3) \o CoalesceRatio)>>)

AblationTxReads == AblationReads("tx")
AblationTx == Block(AblationTxReads,
  <<Fig("Siyuan_Evaluation_ablation_TX", "eval_ablation_tx", "tx", C6, AblationSeries,
        Full(F3) \o CoalesceRatio)>>)

-----------------------------------------------------------------------------
(* leshna_plot_nested.py *)

LeshnaFlows == Block(Append(NestedOff("rx", C7), Exps("rx", "shadow", C7)),
  <<Fig("Off_vs_Shadow_leshna", "emerald-rapids", "rx", C7,
        <<<<"vIOMMU Off", 2>>, <<"Guest Shadow", 3>>, <<"vIOMMU Nested", 1>>>>, Full(F3))>>)

LeshnaCores == Block(MotivationCoresReads,
  <<Fig("Siyuan_Evaluation_diff_cores", "eval_core_exp", "rx", C6,
        Append(OffNestedSeries, <<"+ vF&S", 5>>), Full(F3))>>)

LeshnaStress == Block(StressReads(<<"dlf-z1-dfp", "dlf-z10-dfp", "dlf-z100-dfp">>),
  <<Fig("Siyuan_Evaluation_stress_exp", "stress_exp", "stress", Stressed, StressSeries, Full(F3))>>)

Baremetal(traffic) == <<Exps(traffic, "off", C28), Exps(traffic, "strict", C28)>>
BaremetalSeries == <<<<"vIOMMU Off", 1>>, <<"IOMMU Strict", 2>>>>
LeshnaBaremetalRx == WithoutTraces(Block(Baremetal("bm-rx"),
  <<Fig("RX_Baremetal_Evaluation", "rx-baremetal", "bm-rx", C28, BaremetalSeries, Subplots)>>))
LeshnaBaremetalTx == WithoutTraces(Block(Baremetal("bm-tx"),
  <<Fig("TX_Baremetal_Evaluation", "tx-baremetal", "bm-tx", C28, BaremetalSeries, Subplots)>>))

-----------------------------------------------------------------------------
(* leshna_plot_nested_siyuan_cp_6.12.9client.py, a copy whose main draws the *)
(* figure of siyuan_Evaluation_main.py.                                      *)

ClientTx == MainTx

-----------------------------------------------------------------------------
\* What is run at once: the main of each script, and each other function.
Table == [
  main_ablation_rx      |-> <<MainAblationRx>>,
  main_flows            |-> <<MainFlows>>,
  main_motivation       |-> <<MainMotivationRx, MainMotivationTx>>,
  main_cores            |-> <<MainCores>>,
  main_stress           |-> <<MainStress>>,
  main_tx               |-> <<MainTx>>,
  main_ablation         |-> <<MainAblation>>,
  main_sensitivity      |-> <<MainSensitivity>>,
  motivation_rx         |-> <<MotivationRx>>,
  motivation_tx         |-> <<MotivationTx>>,
  motivation_cores      |-> <<MotivationCores>>,
  motivation_stress     |-> <<MotivationStress>>,
  motivation_tx_traced  |-> <<MotivationTxTraced>>,
  motivation_ablation   |-> <<MotivationAblation>>,
  motivation_ablation2  |-> <<MotivationAblation2>>,
  motivation_sensitivity |-> <<MotivationSensitivity>>,
  ablation              |-> <<AblationRx, AblationTx>>,
  leshna_flows          |-> <<LeshnaFlows>>,
  leshna_cores          |-> <<LeshnaCores>>,
  leshna_stress         |-> <<LeshnaStress>>,
  client                |-> <<ClientTx>>,
  leshna_baremetal      |-> <<LeshnaBaremetalTx, LeshnaBaremetalRx>>]
=============================================================================
