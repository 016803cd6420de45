--------------------------- MODULE MCExperiment ---------------------------
(* All four scripts.                                                        *)
EXTENDS Experiment

MCScripts == DOMAIN Table
=============================================================================
