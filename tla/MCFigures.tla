----------------------------- MODULE MCFigures -----------------------------
(* Everything the scripts can be made to run, and one function alone.       *)
EXTENDS Figures

AllSessions == DOMAIN Table
SensitivityOnly == {"main_sensitivity"}
=============================================================================
