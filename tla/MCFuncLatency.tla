--------------------------- MODULE MCFuncLatency ---------------------------
(* A task with a key of its own and the idle tasks of two CPUs, which share *)
(* one in the host tracer.                                                  *)
EXTENDS FuncLatency

CONSTANTS task, idle1, idle2, own, shared, fn

MCCtx == {task, idle1, idle2}
MCKeys == {own, shared}
MCKeyOf == [c \in MCCtx |-> IF c = task THEN own ELSE shared]
MCMaxDepth == [c \in MCCtx |-> IF c = task THEN 2 ELSE 1]
=============================================================================
