---------------------------- MODULE CallSampler ----------------------------
(* What a latency tracer promises: it watches the calls of the traced       *)
(* functions and keeps, for each of them, the number and the total of the   *)
(* durations it sampled.  It may leave a call out; a sample it takes never  *)
(* exceeds the time the call really lasted.                                 *)
EXTENDS Integers, Sequences

CONSTANTS Ctx,     \* contexts in which traced functions run
          Funcs    \* traced functions

VARIABLES open,    \* open[c]: the calls of c that have not returned, a stack
          now,     \* the clock
          count,   \* count[f]: samples taken of f
          total    \* total[f]: their sum

vars == <<open, now, count, total>>

Init ==
  /\ open = [c \in Ctx |-> <<>>]
  /\ now = 1
  /\ count = [f \in Funcs |-> 0]
  /\ total = [f \in Funcs |-> 0]

Tick ==
  /\ now' = now + 1
  /\ UNCHANGED <<open, count, total>>

Begin(c, f) ==
  /\ open' = [open EXCEPT ![c] = Append(@, [fn |-> f, at |-> now])]
  /\ UNCHANGED <<now, count, total>>

Oldest(c) == SubSeq(open[c], 1, Len(open[c]) - 1)
Inner(c) == open[c][Len(open[c])]

\* The innermost call of c returns and is left out.
EndUnseen(c) ==
  /\ open[c] # <<>>
  /\ open' = [open EXCEPT ![c] = Oldest(c)]
  /\ UNCHANGED <<now, count, total>>

\* The innermost call of c returns and is sampled, with a duration of at
\* most its own.
EndSampled(c) ==
  /\ open[c] # <<>>
  /\ open' = [open EXCEPT ![c] = Oldest(c)]
  /\ \E d \in 0 .. (now - Inner(c).at) :
        /\ count' = [count EXCEPT ![Inner(c).fn] = @ + 1]
        /\ total' = [total EXCEPT ![Inner(c).fn] = @ + d]
  /\ UNCHANGED now

Next ==
  \/ Tick
  \/ \E c \in Ctx, f \in Funcs : Begin(c, f)
  \/ \E c \in Ctx : EndUnseen(c) \/ EndSampled(c)

Spec == Init /\ [][Next]_vars
=============================================================================
