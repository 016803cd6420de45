---------------------------- MODULE FuncLatency ----------------------------
(* The eBPF latency tracers: a kprobe program stores the time a traced      *)
(* function is entered, a kretprobe program takes it back when the function *)
(* returns and adds the difference to the statistics of the function.       *)
(*                                                                          *)
(* A context is a task with the interrupts that run on top of it, so the    *)
(* same function can be entered again before it returns.  The time is kept  *)
(* under a key of the context: the task itself (guest and server tracer,    *)
(* task storage) or pid_tgid (host tracer, hash map), which the idle tasks  *)
(* of all CPUs share.  The kernel runs no second program on a CPU while one *)
(* is active, and a kretprobe that finds no free instance lets the call     *)
(* return unseen.                                                           *)
EXTENDS Integers, Sequences, FiniteSets

CONSTANTS
  Ctx,         \* contexts in which traced functions run
  Keys,        \* what entry times are kept under
  KeyOf,       \* KeyOf[c]: the key of context c
  Funcs,       \* functions whose latency is traced
  MaxEntries,  \* entry times that can be kept at once
  US,          \* clock units in a microsecond (1000 ns)
  Buckets,     \* HISTO_BUCKETS
  MaxClock,    \* bound: the clock stops here
  MaxDepth,    \* bound: MaxDepth[c] open calls of context c
  MaxSamples   \* bound: no call begins once a function has so many samples

ASSUME KeyOfType == KeyOf \in [Ctx -> Keys]
ASSUME NumbersOK ==
  /\ MaxEntries \in Nat
  /\ US \in Nat \ {0}
  /\ Buckets \in Nat \ {0}
  /\ MaxClock \in Nat \ {0}
  /\ MaxDepth \in [Ctx -> Nat]
  /\ MaxSamples \in Nat

VARIABLES
  clock,   \* bpf_ktime_get_ns
  probes,  \* probes[f]: the programs attached to f, "entry" and "exit"
  stack,   \* stack[c]: the open calls of c, innermost last
  start,   \* start[k][f]: the stored entry time, 0 if there is none
  stats,   \* stats[f]: func_latency_stats, summed over the CPUs
  histo    \* histo[f][b]: latency_histogram, summed over the CPUs

vars == <<clock, probes, stack, start, stats, histo>>

(* A call: the function, when it was entered, where it is (its body, or one *)
(* of the two programs), whether a kretprobe instance waits for its return, *)
(* and, for the properties only: the time its entry program stored, whether *)
(* it began while a program was active, and what other calls of the same    *)
(* function in the context have done since: stored a time (disturbed), or   *)
(* returned unseen after they had stored one (stray).                       *)
Call == [fn : Funcs, at : 1 .. MaxClock, pc : {"entry", "body", "exit"},
         hooked : BOOLEAN, ts : 0 .. MaxClock, blind : BOOLEAN,
         disturbed : BOOLEAN, stray : BOOLEAN]

Top(c) == stack[c][Len(stack[c])]
Rest(c) == SubSeq(stack[c], 1, Len(stack[c]) - 1)
WithTop(c, call) == [stack[c] EXCEPT ![Len(stack[c])] = call]
Inside(c) == stack[c] # <<>>

\* bpf_prog_active: a program runs on the CPU of c.
Active(c) == \E i \in DOMAIN stack[c] : stack[c][i].pc # "body"

Init ==
  /\ clock = 1
  /\ probes = [f \in Funcs |-> {}]
  /\ stack = [c \in Ctx |-> <<>>]
  /\ start = [k \in Keys |-> [f \in Funcs |-> 0]]
  /\ stats = [f \in Funcs |-> [count |-> 0, total |-> 0, sumsq |-> 0]]
  /\ histo = [f \in Funcs |-> [b \in 0 .. Buckets - 1 |-> 0]]

Tick ==
  /\ clock < MaxClock
  /\ clock' = clock + 1
  /\ UNCHANGED <<probes, stack, start, stats, histo>>

-----------------------------------------------------------------------------
(* The loader attaches, for each function, first the entry program and then *)
(* the exit program, while the functions are being called.  A probe that    *)
(* fails to attach is skipped: the action of that probe never happens.      *)

AttachEntry(f) ==
  /\ probes[f] = {}
  /\ probes' = [probes EXCEPT ![f] = {"entry"}]
  /\ UNCHANGED <<clock, stack, start, stats, histo>>

AttachExit(f) ==
  /\ "exit" \notin probes[f]
  /\ probes' = [probes EXCEPT ![f] = @ \cup {"exit"}]
  /\ UNCHANGED <<clock, stack, start, stats, histo>>

-----------------------------------------------------------------------------
(* A function is called, by the task or by an interrupt on top of whatever  *)
(* the context is doing.  The entry program runs if it is attached and no   *)
(* program is active; the kretprobe waits for the return if it is attached  *)
(* and has a free instance.                                                 *)
Enter(c, f) ==
  /\ Len(stack[c]) < MaxDepth[c]
  /\ stats[f].count < MaxSamples
  /\ \E free \in BOOLEAN :
       stack' = [stack EXCEPT ![c] = Append(@,
         [fn |-> f, at |-> clock,
          pc |-> IF "entry" \in probes[f] /\ ~Active(c) THEN "entry" ELSE "body",
          hooked |-> "exit" \in probes[f] /\ free,
          ts |-> 0, blind |-> Active(c), disturbed |-> FALSE, stray |-> FALSE])]
  /\ UNCHANGED <<clock, probes, start, stats, histo>>

Stored == {kf \in Keys \X Funcs : start[kf[1]][kf[2]] # 0}

\* There is an entry to overwrite, or room for a new one.
CanStore(k, f) == start[k][f] # 0 \/ Cardinality(Stored) < MaxEntries

\* The stack of c with the calls of f below the innermost marked.
Disturbed(c, f) ==
  [i \in DOMAIN stack[c] |-> [stack[c][i] EXCEPT !.disturbed = @ \/ stack[c][i].fn = f]]
Strayed(c, f) ==
  [i \in DOMAIN stack[c] |-> [stack[c][i] EXCEPT !.stray = @ \/ stack[c][i].fn = f]]

\* Mutant: an entry program that keeps an older time (BPF_NOEXIST).
EntryProgramKeeping(c) ==
  /\ Inside(c) /\ Top(c).pc = "entry"
  /\ LET k == KeyOf[c]
         f == Top(c).fn
         at == IF start[k][f] = 0 THEN clock ELSE start[k][f]
     IN /\ CanStore(k, f)
        /\ start' = [start EXCEPT ![k] = [@ EXCEPT ![f] = at]]
        /\ stack' = [stack EXCEPT ![c] =
             [Disturbed(c, f) EXCEPT ![Len(stack[c])] =
                [Top(c) EXCEPT !.pc = "body", !.ts = clock]]]
  /\ UNCHANGED <<clock, probes, stats, histo>>

EntryProgram(c) ==
  /\ Inside(c) /\ Top(c).pc = "entry"
  /\ LET k == KeyOf[c]
         f == Top(c).fn
     IN IF CanStore(k, f)
        THEN /\ start' = [start EXCEPT ![k] = [@ EXCEPT ![f] = clock]]
             /\ stack' = [stack EXCEPT ![c] =
                  [Disturbed(c, f) EXCEPT ![Len(stack[c])] =
                     [Top(c) EXCEPT !.pc = "body", !.ts = clock]]]
        ELSE /\ stack' = [stack EXCEPT ![c] = WithTop(c, [Top(c) EXCEPT !.pc = "body"])]
             /\ UNCHANGED start
  /\ UNCHANGED <<clock, probes, stats, histo>>

\* The innermost call returns and no exit program runs for it.
ReturnUnseen(c) ==
  /\ Inside(c) /\ Top(c).pc = "body"
  /\ ~Top(c).hooked \/ Active(c)
  /\ stack' = [stack EXCEPT ![c] =
                IF Top(c).ts = 0 THEN Rest(c)
                ELSE SubSeq(Strayed(c, Top(c).fn), 1, Len(stack[c]) - 1)]
  /\ UNCHANGED <<clock, probes, start, stats, histo>>

\* The innermost call returns into the exit program.
ReturnHooked(c) ==
  /\ Inside(c) /\ Top(c).pc = "body"
  /\ Top(c).hooked /\ ~Active(c)
  /\ stack' = [stack EXCEPT ![c] = WithTop(c, [Top(c) EXCEPT !.pc = "exit"])]
  /\ UNCHANGED <<clock, probes, start, stats, histo>>

\* Mutant: the logarithm rounded up.
BucketUp(d) ==
  CHOOSE b \in 0 .. Buckets - 1 :
    /\ b = Buckets - 1 \/ d <= 2^b
    /\ b = 0 \/ d > 2^(b - 1)

\* log2_u64, with the last bucket for everything above.
Bucket(d) ==
  CHOOSE b \in 0 .. Buckets - 1 :
    /\ 2^b <= d
    /\ b = Buckets - 1 \/ d < 2^(b + 1)

\* Mutant: the duration with its sign reversed.
SampleReversed(s, d) ==
  [count |-> s.count + 1, total |-> s.total - d,
   sumsq |-> s.sumsq + (d \div US) * (d \div US)]

Sample(s, d) ==
  [count |-> s.count + 1, total |-> s.total + d,
   sumsq |-> s.sumsq + (d \div US) * (d \div US)]

Counted(h, d) == IF d > 0 THEN [h EXCEPT ![Bucket(d)] = @ + 1] ELSE h

\* The exit program finds no entry time.
ExitNothing(c) ==
  /\ Inside(c) /\ Top(c).pc = "exit"
  /\ start[KeyOf[c]][Top(c).fn] = 0
  /\ stack' = [stack EXCEPT ![c] = Rest(c)]
  /\ UNCHANGED <<clock, probes, start, stats, histo>>

\* Mutant: the entry time is not cleared.
ExitSampleKeeping(c) ==
  /\ Inside(c) /\ Top(c).pc = "exit"
  /\ LET f == Top(c).fn
         d == clock - start[KeyOf[c]][f]
     IN /\ start[KeyOf[c]][f] # 0
        /\ stats' = [stats EXCEPT ![f] = Sample(@, d)]
        /\ histo' = [histo EXCEPT ![f] = Counted(@, d)]
        /\ stack' = [stack EXCEPT ![c] = Rest(c)]
  /\ UNCHANGED <<clock, probes, start>>

\* The exit program takes the entry time and adds the duration.
ExitSample(c) ==
  /\ Inside(c) /\ Top(c).pc = "exit"
  /\ LET k == KeyOf[c]
         f == Top(c).fn
         d == clock - start[k][f]
     IN /\ start[k][f] # 0
        /\ start' = [start EXCEPT ![k] = [@ EXCEPT ![f] = 0]]
        /\ stats' = [stats EXCEPT ![f] = Sample(@, d)]
        /\ histo' = [histo EXCEPT ![f] = Counted(@, d)]
        /\ stack' = [stack EXCEPT ![c] = Rest(c)]
  /\ UNCHANGED <<clock, probes>>

Step(c) ==
  \/ \E f \in Funcs : Enter(c, f)
  \/ EntryProgram(c)
  \/ ReturnUnseen(c)
  \/ ReturnHooked(c)
  \/ ExitNothing(c)
  \/ ExitSample(c)

Next ==
  \/ Tick
  \/ \E f \in Funcs : AttachEntry(f) \/ AttachExit(f)
  \/ \E c \in Ctx : Step(c)

Spec == Init /\ [][Next]_vars

-----------------------------------------------------------------------------
\* Every variable stays in its range.
TypeOK ==
  /\ clock \in 1 .. MaxClock
  /\ probes \in [Funcs -> SUBSET {"entry", "exit"}]
  /\ stack \in [Ctx -> Seq(Call)]
  /\ start \in [Keys -> [Funcs -> 0 .. MaxClock]]
  /\ stats \in [Funcs -> [count : Nat, total : Nat, sumsq : Nat]]
  /\ histo \in [Funcs -> [0 .. Buckets - 1 -> Nat]]

\* No other context keeps its entry times under the key of c.
Private(c) == \A d \in Ctx \ {c} : KeyOf[d] # KeyOf[c]

Exiting(c) == Inside(c) /\ Top(c).pc = "exit"

\* A call during which no other call of the function stored an entry time
\* is measured with its own entry time, and with none at all if its own
\* entry program could not store one: a time left behind by a call whose
\* return was missed is never taken for it.  (Guest tracer: one key per
\* task, interrupts nest on top of it.)
ExactUnlessDisturbed ==
  \A c \in Ctx : Exiting(c) /\ Private(c) /\ ~Top(c).disturbed =>
    start[KeyOf[c]][Top(c).fn] = Top(c).ts

\* Whatever is nested in a call, it is measured with its own entry time or
\* not at all, unless the return of one of the nested calls was missed: the
\* outer call of a recursion is dropped, never measured from the inner one.
ExactOrNothing ==
  \A c \in Ctx : Exiting(c) /\ Private(c) /\ ~Top(c).stray =>
    start[KeyOf[c]][Top(c).fn] \in {0, Top(c).ts}

\* The ends of the buckets, and the sum of the durations of a histogram were
\* each of them the end of its bucket.
LowEnd == [b \in 0 .. Buckets - 1 |-> 2^b]
HighEnd == [b \in 0 .. Buckets - 1 |-> 2^(b + 1) - 1]
SumOf(h, end) ==
  LET upTo[b \in 0 .. Buckets] ==
        IF b = 0 THEN 0 ELSE upTo[b - 1] + h[b - 1] * end[b - 1]
  IN upTo[Buckets]

\* The histogram and the total are about the same durations: the total lies
\* between the sums of the lower and of the upper ends of the buckets, as
\* long as nothing has reached the open-ended last one.
HistoBracketsTotal ==
  \A f \in Funcs :
    /\ SumOf(histo[f], LowEnd) <= stats[f].total
    /\ histo[f][Buckets - 1] = 0 => stats[f].total <= SumOf(histo[f], HighEnd)

\* variance_us of dump_aggregate_to_file, times (count * US)^2: the mean of
\* the squared whole microseconds less the square of the mean.
ScaledVariance(f) ==
  stats[f].sumsq * stats[f].count * US * US - stats[f].total * stats[f].total

\* The reported variance is one: "variance in us units = E[x^2] - (E[x])^2,
\* where x is duration in us" (guest_loader.c), which is never negative.
VarianceNotNegative ==
  \A f \in Funcs : ScaledVariance(f) >= 0

\* The tracer is a sampler that never overestimates: every step is a step of
\* the abstract sampler, with its calls stripped of the probes' state.
Strip(s) == [i \in 1 .. Len(s) |-> [fn |-> s[i].fn, at |-> s[i].at]]
Sampler == INSTANCE CallSampler WITH
  open <- [c \in Ctx |-> Strip(stack[c])],
  now <- clock,
  count <- [f \in Funcs |-> stats[f].count],
  total <- [f \in Funcs |-> stats[f].total]
ImplementsSampler == Sampler!Spec
=============================================================================
