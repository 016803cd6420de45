------------------------- MODULE FuncLatencyProofs -------------------------
(* For every set of contexts, keys and functions, every depth of nesting    *)
(* and every size of the map: the latency tracer never overestimates a      *)
(* call, and it is exact while no nested call of the function interferes.   *)
EXTENDS FuncLatency, FiniteSetTheorems, SequenceTheorems, TLAPS

(* A call whose return will run the exit program. *)
Armed(call) == call.hooked /\ ~call.blind

(* The stored time of a function is never older than a call that may yet    *)
(* take it: only an earlier call can have left an older one, and the entry  *)
(* program of this call overwrote whatever was there.                       *)
NotBefore(c, i) ==
  LET call == stack[c][i]
      ts == start[KeyOf[c]][call.fn]
  IN Armed(call) /\ call.pc # "entry" /\ ts # 0 => ts >= call.at

(* A program runs for a call that saw no other program active, and the      *)
(* calls that begin during a program return before it goes on.              *)
Nested(c, i) ==
  LET call == stack[c][i]
  IN /\ call.blind => \E j \in 1 .. i - 1 : stack[c][j].pc # "body"
     /\ call.pc # "body" => ~call.blind
     /\ call.pc = "exit" => Armed(call)

(* A call has begun, and only programs that are attached see it. *)
Begun(c, i) ==
  LET call == stack[c][i]
  IN /\ call.at <= clock
     /\ call.hooked => "exit" \in probes[call.fn]
     /\ call.pc = "entry" => "entry" \in probes[call.fn]

CallOK(c, i) == NotBefore(c, i) /\ Nested(c, i) /\ Begun(c, i)

(* Entry times are past, and stored by an attached entry program. *)
StoreOK ==
  \A k \in Keys : \A f \in Funcs :
    /\ start[k][f] <= clock
    /\ "entry" \notin probes[f] => start[k][f] = 0

TracerInv ==
  /\ TypeOK
  /\ StoreOK
  /\ \A c \in Ctx : \A i \in 1 .. Len(stack[c]) : CallOK(c, i)

-----------------------------------------------------------------------------
\* What is known of a call because of its type.
LEMMA CallFields ==
  ASSUME NEW x \in Call
  PROVE  x.fn \in Funcs /\ x.at \in Nat
<1>1. x.fn \in Funcs /\ x.at \in 1 .. MaxClock
  BY DEF Call
<1> QED BY <1>1

\* Two records of one call, up to the marks.
SameCall(x, y) ==
  /\ x.fn = y.fn /\ x.at = y.at /\ x.pc = y.pc
  /\ x.hooked = y.hooked /\ x.blind = y.blind

\* A call with one of the two marks set or left.
LEMMA DisturbedCall ==
  ASSUME NEW x \in Call, NEW b \in BOOLEAN
  PROVE  [x EXCEPT !.disturbed = b] \in Call /\ SameCall([x EXCEPT !.disturbed = b], x)
<1>1. [x EXCEPT !.disturbed = b] \in Call
  BY DEF Call
<1>2. SameCall([x EXCEPT !.disturbed = b], x)
  BY DEF Call, SameCall
<1> QED BY <1>1, <1>2

LEMMA StrayCall ==
  ASSUME NEW x \in Call, NEW b \in BOOLEAN
  PROVE  [x EXCEPT !.stray = b] \in Call /\ SameCall([x EXCEPT !.stray = b], x)
<1>1. [x EXCEPT !.stray = b] \in Call
  BY DEF Call
<1>2. SameCall([x EXCEPT !.stray = b], x)
  BY DEF Call, SameCall
<1> QED BY <1>1, <1>2

LEMMA StripType ==
  ASSUME NEW s \in Seq(Call)
  PROVE  /\ Strip(s) \in Seq([fn : Funcs, at : 1 .. MaxClock])
         /\ Len(Strip(s)) = Len(s)
<1> DEFINE R == [fn : Funcs, at : 1 .. MaxClock]
<1>1. Len(s) \in Nat
  BY LenProperties
<1>2. \A i \in 1 .. Len(s) : [fn |-> s[i].fn, at |-> s[i].at] \in R
  <2>1. \A i \in 1 .. Len(s) : s[i] \in Call
    BY ElementOfSeq
  <2> QED BY <2>1 DEF Call
<1> HIDE DEF R
<1>3. Strip(s) \in [1 .. Len(s) -> R]
  BY <1>2 DEF Strip
<1>4. Strip(s) \in Seq(R)
  BY <1>1, <1>3, SeqDef, Zenon
<1> QED BY <1>1, <1>4 DEF R, Strip

LEMMA StripAppend ==
  ASSUME NEW s \in Seq(Call), NEW x \in Call
  PROVE  Strip(Append(s, x)) = Append(Strip(s), [fn |-> x.fn, at |-> x.at])
<1> DEFINE R == [fn : Funcs, at : 1 .. MaxClock]
           y == [fn |-> x.fn, at |-> x.at]
<1>1. Strip(s) \in Seq(R) /\ Len(Strip(s)) = Len(s) /\ y \in R /\ Len(s) \in Nat
  BY StripType, LenProperties DEF Call
<1>2. Append(s, x) \in Seq(Call) /\ Len(Append(s, x)) = Len(s) + 1
  OBVIOUS
<1>3. Strip(Append(s, x)) \in Seq(R) /\ Len(Strip(Append(s, x))) = Len(s) + 1
  BY <1>2, StripType
<1>4. Append(Strip(s), y) \in Seq(R) /\ Len(Append(Strip(s), y)) = Len(s) + 1
  BY <1>1
<1>5. \A i \in 1 .. Len(s) + 1 : Strip(Append(s, x))[i] = Append(Strip(s), y)[i]
  BY <1>1, <1>2 DEF Strip
<1> HIDE DEF R, y
<1>6. Strip(Append(s, x)) = Append(Strip(s), y)
  BY <1>3, <1>4, <1>5, SeqEqual, Zenon
<1> QED BY <1>6 DEF y

LEMMA StripFront ==
  ASSUME NEW s \in Seq(Call), s # <<>>
  PROVE  Strip(SubSeq(s, 1, Len(s) - 1)) = SubSeq(Strip(s), 1, Len(Strip(s)) - 1)
<1>1. Len(s) \in Nat /\ Len(s) >= 1 /\ Len(Strip(s)) = Len(s)
  BY DEF Strip
<1>2. SubSeq(s, 1, Len(s) - 1) = [i \in 1 .. Len(s) - 1 |-> s[i]]
  BY <1>1
<1>3. SubSeq(Strip(s), 1, Len(s) - 1) = [i \in 1 .. Len(s) - 1 |-> Strip(s)[i]]
  BY <1>1 DEF Strip
<1>4. Len(SubSeq(s, 1, Len(s) - 1)) = Len(s) - 1
  BY <1>1, <1>2
<1> QED BY <1>1, <1>2, <1>3, <1>4 DEF Strip

LEMMA StripSame ==
  ASSUME NEW s \in Seq(Call), NEW t \in Seq(Call), Len(t) = Len(s),
         \A i \in 1 .. Len(s) : t[i].fn = s[i].fn /\ t[i].at = s[i].at
  PROVE  Strip(t) = Strip(s)
BY DEF Strip

-----------------------------------------------------------------------------
(* What pushing, replacing, popping and marking do to a stack of calls. *)
LEMMA PushFacts ==
  ASSUME NEW s \in Seq(Call), NEW x \in Call
  PROVE  /\ Append(s, x) \in Seq(Call)
         /\ Len(Append(s, x)) = Len(s) + 1
         /\ Append(s, x)[Len(s) + 1] = x
         /\ \A i \in 1 .. Len(s) : Append(s, x)[i] = s[i]
OBVIOUS

LEMMA TopFacts ==
  ASSUME NEW s \in Seq(Call), s # <<>>
  PROVE  Len(s) \in Nat \ {0} /\ s[Len(s)] \in Call
<1>1. Len(s) \in Nat \ {0}
  BY EmptySeq
<1> QED BY <1>1, ElementOfSeq

LEMMA PopFacts ==
  ASSUME NEW s \in Seq(Call), s # <<>>
  PROVE  LET t == SubSeq(s, 1, Len(s) - 1)
         IN /\ t \in Seq(Call)
            /\ Len(t) = Len(s) - 1
            /\ \A i \in 1 .. Len(s) - 1 : t[i] = s[i]
<1>1. Len(s) \in Nat \ {0}
  BY TopFacts
<1>2. \A i \in 1 .. Len(s) - 1 : s[i] \in Call
  BY <1>1, ElementOfSeq
<1>3. 1 \in Int /\ Len(s) - 1 \in Int /\ \A i \in 1 .. Len(s) - 1 : s[i] \in Call
  BY <1>1, <1>2
<1> DEFINE n == Len(s) - 1
<1>4. /\ SubSeq(s, 1, n) \in Seq(Call)
      /\ Len(SubSeq(s, 1, n)) = IF 1 <= n THEN n - 1 + 1 ELSE 0
      /\ \A i \in 1 .. n - 1 + 1 : SubSeq(s, 1, n)[i] = s[1 + i - 1]
  <2> HIDE DEF n
  <2> QED BY <1>3, SubSeqProperties DEF n
<1>5. n \in Nat /\ n - 1 + 1 = n
  BY <1>1
<1>6. \A i \in 1 .. n : 1 + i - 1 = i
  OBVIOUS
<1>7. \A i \in 1 .. n : SubSeq(s, 1, n)[i] = s[i]
  <2> HIDE DEF n
  <2> QED BY <1>4, <1>5, <1>6
<1>8. Len(SubSeq(s, 1, n)) = n
  <2> HIDE DEF n
  <2> QED BY <1>4, <1>5
<1> QED BY <1>4, <1>7, <1>8

\* t is s with other marks.
SameCalls(s, t) ==
  /\ t \in Seq(Call)
  /\ Len(t) = Len(s)
  /\ \A i \in 1 .. Len(s) : SameCall(t[i], s[i])

LEMMA MarkFacts ==
  ASSUME TypeOK, NEW c \in Ctx, NEW f \in Funcs
  PROVE  SameCalls(stack[c], Disturbed(c, f)) /\ SameCalls(stack[c], Strayed(c, f))
<1> DEFINE s == stack[c]
<1>1. s \in Seq(Call) /\ Len(s) \in Nat /\ DOMAIN s = 1 .. Len(s)
  BY LenProperties DEF TypeOK
<1>2. \A i \in 1 .. Len(s) : s[i] \in Call
  BY <1>1, ElementOfSeq
<1> DEFINE D(i) == [s[i] EXCEPT !.disturbed = @ \/ s[i].fn = f]
           S(i) == [s[i] EXCEPT !.stray = @ \/ s[i].fn = f]
<1>3. ASSUME NEW i \in 1 .. Len(s)
      PROVE  /\ D(i) \in Call /\ SameCall(D(i), s[i])
             /\ S(i) \in Call /\ SameCall(S(i), s[i])
  <2>1. s[i] \in Call
    BY <1>2
  <2>2. PICK b \in BOOLEAN : b = (s[i].disturbed \/ s[i].fn = f)
    OBVIOUS
  <2>3. PICK e \in BOOLEAN : e = (s[i].stray \/ s[i].fn = f)
    OBVIOUS
  <2>4. D(i) = [s[i] EXCEPT !.disturbed = b] /\ S(i) = [s[i] EXCEPT !.stray = e]
    BY <2>2, <2>3
  <2> HIDE DEF D, S, s
  <2>5. D(i) \in Call /\ SameCall(D(i), s[i])
    BY <2>1, <2>4, DisturbedCall
  <2>6. S(i) \in Call /\ SameCall(S(i), s[i])
    BY <2>1, <2>4, StrayCall
  <2> QED BY <2>5, <2>6
<1>4. Disturbed(c, f) \in [1 .. Len(s) -> Call] /\ Strayed(c, f) \in [1 .. Len(s) -> Call]
  BY <1>1, <1>3 DEF Disturbed, Strayed
<1>5. Disturbed(c, f) \in Seq(Call) /\ Strayed(c, f) \in Seq(Call)
  BY <1>1, <1>4, SeqDef, Zenon
<1>6. Len(Disturbed(c, f)) = Len(s) /\ Len(Strayed(c, f)) = Len(s)
  BY <1>1, <1>4, <1>5
<1>7. \A i \in 1 .. Len(s) :
        Disturbed(c, f)[i] = D(i) /\ Strayed(c, f)[i] = S(i)
  BY <1>1 DEF Disturbed, Strayed
<1> HIDE DEF D, S
<1>8. SameCalls(s, Disturbed(c, f))
  BY <1>3, <1>5, <1>6, <1>7 DEF SameCalls
<1>9. SameCalls(s, Strayed(c, f))
  BY <1>3, <1>5, <1>6, <1>7 DEF SameCalls
<1> QED BY <1>8, <1>9

LEMMA ActiveFacts ==
  ASSUME TypeOK, NEW c \in Ctx
  PROVE  Active(c) <=> \E j \in 1 .. Len(stack[c]) : stack[c][j].pc # "body"
BY LenProperties DEF Active, TypeOK

LEMMA CallsTyped ==
  ASSUME TypeOK
  PROVE  \A c \in Ctx : Len(stack[c]) \in Nat /\ \A i \in 1 .. Len(stack[c]) : stack[c][i] \in Call
<1> TAKE c \in Ctx
<1>1. stack[c] \in Seq(Call)
  BY DEF TypeOK
<1>2. Len(stack[c]) \in Nat
  BY <1>1, LenProperties
<1>3. \A i \in 1 .. Len(stack[c]) : stack[c][i] \in Call
  BY <1>1, ElementOfSeq
<1> QED BY <1>2, <1>3

-----------------------------------------------------------------------------
(* Every action keeps the invariant. *)
LEMMA TickInv ==
  ASSUME TracerInv, Tick
  PROVE  TracerInv'
<1>1. /\ clock \in Nat /\ clock' = clock + 1 /\ clock' \in 1 .. MaxClock
      /\ UNCHANGED <<probes, stack, start, stats, histo>>
  BY NumbersOK DEF TracerInv, TypeOK, Tick
<1>2. TypeOK'
  BY <1>1 DEF TracerInv, TypeOK
<1>3. StoreOK'
  <2>1. \A k \in Keys : \A f \in Funcs : start[k][f] \in Nat
    BY NumbersOK DEF TracerInv, TypeOK
  <2> QED BY <1>1, <2>1 DEF TracerInv, StoreOK
<1>4. ASSUME NEW c \in Ctx, NEW i \in 1 .. Len(stack[c])
      PROVE  CallOK(c, i)'
  <2>1. stack[c][i].at \in Nat
    BY CallsTyped, CallFields DEF TracerInv
  <2>2. CallOK(c, i)
    BY DEF TracerInv
  <2>3. NotBefore(c, i)'
    BY <1>1, <2>2 DEF CallOK, NotBefore
  <2>4. Nested(c, i)'
    BY <1>1, <2>2 DEF CallOK, Nested
  <2>5. Begun(c, i)'
    BY <1>1, <2>1, <2>2 DEF CallOK, Begun
  <2> QED BY <2>3, <2>4, <2>5 DEF CallOK
<1> QED BY <1>1, <1>2, <1>3, <1>4 DEF TracerInv

LEMMA AttachInv ==
  ASSUME TracerInv, NEW f \in Funcs, AttachEntry(f) \/ AttachExit(f)
  PROVE  TracerInv'
<1>1. UNCHANGED <<clock, stack, start, stats, histo>>
  BY DEF AttachEntry, AttachExit
<1>2. /\ probes' \in [Funcs -> SUBSET {"entry", "exit"}]
      /\ \A g \in Funcs : probes[g] \subseteq probes'[g]
  <2>1. probes \in [Funcs -> SUBSET {"entry", "exit"}]
    BY DEF TracerInv, TypeOK
  <2>2. CASE AttachEntry(f)
    BY <2>1, <2>2 DEF AttachEntry
  <2>3. CASE AttachExit(f)
    BY <2>1, <2>3 DEF AttachExit
  <2> QED BY <2>2, <2>3
<1>3. TypeOK' /\ StoreOK'
  BY <1>1, <1>2 DEF TracerInv, TypeOK, StoreOK
<1>4. ASSUME NEW c \in Ctx, NEW i \in 1 .. Len(stack[c])
      PROVE  CallOK(c, i)'
  <2>1. stack[c][i].fn \in Funcs
    BY CallsTyped, CallFields DEF TracerInv
  <2>2. CallOK(c, i)
    BY DEF TracerInv
  <2> QED BY <1>1, <1>2, <2>1, <2>2 DEF CallOK, NotBefore, Nested, Begun
<1> QED BY <1>1, <1>3, <1>4 DEF TracerInv

LEMMA EnterInv ==
  ASSUME TracerInv, NEW c \in Ctx, NEW f \in Funcs, Enter(c, f)
  PROVE  /\ TracerInv'
         /\ Strip(stack'[c]) = Append(Strip(stack[c]), [fn |-> f, at |-> clock])
         /\ stack' = [stack EXCEPT ![c] = stack'[c]]
<1> DEFINE s == stack[c]
<1>1. PICK free \in BOOLEAN :
        stack' = [stack EXCEPT ![c] = Append(@,
          [fn |-> f, at |-> clock,
           pc |-> IF "entry" \in probes[f] /\ ~Active(c) THEN "entry" ELSE "body",
           hooked |-> "exit" \in probes[f] /\ free,
           ts |-> 0, blind |-> Active(c), disturbed |-> FALSE, stray |-> FALSE])]
  BY DEF Enter
<1> DEFINE hooked == "exit" \in probes[f] /\ free
           blind == Active(c)
           x == [fn |-> f, at |-> clock,
                 pc |-> IF "entry" \in probes[f] /\ ~Active(c) THEN "entry" ELSE "body",
                 hooked |-> hooked, ts |-> 0, blind |-> blind,
                 disturbed |-> FALSE, stray |-> FALSE]
<1>2. s \in Seq(Call) /\ Len(s) \in Nat /\ stack \in [Ctx -> Seq(Call)] /\ clock \in 1 .. MaxClock
  BY LenProperties DEF TracerInv, TypeOK
<1>3. hooked \in BOOLEAN /\ blind \in BOOLEAN
  BY DEF Active
<1>4. x \in Call
  <2> HIDE DEF hooked, blind
  <2> QED BY <1>2, <1>3, NumbersOK DEF Call
<1>5. stack' = [stack EXCEPT ![c] = Append(s, x)]
  BY <1>1
<1>6. /\ x.fn = f /\ x.at = clock /\ x.hooked = hooked /\ x.blind = blind
      /\ x.pc = IF "entry" \in probes[f] /\ ~Active(c) THEN "entry" ELSE "body"
  OBVIOUS
<1> HIDE DEF x, hooked, blind
<1>7. /\ stack' \in [Ctx -> Seq(Call)]
      /\ stack'[c] = Append(s, x)
      /\ Len(stack'[c]) = Len(s) + 1
      /\ stack'[c][Len(s) + 1] = x
      /\ \A i \in 1 .. Len(s) : stack'[c][i] = s[i]
      /\ \A d \in Ctx \ {c} : stack'[d] = stack[d]
  BY <1>2, <1>4, <1>5, PushFacts
<1>8. UNCHANGED <<clock, probes, start, stats, histo>>
  BY DEF Enter
<1>9. \A d \in Ctx : \A i \in 1 .. Len(stack[d]) : stack'[d][i] = stack[d][i]
  BY <1>2, <1>7
<1>10. TypeOK' /\ StoreOK'
  BY <1>7, <1>8 DEF TracerInv, TypeOK, StoreOK
<1>a. PICK n \in Nat : n = Len(s) + 1
  BY <1>2
<1>11. CallOK(c, n)'
  <2>1. hooked /\ ~blind /\ x.pc # "entry" => start[KeyOf[c]][f] = 0
    <3>1. hooked /\ ~blind /\ x.pc # "entry" => "entry" \notin probes[f]
      BY <1>6 DEF hooked, blind
    <3> QED BY <3>1, KeyOfType DEF TracerInv, StoreOK
  <2>2. NotBefore(c, n)'
    BY <1>6, <1>7, <1>8, <1>a, <2>1 DEF NotBefore, Armed
  <2>3. Nested(c, n)'
    <3>1. x.blind => \E j \in 1 .. Len(s) : s[j].pc # "body"
      BY <1>6, ActiveFacts DEF blind, TracerInv
    <3>2. x.pc # "body" => ~x.blind
      BY <1>6 DEF blind
    <3>3. x.pc # "exit"
      BY <1>6
    <3>4. stack'[c][n] = x /\ \A j \in 1 .. n - 1 : stack'[c][j] = s[j]
      BY <1>2, <1>7, <1>a
    <3>5. x.blind => \E j \in 1 .. n - 1 : stack'[c][j].pc # "body"
      BY <1>2, <1>a, <3>1, <3>4
    <3> QED BY <3>2, <3>3, <3>4, <3>5 DEF Nested
  <2>4. Begun(c, n)'
    <3>1. stack'[c][n] = x /\ probes' = probes /\ clock' = clock
      BY <1>7, <1>8, <1>a
    <3>2. x.at <= clock
      BY <1>2, <1>6
    <3>3. x.hooked => "exit" \in probes[x.fn]
      BY <1>6 DEF hooked
    <3>4. x.pc = "entry" => "entry" \in probes[x.fn]
      BY <1>6
    <3> QED BY <3>1, <3>2, <3>3, <3>4 DEF Begun
  <2> QED BY <2>2, <2>3, <2>4 DEF CallOK
<1>12. ASSUME NEW d \in Ctx, NEW i \in 1 .. Len(stack[d])
       PROVE  CallOK(d, i)'
  <2>1. stack'[d][i] = stack[d][i] /\ \A j \in 1 .. i - 1 : stack'[d][j] = stack[d][j]
    <3>1. \A j \in 1 .. i - 1 : j \in 1 .. Len(stack[d])
      BY CallsTyped DEF TracerInv
    <3> QED BY <1>9, <3>1
  <2>2. CallOK(d, i)
    BY DEF TracerInv
  <2> QED BY <1>8, <2>1, <2>2 DEF CallOK, NotBefore, Nested, Begun
<1>13. ASSUME NEW d \in Ctx, NEW i \in 1 .. Len(stack'[d])
       PROVE  CallOK(d, i)'
  <2>1. (d = c /\ i = n) \/ i \in 1 .. Len(stack[d])
    BY <1>2, <1>7, <1>a
  <2> QED BY <1>11, <1>12, <2>1
<1>14. TracerInv'
  BY <1>10, <1>13 DEF TracerInv
<1>15. Strip(stack'[c]) = Append(Strip(s), [fn |-> f, at |-> clock])
  BY <1>2, <1>4, <1>6, <1>7, StripAppend
<1> QED BY <1>5, <1>7, <1>14, <1>15

\* The innermost call of c is gone.
Popped(c) ==
  /\ stack' \in [Ctx -> Seq(Call)]
  /\ \A d \in Ctx : \A i \in 1 .. Len(stack'[d]) :
       i \in 1 .. Len(stack[d]) /\ SameCall(stack'[d][i], stack[d][i])
  /\ Strip(stack'[c]) = SubSeq(Strip(stack[c]), 1, Len(Strip(stack[c])) - 1)
  /\ stack' = [stack EXCEPT ![c] = stack'[c]]

LEMMA PoppedRest ==
  ASSUME TypeOK, NEW c \in Ctx, Inside(c), NEW t, SameCalls(stack[c], t),
         stack' = [stack EXCEPT ![c] = SubSeq(t, 1, Len(stack[c]) - 1)]
  PROVE  Popped(c)
<1> DEFINE s == stack[c]
           u == SubSeq(t, 1, Len(s) - 1)
<1>1. s \in Seq(Call) /\ s # <<>> /\ Len(s) \in Nat \ {0} /\ t \in Seq(Call) /\ Len(t) = Len(s)
  BY TopFacts DEF TypeOK, Inside, SameCalls
<1>2. t # <<>>
  BY <1>1, EmptySeq
<1>3. /\ u \in Seq(Call) /\ Len(u) = Len(s) - 1
      /\ \A i \in 1 .. Len(s) - 1 : u[i] = t[i]
  BY <1>1, <1>2, PopFacts
<1>4. stack \in [Ctx -> Seq(Call)]
  BY DEF TypeOK
<1>5. stack' \in [Ctx -> Seq(Call)] /\ stack'[c] = u /\ \A d \in Ctx \ {c} : stack'[d] = stack[d]
  <2> HIDE DEF u
  <2> QED BY <1>3, <1>4 DEF u
<1>6. \A i \in 1 .. Len(u) : i \in 1 .. Len(s) /\ SameCall(u[i], s[i])
  <2>1. \A i \in 1 .. Len(s) : SameCall(t[i], s[i])
    BY DEF SameCalls
  <2> HIDE DEF u
  <2> QED BY <1>1, <1>3, <2>1
<1>7. Strip(u) = SubSeq(Strip(s), 1, Len(Strip(s)) - 1)
  <2>1. Strip(u) = SubSeq(Strip(t), 1, Len(Strip(t)) - 1)
    BY <1>1, <1>2, StripFront
  <2>2. Strip(t) = Strip(s)
    BY <1>1, StripSame DEF SameCalls, SameCall
  <2> QED BY <2>1, <2>2
<1> HIDE DEF u
<1>8. \A d \in Ctx : \A i \in 1 .. Len(stack'[d]) :
        i \in 1 .. Len(stack[d]) /\ SameCall(stack'[d][i], stack[d][i])
  <2>1. \A d \in Ctx \ {c} : \A i \in 1 .. Len(stack'[d]) :
          i \in 1 .. Len(stack[d]) /\ SameCall(stack'[d][i], stack[d][i])
    BY <1>5 DEF SameCall
  <2> QED BY <1>5, <1>6, <2>1
<1> QED BY <1>4, <1>5, <1>7, <1>8 DEF Popped

LEMMA PopInv ==
  ASSUME TracerInv, NEW c \in Ctx, Popped(c), UNCHANGED <<clock, probes>>,
         start' \in [Keys -> [Funcs -> 0 .. MaxClock]],
         \A k \in Keys : \A f \in Funcs : start'[k][f] \in {0, start[k][f]},
         stats' \in [Funcs -> [count : Nat, total : Nat, sumsq : Nat]],
         histo' \in [Funcs -> [0 .. Buckets - 1 -> Nat]]
  PROVE  TracerInv'
<1>1. TypeOK'
  BY DEF TracerInv, TypeOK, Popped
<1>2. StoreOK'
  <2> SUFFICES ASSUME NEW k \in Keys, NEW f \in Funcs
               PROVE  /\ start'[k][f] <= clock
                      /\ "entry" \notin probes[f] => start'[k][f] = 0
    BY DEF StoreOK
  <2>1. clock \in Nat
    BY DEF TracerInv, TypeOK
  <2>2. /\ start[k][f] <= clock
        /\ "entry" \notin probes[f] => start[k][f] = 0
    BY DEF TracerInv, StoreOK
  <2>3. start'[k][f] = 0 \/ start'[k][f] = start[k][f]
    OBVIOUS
  <2> QED BY <2>1, <2>2, <2>3
<1>3. ASSUME NEW d \in Ctx, NEW i \in 1 .. Len(stack'[d])
      PROVE  CallOK(d, i)'
  <2> DEFINE x == stack'[d][i]
             y == stack[d][i]
  <2>1. /\ i \in 1 .. Len(stack[d]) /\ SameCall(x, y) /\ y.fn \in Funcs /\ KeyOf[d] \in Keys
        /\ Len(stack'[d]) \in Nat
    <3>1. stack'[d] \in Seq(Call) /\ i \in 1 .. Len(stack[d]) /\ SameCall(x, y)
      BY DEF Popped
    <3>2. Len(stack'[d]) \in Nat
      BY <3>1, LenProperties
    <3>3. y.fn \in Funcs
      BY <3>1, CallsTyped, CallFields DEF TracerInv
    <3> QED BY <3>1, <3>2, <3>3, KeyOfType
  <2>2. start'[KeyOf[d]][y.fn] \in {0, start[KeyOf[d]][y.fn]}
    BY <2>1
  <2>3. \A j \in 1 .. i - 1 : stack'[d][j].pc = stack[d][j].pc
    <3>1. \A j \in 1 .. i - 1 : j \in 1 .. Len(stack'[d])
      BY <2>1
    <3> QED BY <3>1 DEF Popped, SameCall
  <2>4. CallOK(d, i)
    BY <2>1 DEF TracerInv
  <2>5. /\ x.fn = y.fn /\ x.at = y.at /\ x.pc = y.pc
        /\ x.hooked = y.hooked /\ x.blind = y.blind
    BY <2>1 DEF SameCall
  <2>6. NotBefore(d, i)'
    <3>1. NotBefore(d, i)
      BY <2>4 DEF CallOK
    <3>2. CASE start'[KeyOf[d]][y.fn] = 0
      BY <2>5, <3>2 DEF NotBefore
    <3>3. CASE start'[KeyOf[d]][y.fn] = start[KeyOf[d]][y.fn]
      BY <2>5, <3>1, <3>3 DEF NotBefore, Armed
    <3> QED BY <2>2, <3>2, <3>3
  <2>7. Nested(d, i)'
    BY <2>3, <2>4, <2>5 DEF CallOK, Nested, Armed
  <2>8. Begun(d, i)'
    BY <2>4, <2>5 DEF CallOK, Begun
  <2> QED BY <2>6, <2>7, <2>8 DEF CallOK
<1> QED BY <1>1, <1>2, <1>3 DEF TracerInv

LEMMA SameSelf ==
  ASSUME NEW s \in Seq(Call)
  PROVE  SameCalls(s, s)
BY DEF SameCalls, SameCall

LEMMA ReturnUnseenInv ==
  ASSUME TracerInv, NEW c \in Ctx, ReturnUnseen(c)
  PROVE  TracerInv' /\ Popped(c)
<1>1. stack[c] \in Seq(Call) /\ Inside(c) /\ TypeOK /\ Top(c).fn \in Funcs
  BY TopFacts DEF TracerInv, TypeOK, ReturnUnseen, Inside, Top, Call
<1>2. SameCalls(stack[c], stack[c]) /\ SameCalls(stack[c], Strayed(c, Top(c).fn))
  BY <1>1, SameSelf, MarkFacts
<1>3. PICK t : /\ SameCalls(stack[c], t)
               /\ stack' = [stack EXCEPT ![c] = SubSeq(t, 1, Len(stack[c]) - 1)]
  <2>1. CASE Top(c).ts = 0
    BY <1>2, <2>1 DEF ReturnUnseen, Rest
  <2>2. CASE Top(c).ts # 0
    BY <1>2, <2>2 DEF ReturnUnseen
  <2> QED BY <2>1, <2>2
<1>4. Popped(c)
  BY <1>1, <1>3, PoppedRest
<1>5. UNCHANGED <<clock, probes, start, stats, histo>>
  BY DEF ReturnUnseen
<1>6. TracerInv'
  BY <1>1, <1>4, <1>5, PopInv DEF TypeOK
<1> QED BY <1>4, <1>6

LEMMA ExitNothingInv ==
  ASSUME TracerInv, NEW c \in Ctx, ExitNothing(c)
  PROVE  TracerInv' /\ Popped(c)
<1>1. stack[c] \in Seq(Call) /\ Inside(c) /\ TypeOK
  BY DEF TracerInv, TypeOK, ExitNothing
<1>2. Popped(c)
  BY <1>1, SameSelf, PoppedRest DEF ExitNothing, Rest
<1>3. UNCHANGED <<clock, probes, start, stats, histo>>
  BY DEF ExitNothing
<1>4. TracerInv'
  BY <1>1, <1>2, <1>3, PopInv DEF TypeOK
<1> QED BY <1>2, <1>4

(* The heart of the matter: the duration that is added is at most the time  *)
(* the call lasted.                                                         *)
LEMMA ExitSampleInv ==
  ASSUME TracerInv, NEW c \in Ctx, ExitSample(c)
  PROVE  /\ TracerInv' /\ Popped(c)
         /\ \E d \in 0 .. (clock - Top(c).at) :
              stats' = [stats EXCEPT ![Top(c).fn] = Sample(@, d)]
<1> DEFINE k == KeyOf[c]
           f == Top(c).fn
           d == clock - start[k][f]
           n == Len(stack[c])
<1>1. /\ stack[c] \in Seq(Call) /\ Inside(c) /\ TypeOK /\ k \in Keys
      /\ n \in 1 .. Len(stack[c]) /\ Top(c) \in Call /\ f \in Funcs /\ Top(c).at \in Nat
  <2>1. stack[c] \in Seq(Call) /\ stack[c] # <<>> /\ TypeOK /\ Inside(c) /\ k \in Keys
    BY KeyOfType DEF TracerInv, TypeOK, ExitSample, Inside
  <2>2. n \in Nat \ {0} /\ Top(c) \in Call
    BY <2>1, TopFacts DEF Top
  <2>3. f \in Funcs /\ Top(c).at \in Nat
    BY <2>2, CallFields
  <2> QED BY <2>1, <2>2, <2>3
<1>2. start[k][f] \in Nat /\ clock \in Nat /\ start[k][f] <= clock
  <2>1. start[k][f] \in 0 .. MaxClock /\ clock \in 1 .. MaxClock
    BY <1>1 DEF TypeOK
  <2>2. start[k][f] <= clock
    BY <1>1 DEF TracerInv, StoreOK
  <2> QED BY <2>1, <2>2
<1>3. start[k][f] >= Top(c).at
  <2>1. CallOK(c, n)
    BY <1>1 DEF TracerInv
  <2>2. Armed(Top(c)) /\ Top(c).pc = "exit" /\ start[k][f] # 0
    BY <2>1 DEF ExitSample, CallOK, Nested, Top
  <2> QED BY <2>1, <2>2 DEF CallOK, NotBefore, Top
<1>4. d \in 0 .. (clock - Top(c).at) /\ d \in Nat
  BY <1>1, <1>2, <1>3
<1>5. Popped(c)
  BY <1>1, SameSelf, PoppedRest DEF ExitSample, Rest
<1>6. stats' = [stats EXCEPT ![f] = Sample(@, d)]
  BY DEF ExitSample
<1>7. UNCHANGED <<clock, probes>>
  BY DEF ExitSample
<1>8. stats' \in [Funcs -> [count : Nat, total : Nat, sumsq : Nat]]
  <2>1. d \div US \in Nat
    BY <1>4, NumbersOK
  <2>2. (d \div US) * (d \div US) \in Nat
    <3> DEFINE q == d \div US
    <3> HIDE DEF d
    <3>1. q \in Nat
      BY <2>1
    <3> HIDE DEF q
    <3>2. q * q \in Nat
      BY <3>1
    <3> QED BY <3>2 DEF q
  <2> DEFINE r == Sample(stats[f], d)
  <2>3. stats[f] \in [count : Nat, total : Nat, sumsq : Nat]
    BY <1>1 DEF TypeOK
  <2>4. r \in [count : Nat, total : Nat, sumsq : Nat]
    <3> HIDE DEF d
    <3> QED BY <1>4, <2>2, <2>3 DEF Sample
  <2>5. stats' = [stats EXCEPT ![f] = r]
    BY <1>6
  <2> HIDE DEF r, d
  <2> QED BY <1>1, <2>4, <2>5 DEF TypeOK
<1>9. histo' \in [Funcs -> [0 .. Buckets - 1 -> Nat]]
  <2> DEFINE b == Bucket(d)
             g == histo[f]
             h == Counted(g, d)
  <2>1. g \in [0 .. Buckets - 1 -> Nat]
    BY <1>1 DEF TypeOK
  <2>2. h = g \/ h = [g EXCEPT ![b] = g[b] + 1]
    BY DEF Counted
  <2> HIDE DEF b, g, h
  <2>3. h \in [0 .. Buckets - 1 -> Nat]
    <3>1. CASE b \in 0 .. Buckets - 1
      BY <2>1, <2>2, <3>1
    <3>2. CASE b \notin 0 .. Buckets - 1
      BY <2>1, <2>2, <3>2
    <3> QED BY <3>1, <3>2
  <2>4. histo' = [histo EXCEPT ![f] = h]
    BY DEF ExitSample, h, g
  <2> QED BY <1>1, <2>3, <2>4 DEF TypeOK
<1>10. /\ start' \in [Keys -> [Funcs -> 0 .. MaxClock]]
       /\ \A m \in Keys : \A g \in Funcs : start'[m][g] \in {0, start[m][g]}
  <2>1. start' = [start EXCEPT ![k] = [@ EXCEPT ![f] = 0]]
    BY DEF ExitSample
  <2>2. 0 \in 0 .. MaxClock
    BY NumbersOK
  <2> QED BY <1>1, <2>1, <2>2 DEF TypeOK
<1>11. TracerInv'
  BY <1>5, <1>7, <1>8, <1>9, <1>10, PopInv
<1> QED BY <1>4, <1>5, <1>6, <1>11

\* The innermost call of c moves on: x stands in its place.
LEMMA PutInv ==
  ASSUME TracerInv, NEW c \in Ctx, Inside(c), NEW x \in Call, NEW t, SameCalls(stack[c], t),
         stack' = [stack EXCEPT ![c] = [t EXCEPT ![Len(stack[c])] = x]],
         x.fn = Top(c).fn, x.at = Top(c).at, x.hooked = Top(c).hooked, x.blind = Top(c).blind,
         x.pc # "entry",
         x.pc = "exit" => Armed(x),
         UNCHANGED <<clock, probes, stats, histo>>,
         start' \in [Keys -> [Funcs -> 0 .. MaxClock]],
         \A k \in Keys : \A f \in Funcs :
           start'[k][f] = start[k][f] \/ (start'[k][f] = clock /\ "entry" \in probes[f]),
         Armed(x) /\ start'[KeyOf[c]][x.fn] # 0 => start'[KeyOf[c]][x.fn] >= x.at
  PROVE  /\ TracerInv'
         /\ \A d \in Ctx : Strip(stack'[d]) = Strip(stack[d])
<1>1. PICK n \in Nat \ {0} : n = Len(stack[c])
  BY TopFacts DEF TracerInv, TypeOK, Inside
<1>2. /\ stack[c] \in Seq(Call) /\ t \in Seq(Call) /\ Len(t) = n /\ stack[c][n] = Top(c)
      /\ stack \in [Ctx -> Seq(Call)] /\ n \in 1 .. Len(t) /\ clock \in Nat
  BY <1>1 DEF TracerInv, TypeOK, SameCalls, Top
<1> DEFINE u == [t EXCEPT ![n] = x]
<1>3. /\ u \in Seq(Call) /\ Len(u) = n
      /\ \A j \in 1 .. n : u[j] = IF j = n THEN x ELSE t[j]
  BY <1>2, ExceptSeq
<1>4. stack' = [stack EXCEPT ![c] = u]
  BY <1>1
<1> HIDE DEF u
<1>5. stack' \in [Ctx -> Seq(Call)] /\ stack'[c] = u /\ \A d \in Ctx \ {c} : stack'[d] = stack[d]
  BY <1>2, <1>3, <1>4
<1>6. TypeOK'
  BY <1>5 DEF TracerInv, TypeOK
<1>7. StoreOK'
  <2> SUFFICES ASSUME NEW k \in Keys, NEW f \in Funcs
               PROVE  /\ start'[k][f] <= clock
                      /\ "entry" \notin probes[f] => start'[k][f] = 0
    BY DEF StoreOK
  <2>1. /\ start[k][f] <= clock
        /\ "entry" \notin probes[f] => start[k][f] = 0
    BY DEF TracerInv, StoreOK
  <2>2. CASE start'[k][f] = start[k][f]
    BY <2>1, <2>2
  <2>3. CASE start'[k][f] = clock /\ "entry" \in probes[f]
    BY <1>2, <2>3
  <2> QED BY <2>2, <2>3
\* the calls that stay where they are
<1>8. ASSUME NEW d \in Ctx, NEW i \in 1 .. Len(stack[d]), d # c \/ i # n
      PROVE  CallOK(d, i)'
  <2> DEFINE y == stack'[d][i]
             z == stack[d][i]
  <2>1. \A j \in 1 .. Len(stack[d]) : (d # c \/ j # n) => SameCall(stack'[d][j], stack[d][j])
    BY <1>1, <1>3, <1>5 DEF SameCalls, SameCall
  <2>2. z.fn \in Funcs /\ z.at \in Nat /\ KeyOf[d] \in Keys /\ Len(stack[d]) \in Nat
    BY CallsTyped, CallFields, KeyOfType DEF TracerInv
  <2>3. \A j \in 1 .. i - 1 : stack'[d][j].pc = stack[d][j].pc
    <3>1. \A j \in 1 .. i - 1 : j \in 1 .. Len(stack[d]) /\ (d # c \/ j # n)
      BY <1>1, <2>2
    <3> QED BY <2>1, <3>1 DEF SameCall
  <2>4. CallOK(d, i)
    BY DEF TracerInv
  <2>5. /\ y.fn = z.fn /\ y.at = z.at /\ y.pc = z.pc
        /\ y.hooked = z.hooked /\ y.blind = z.blind
    BY <1>8, <2>1 DEF SameCall
  <2>6. start'[KeyOf[d]][z.fn] = start[KeyOf[d]][z.fn] \/ start'[KeyOf[d]][z.fn] = clock
    BY <2>2
  <2>7. NotBefore(d, i)'
    <3>1. NotBefore(d, i) /\ y.at <= clock
      BY <2>4, <2>5 DEF CallOK, Begun
    <3>2. CASE start'[KeyOf[d]][z.fn] = start[KeyOf[d]][z.fn]
      BY <2>5, <3>1, <3>2 DEF NotBefore, Armed
    <3>3. CASE start'[KeyOf[d]][z.fn] = clock
      BY <1>2, <2>2, <2>5, <3>1, <3>3 DEF NotBefore
    <3> QED BY <2>6, <3>2, <3>3
  <2>8. Nested(d, i)'
    BY <2>3, <2>4, <2>5 DEF CallOK, Nested, Armed
  <2>9. Begun(d, i)'
    BY <2>4, <2>5 DEF CallOK, Begun
  <2> QED BY <2>7, <2>8, <2>9 DEF CallOK
\* the innermost call of c
<1>9. CallOK(c, n)'
  <2>1. stack'[c][n] = x /\ \A j \in 1 .. n - 1 : stack'[c][j].pc = stack[c][j].pc
    <3>1. \A j \in 1 .. n - 1 : j \in 1 .. n /\ j # n
      BY <1>1
    <3>2. \A j \in 1 .. n : t[j].pc = stack[c][j].pc
      BY <1>1 DEF SameCalls, SameCall
    <3>3. stack'[c][n] = x /\ \A j \in 1 .. n - 1 : stack'[c][j] = t[j]
      BY <1>2, <1>3, <1>5, <3>1
    <3> QED BY <3>1, <3>2, <3>3
  <2>2. CallOK(c, n)
    BY <1>1, <1>2 DEF TracerInv
  <2>3. NotBefore(c, n)'
    BY <2>1 DEF NotBefore
  <2>4. Nested(c, n)'
    <3>1. x.pc # "body" => ~x.blind
      BY DEF Call, Armed
    <3>2. x.blind => \E j \in 1 .. n - 1 : stack'[c][j].pc # "body"
      <4>1. Nested(c, n) /\ stack[c][n].blind = x.blind
        BY <1>2, <2>2 DEF CallOK
      <4>2. x.blind => \E j \in 1 .. n - 1 : stack[c][j].pc # "body"
        BY <4>1 DEF Nested
      <4> QED BY <2>1, <4>2
    <3> QED BY <2>1, <3>1, <3>2 DEF Nested
  <2>5. Begun(c, n)'
    BY <1>2, <2>1, <2>2 DEF CallOK, Begun
  <2> QED BY <2>3, <2>4, <2>5 DEF CallOK
<1>10. ASSUME NEW d \in Ctx, NEW i \in 1 .. Len(stack'[d])
       PROVE  CallOK(d, i)'
  <2>1. i \in 1 .. Len(stack[d])
    BY <1>1, <1>3, <1>5
  <2> QED BY <1>8, <1>9, <2>1
<1>11. \A d \in Ctx : Strip(stack'[d]) = Strip(stack[d])
  <2>1. ASSUME NEW j \in 1 .. n
        PROVE  u[j].fn = stack[c][j].fn /\ u[j].at = stack[c][j].at
    <3>1. CASE j = n
      BY <1>2, <1>3, <3>1
    <3>2. CASE j # n
      <4>1. t[j].fn = stack[c][j].fn /\ t[j].at = stack[c][j].at
        BY <1>1 DEF SameCalls, SameCall
      <4> QED BY <1>3, <3>2, <4>1
    <3> QED BY <3>1, <3>2
  <2>2. Strip(u) = Strip(stack[c])
    BY <1>1, <1>2, <1>3, <2>1, StripSame
  <2> QED BY <1>5, <2>2
<1> QED BY <1>6, <1>7, <1>10, <1>11 DEF TracerInv

LEMMA EntryProgramInv ==
  ASSUME TracerInv, NEW c \in Ctx, EntryProgram(c)
  PROVE  TracerInv' /\ \A d \in Ctx : Strip(stack'[d]) = Strip(stack[d])
<1> DEFINE k == KeyOf[c]
           f == Top(c).fn
           n == Len(stack[c])
<1>1. /\ stack[c] \in Seq(Call) /\ stack[c] # <<>> /\ TypeOK /\ Inside(c) /\ k \in Keys
      /\ UNCHANGED <<clock, probes, stats, histo>> /\ Top(c).pc = "entry"
  BY KeyOfType DEF TracerInv, TypeOK, EntryProgram, Inside
<1>2. n \in 1 .. Len(stack[c]) /\ Top(c) \in Call /\ Top(c) = stack[c][n]
  BY <1>1, TopFacts DEF Top
<1>3. f \in Funcs /\ Top(c).at \in Nat /\ clock \in 1 .. MaxClock /\ clock \in Nat
  <2>1. f \in Funcs /\ Top(c).at \in Nat
    BY <1>2, CallFields
  <2>2. clock \in 1 .. MaxClock
    BY <1>1 DEF TypeOK
  <2> QED BY <2>1, <2>2
<1>4. "entry" \in probes[f] /\ Top(c).at <= clock
  BY <1>1, <1>2 DEF TracerInv, CallOK, Begun
<1>5. start \in [Keys -> [Funcs -> 0 .. MaxClock]]
  BY <1>1 DEF TypeOK
<1>6. CASE CanStore(k, f)
  <2> DEFINE x == [Top(c) EXCEPT !.pc = "body", !.ts = clock]
             t == Disturbed(c, f)
  <2>1. start' = [start EXCEPT ![k] = [@ EXCEPT ![f] = clock]]
    BY <1>6 DEF EntryProgram
  <2>2. stack' = [stack EXCEPT ![c] = [t EXCEPT ![n] = x]]
    BY <1>6 DEF EntryProgram
  <2>3. /\ x \in Call /\ x.fn = f /\ x.at = Top(c).at /\ x.hooked = Top(c).hooked
        /\ x.blind = Top(c).blind /\ x.pc = "body"
    <3>1. clock \in 0 .. MaxClock
      BY <1>3
    <3> QED BY <1>2, <3>1 DEF Call
  <2>4. SameCalls(stack[c], t)
    BY <1>1, <1>3, MarkFacts
  <2>5. /\ start' \in [Keys -> [Funcs -> 0 .. MaxClock]]
        /\ start'[k][f] = clock
        /\ \A m \in Keys : \A g \in Funcs :
             start'[m][g] = start[m][g] \/ (start'[m][g] = clock /\ "entry" \in probes[g])
    <3> DEFINE r == [start[k] EXCEPT ![f] = clock]
    <3>1. /\ r \in [Funcs -> 0 .. MaxClock] /\ r[f] = clock
          /\ \A g \in Funcs : r[g] = start[k][g] \/ (g = f /\ r[g] = clock)
      BY <1>1, <1>3, <1>5
    <3>2. start' = [start EXCEPT ![k] = r]
      BY <2>1
    <3> HIDE DEF r
    <3>3. /\ start' \in [Keys -> [Funcs -> 0 .. MaxClock]] /\ start'[k] = r
          /\ \A m \in Keys : start'[m] = start[m] \/ (m = k /\ start'[m] = r)
      BY <1>1, <1>5, <3>1, <3>2
    <3> QED BY <1>4, <3>1, <3>3
  <2>6. start'[k][x.fn] >= x.at
    BY <1>3, <1>4, <2>3, <2>5
  <2> HIDE DEF x, t
  <2> QED BY <1>1, <2>2, <2>3, <2>4, <2>5, <2>6, PutInv
<1>7. CASE ~CanStore(k, f)
  <2> DEFINE x == [Top(c) EXCEPT !.pc = "body"]
             t == stack[c]
  <2>1. start' = start
    BY <1>7 DEF EntryProgram
  <2>2. stack' = [stack EXCEPT ![c] = [t EXCEPT ![n] = x]]
    BY <1>7 DEF EntryProgram, WithTop
  <2>3. /\ x \in Call /\ x.fn = f /\ x.at = Top(c).at /\ x.hooked = Top(c).hooked
        /\ x.blind = Top(c).blind /\ x.pc = "body"
    BY <1>2, <1>3 DEF Call
  <2>4. SameCalls(stack[c], t)
    BY <1>1, SameSelf
  <2>5. start[k][f] = 0
    BY <1>7 DEF CanStore
  <2> HIDE DEF x, t
  <2>6. /\ start' \in [Keys -> [Funcs -> 0 .. MaxClock]]
        /\ \A m \in Keys : \A g \in Funcs :
             start'[m][g] = start[m][g] \/ (start'[m][g] = clock /\ "entry" \in probes[g])
        /\ start'[k][x.fn] = 0
    BY <1>5, <2>1, <2>3, <2>5
  <2>7. x.pc # "entry" /\ x.pc # "exit"
    BY <2>3
  <2> QED BY <1>1, <2>2, <2>3, <2>4, <2>6, <2>7, PutInv
<1> QED BY <1>6, <1>7

LEMMA ReturnHookedInv ==
  ASSUME TracerInv, NEW c \in Ctx, ReturnHooked(c)
  PROVE  TracerInv' /\ \A d \in Ctx : Strip(stack'[d]) = Strip(stack[d])
<1> DEFINE n == Len(stack[c])
           x == [Top(c) EXCEPT !.pc = "exit"]
           t == stack[c]
<1>1. /\ stack[c] \in Seq(Call) /\ stack[c] # <<>> /\ TypeOK /\ Inside(c)
      /\ UNCHANGED <<clock, probes, start, stats, histo>> /\ Top(c).pc = "body"
      /\ Top(c).hooked /\ ~Active(c)
  BY DEF TracerInv, TypeOK, ReturnHooked, Inside
<1>2. n \in 1 .. Len(stack[c]) /\ Top(c) \in Call /\ Top(c) = stack[c][n] /\ n \in Nat
  BY <1>1, TopFacts DEF Top
<1>3. CallOK(c, n)
  BY <1>2 DEF TracerInv
<1>4. ~Top(c).blind
  <2>1. \A j \in 1 .. n - 1 : j \in 1 .. n
    BY <1>2
  <2>2. \A j \in 1 .. n - 1 : stack[c][j].pc = "body"
    BY <1>1, <2>1, ActiveFacts
  <2> QED BY <1>2, <1>3, <2>2 DEF CallOK, Nested
<1>5. stack' = [stack EXCEPT ![c] = [t EXCEPT ![n] = x]]
  BY DEF ReturnHooked, WithTop
<1>6. /\ x \in Call /\ x.fn = Top(c).fn /\ x.at = Top(c).at /\ x.hooked = Top(c).hooked
      /\ x.blind = Top(c).blind /\ x.pc = "exit"
  BY <1>2 DEF Call
<1>7. SameCalls(stack[c], t)
  BY <1>1, SameSelf
<1>8. start \in [Keys -> [Funcs -> 0 .. MaxClock]]
  BY <1>1 DEF TypeOK
<1>9. Armed(x) /\ (start[KeyOf[c]][x.fn] # 0 => start[KeyOf[c]][x.fn] >= x.at)
  BY <1>1, <1>2, <1>3, <1>4, <1>6 DEF CallOK, NotBefore, Armed
<1> HIDE DEF x, t
<1>10. /\ start' \in [Keys -> [Funcs -> 0 .. MaxClock]]
       /\ \A m \in Keys : \A g \in Funcs :
            start'[m][g] = start[m][g] \/ (start'[m][g] = clock /\ "entry" \in probes[g])
       /\ Armed(x) /\ start'[KeyOf[c]][x.fn] # 0 => start'[KeyOf[c]][x.fn] >= x.at
  BY <1>1, <1>8, <1>9
<1>11. x.pc # "entry" /\ (x.pc = "exit" => Armed(x))
  BY <1>6, <1>9
<1> QED BY <1>1, <1>5, <1>6, <1>7, <1>10, <1>11, PutInv

-----------------------------------------------------------------------------
LEMMA TracerInit == Init => TracerInv
<1> SUFFICES ASSUME Init PROVE TracerInv
  OBVIOUS
<1>1. \A c \in Ctx : stack[c] = <<>>
  BY DEF Init
<1>2. stack \in [Ctx -> Seq(Call)]
  BY EmptySeq DEF Init
<1>3. TypeOK
  BY <1>2, NumbersOK DEF Init, TypeOK
<1>4. StoreOK
  BY DEF Init, StoreOK
<1> QED BY <1>1, <1>3, <1>4 DEF TracerInv

LEMMA TracerNext == TracerInv /\ [Next]_vars => TracerInv'
<1> SUFFICES ASSUME TracerInv, [Next]_vars PROVE TracerInv'
  OBVIOUS
<1>1. CASE Tick
  BY <1>1, TickInv
<1>2. ASSUME NEW f \in Funcs, AttachEntry(f) \/ AttachExit(f)
      PROVE  TracerInv'
  BY <1>2, AttachInv
<1>3. ASSUME NEW c \in Ctx, Step(c)
      PROVE  TracerInv'
  BY <1>3, EnterInv, EntryProgramInv, ReturnUnseenInv, ReturnHookedInv, ExitNothingInv,
     ExitSampleInv DEF Step
<1>4. CASE UNCHANGED vars
  BY <1>4 DEF vars, TracerInv, TypeOK, StoreOK, CallOK, NotBefore, Nested, Begun
<1> QED BY <1>1, <1>2, <1>3, <1>4 DEF Next

\* Every variable stays in its range, for every set of contexts, keys and
\* functions.
THEOREM TracerTypeOK == Spec => []TypeOK
<1>1. TracerInv => TypeOK
  BY DEF TracerInv
<1> QED BY <1>1, TracerInit, TracerNext, PTL DEF Spec

-----------------------------------------------------------------------------
(* The refinement: what a step of the tracer is to the sampler. *)
LEMMA SampledPop ==
  ASSUME TracerInv, NEW c \in Ctx, Inside(c), Popped(c), UNCHANGED clock,
         \/ UNCHANGED stats
         \/ \E d \in 0 .. (clock - Top(c).at) :
              stats' = [stats EXCEPT ![Top(c).fn] = Sample(@, d)]
  PROVE  Sampler!EndUnseen(c) \/ Sampler!EndSampled(c)
<1> DEFINE open == [e \in Ctx |-> Strip(stack[e])]
           count == [f \in Funcs |-> stats[f].count]
           total == [f \in Funcs |-> stats[f].total]
           n == Len(stack[c])
<1>1. /\ stack[c] \in Seq(Call) /\ stack[c] # <<>> /\ n \in 1 .. n /\ Top(c) \in Call
      /\ Top(c) = stack[c][n] /\ n # 0 /\ stats \in [Funcs -> [count : Nat, total : Nat, sumsq : Nat]]
      /\ stack \in [Ctx -> Seq(Call)]
  BY TopFacts DEF TracerInv, TypeOK, Inside, Top
<1>2. open[c] # <<>> /\ Len(open[c]) = n
  BY <1>1, StripType
<1>3. open[c][n] = [fn |-> Top(c).fn, at |-> Top(c).at]
  BY <1>1 DEF Strip
<1>4. open' = [open EXCEPT ![c] = SubSeq(open[c], 1, Len(open[c]) - 1)]
  <2>1. stack' = [stack EXCEPT ![c] = stack'[c]]
        /\ Strip(stack'[c]) = SubSeq(Strip(stack[c]), 1, Len(Strip(stack[c])) - 1)
    BY DEF Popped
  <2>2. \A e \in Ctx \ {c} : stack'[e] = stack[e]
    BY <1>1, <2>1
  <2> QED BY <2>1, <2>2
<1>5. CASE UNCHANGED stats
  BY <1>2, <1>4, <1>5 DEF Sampler!EndUnseen, Sampler!Oldest
<1>6. ASSUME NEW d \in 0 .. (clock - Top(c).at),
             stats' = [stats EXCEPT ![Top(c).fn] = Sample(@, d)]
      PROVE  Sampler!EndSampled(c)
  <2> DEFINE g == Top(c).fn
  <2>1. g \in Funcs
    BY <1>1, CallFields
  <2>2. /\ \A f \in Funcs \ {g} : stats'[f] = stats[f]
        /\ stats'[g].count = stats[g].count + 1 /\ stats'[g].total = stats[g].total + d
    <3> DEFINE s == stats[g]
               t == Sample(s, d)
    <3>1. s.count + 1 = t.count /\ s.total + d = t.total
      BY DEF Sample
    <3>2. stats' = [stats EXCEPT ![g] = t]
      BY <1>6
    <3> HIDE DEF g, t
    <3>3. stats'[g] = t /\ \A f \in Funcs \ {g} : stats'[f] = stats[f]
      BY <1>1, <2>1, <3>2
    <3> QED BY <3>1, <3>3
  <2>3. count' = [count EXCEPT ![g] = count[g] + 1]
    BY <2>1, <2>2
  <2>4. total' = [total EXCEPT ![g] = total[g] + d]
    BY <2>1, <2>2
  <2>5. Sampler!Inner(c) = [fn |-> g, at |-> Top(c).at]
    BY <1>2, <1>3 DEF Sampler!Inner
  <2> HIDE DEF g, open, count, total
  <2>6. Sampler!Inner(c).fn = g /\ Sampler!Inner(c).at = Top(c).at
    BY <2>5
  <2> QED BY <1>2, <1>4, <2>3, <2>4, <2>6, Zenon DEF Sampler!EndSampled, Sampler!Oldest, open, count, total
<1> QED BY <1>5, <1>6

LEMMA SamplerStep ==
  TracerInv /\ [Next]_vars => [Sampler!Next]_(Sampler!vars)
<1> SUFFICES ASSUME TracerInv, [Next]_vars PROVE [Sampler!Next]_(Sampler!vars)
  OBVIOUS
<1> DEFINE open == [e \in Ctx |-> Strip(stack[e])]
<1>1. CASE Tick
  BY <1>1 DEF Tick, Sampler!Next, Sampler!Tick
<1>2. ASSUME UNCHANGED <<clock, stats>>, open' = open
      PROVE  UNCHANGED Sampler!vars
  BY <1>2 DEF Sampler!vars
<1>3. ASSUME NEW f \in Funcs, AttachEntry(f) \/ AttachExit(f)
      PROVE  UNCHANGED Sampler!vars
  BY <1>2, <1>3 DEF AttachEntry, AttachExit
<1>4. ASSUME NEW c \in Ctx, NEW f \in Funcs, Enter(c, f)
      PROVE  Sampler!Begin(c, f)
  <2>1. /\ Strip(stack'[c]) = Append(Strip(stack[c]), [fn |-> f, at |-> clock])
        /\ stack' = [stack EXCEPT ![c] = stack'[c]] /\ stack \in [Ctx -> Seq(Call)]
    BY <1>4, EnterInv DEF TracerInv, TypeOK
  <2>2. \A e \in Ctx \ {c} : stack'[e] = stack[e]
    BY <2>1
  <2>3. open' = [open EXCEPT ![c] = Append(open[c], [fn |-> f, at |-> clock])]
    BY <2>1, <2>2
  <2>4. UNCHANGED <<clock, stats>>
    BY <1>4 DEF Enter
  <2> QED BY <2>3, <2>4 DEF Sampler!Begin
<1>5. ASSUME NEW c \in Ctx, EntryProgram(c) \/ ReturnHooked(c)
      PROVE  UNCHANGED Sampler!vars
  <2>1. \A e \in Ctx : Strip(stack'[e]) = Strip(stack[e])
    BY <1>5, EntryProgramInv, ReturnHookedInv
  <2>2. UNCHANGED <<clock, stats>>
    BY <1>5 DEF EntryProgram, ReturnHooked
  <2> QED BY <1>2, <2>1, <2>2
<1>6. ASSUME NEW c \in Ctx, ReturnUnseen(c) \/ ExitNothing(c) \/ ExitSample(c)
      PROVE  Sampler!EndUnseen(c) \/ Sampler!EndSampled(c)
  <2>1. Popped(c)
    BY <1>6, ReturnUnseenInv, ExitNothingInv, ExitSampleInv
  <2>2. Inside(c) /\ UNCHANGED clock
    BY <1>6 DEF ReturnUnseen, ExitNothing, ExitSample
  <2>3. \/ UNCHANGED stats
        \/ \E d \in 0 .. (clock - Top(c).at) :
             stats' = [stats EXCEPT ![Top(c).fn] = Sample(@, d)]
    BY <1>6, ExitSampleInv DEF ReturnUnseen, ExitNothing
  <2> QED BY <2>1, <2>2, <2>3, SampledPop
<1>7. CASE UNCHANGED vars
  BY <1>2, <1>7 DEF vars
<1> QED BY <1>1, <1>3, <1>4, <1>5, <1>6, <1>7 DEF Next, Step, Sampler!Next

(* The tracer implements the sampler: whatever nests, whatever return is    *)
(* missed, however small the map and whoever shares a key, no call is       *)
(* sampled twice and none is credited with more time than it took.          *)
THEOREM TracerImplementsSampler == Spec => ImplementsSampler
<1>1. Init => Sampler!Init
  <2>1. Strip(<<>>) = <<>>
    BY DEF Strip
  <2> QED BY <2>1 DEF Init, Sampler!Init
<1> QED BY <1>1, TracerInit, TracerNext, SamplerStep, PTL DEF Spec, ImplementsSampler, Sampler!Spec

----------------------------------------------------------------------------
(***************************************************************************)
(* What an exit program finds under the key of its context is the time its *)
(* own call stored, or nothing, unless a nested call of the function       *)
(* interfered.                                                             *)
(***************************************************************************)
(* The entry program had its chance, and the exit program may have its own. *)
Seen(call) == ~call.blind /\ call.pc # "entry"

TimeOf(c, f) == start[KeyOf[c]][f]

(* While no nested call stores a time, the stored time is the call's own. *)
OwnTime(c, i) ==
  LET call == stack[c][i]
  IN Private(c) /\ Seen(call) /\ ~call.disturbed => TimeOf(c, call.fn) = call.ts

(* It is the time of the call or of one nested in it that has not returned, *)
(* as long as none of those returned unseen.                                *)
OwnOrInner(c, i) ==
  LET call == stack[c][i]
  IN Private(c) /\ Seen(call) /\ ~call.stray =>
       \/ TimeOf(c, call.fn) = 0
       \/ \E j \in i .. Len(stack[c]) :
            stack[c][j].fn = call.fn /\ stack[c][j].ts = TimeOf(c, call.fn)

(* A call is marked when a nested call of its function has stored a time, or *)
(* is itself marked.                                                         *)
Marks(c, i) ==
  LET call == stack[c][i]
  IN \A j \in i + 1 .. Len(stack[c]) :
       /\ stack[c][j].fn = call.fn
       /\ stack[c][j].ts # 0 \/ stack[c][j].disturbed
       => call.disturbed

(* The time is stored at the end of the entry program. *)
NotYet(c, i) == stack[c][i].pc = "entry" => stack[c][i].ts = 0

CallExact(c, i) == OwnTime(c, i) /\ OwnOrInner(c, i) /\ Marks(c, i) /\ NotYet(c, i)

Exact == \A c \in Ctx : \A i \in 1 .. Len(stack[c]) : CallExact(c, i)

ExactInv == TracerInv /\ Exact

-----------------------------------------------------------------------------
\* What a context does leaves the others as they are.
LEMMA ExactOthers ==
  ASSUME TracerInv, Exact, NEW c \in Ctx,
         \A d \in Ctx \ {c} : stack'[d] = stack[d],
         \A k \in Keys \ {KeyOf[c]} : start'[k] = start[k]
  PROVE  \A d \in Ctx \ {c} : \A i \in 1 .. Len(stack'[d]) : CallExact(d, i)'
<1> SUFFICES ASSUME NEW d \in Ctx \ {c}, NEW i \in 1 .. Len(stack'[d])
             PROVE  CallExact(d, i)'
  OBVIOUS
<1>1. stack'[d] = stack[d]
  OBVIOUS
<1>2. Private(d) => start'[KeyOf[d]] = start[KeyOf[d]]
  <2> SUFFICES ASSUME Private(d) PROVE start'[KeyOf[d]] = start[KeyOf[d]]
    OBVIOUS
  <2>1. KeyOf[d] \in Keys /\ KeyOf[c] # KeyOf[d]
    BY KeyOfType DEF Private
  <2> QED BY <2>1
<1>3. CallExact(d, i)
  BY <1>1 DEF Exact
<1>4. Private(d)' <=> Private(d)
  BY DEF Private
<1>5. OwnTime(d, i)'
  BY <1>1, <1>2, <1>3, <1>4 DEF CallExact, OwnTime, Seen, TimeOf
<1>6. OwnOrInner(d, i)'
  BY <1>1, <1>2, <1>3, <1>4 DEF CallExact, OwnOrInner, Seen, TimeOf
<1>7. Marks(d, i)' /\ NotYet(d, i)'
  BY <1>1, <1>3 DEF CallExact, Marks, NotYet
<1> QED BY <1>5, <1>6, <1>7 DEF CallExact

(* Nothing a call has to do with changes, except that it may be marked. *)
Kept(x, y) ==
  /\ x.fn = y.fn /\ x.ts = y.ts /\ x.pc = y.pc /\ x.blind = y.blind
  /\ x.disturbed = y.disturbed /\ (y.stray => x.stray)

LEMMA ExactPush ==
  ASSUME TracerInv, Exact, NEW c \in Ctx, NEW x \in Call, NEW n \in Nat, n = Len(stack[c]),
         Len(stack'[c]) = n + 1,
         stack'[c][n + 1] = x,
         \A i \in 1 .. n : stack'[c][i] = stack[c][i],
         \A d \in Ctx \ {c} : stack'[d] = stack[d],
         start' = start,
         x.ts = 0, ~x.disturbed,
         Seen(x) => TimeOf(c, x.fn) = 0
  PROVE  Exact'
<1>1. \A d \in Ctx \ {c} : \A i \in 1 .. Len(stack'[d]) : CallExact(d, i)'
  BY ExactOthers
<1>2. CallExact(c, n + 1)'
  <2>1. Seen(x) => start'[KeyOf[c]][x.fn] = 0
    BY DEF TimeOf
  <2>2. OwnTime(c, n + 1)'
    BY <2>1 DEF OwnTime, Seen, TimeOf
  <2>3. OwnOrInner(c, n + 1)'
    BY <2>1 DEF OwnOrInner, Seen, TimeOf
  <2>4. Marks(c, n + 1)'
    BY DEF Marks
  <2>5. NotYet(c, n + 1)'
    BY DEF NotYet
  <2> QED BY <2>2, <2>3, <2>4, <2>5 DEF CallExact
<1>3. ASSUME NEW i \in 1 .. n
      PROVE  CallExact(c, i)'
  <2>1. CallExact(c, i) /\ stack'[c][i] = stack[c][i]
    BY DEF Exact
  <2>2. Private(c)' <=> Private(c)
    BY DEF Private
  <2>3. OwnTime(c, i)'
    BY <2>1, <2>2 DEF CallExact, OwnTime, Seen, TimeOf
  <2>4. OwnOrInner(c, i)'
    <3> DEFINE call == stack[c][i]
    <3> SUFFICES ASSUME Private(c), Seen(call), ~call.stray, TimeOf(c, call.fn) # 0
                 PROVE  \E j \in i .. n + 1 :
                          stack'[c][j].fn = call.fn /\ stack'[c][j].ts = TimeOf(c, call.fn)
      BY <2>1, <2>2 DEF OwnOrInner, Seen, TimeOf
    <3>1. PICK j \in i .. n : stack[c][j].fn = call.fn /\ stack[c][j].ts = TimeOf(c, call.fn)
      BY <2>1 DEF CallExact, OwnOrInner
    <3>2. j \in i .. n + 1 /\ stack'[c][j] = stack[c][j]
      OBVIOUS
    <3> QED BY <3>1, <3>2
  <2>5. Marks(c, i)'
    <3> SUFFICES ASSUME NEW j \in i + 1 .. n + 1, stack'[c][j].fn = stack[c][i].fn,
                        stack'[c][j].ts # 0 \/ stack'[c][j].disturbed
                 PROVE  stack[c][i].disturbed
      BY <2>1 DEF Marks
    <3>1. j # n + 1
      OBVIOUS
    <3>2. j \in i + 1 .. n /\ stack'[c][j] = stack[c][j]
      BY <3>1
    <3>3. Marks(c, i)
      BY <2>1 DEF CallExact
    <3> QED BY <3>2, <3>3 DEF Marks
  <2>6. NotYet(c, i)'
    BY <2>1 DEF CallExact, NotYet
  <2> QED BY <2>3, <2>4, <2>5, <2>6 DEF CallExact
<1>4. \A i \in 1 .. n + 1 : i = n + 1 \/ i \in 1 .. n
  OBVIOUS
<1>5. \A i \in 1 .. Len(stack'[c]) : CallExact(c, i)'
  BY <1>2, <1>3, <1>4
<1> QED BY <1>1, <1>5 DEF Exact

(* The innermost call returns.  Either its exit program takes the time that *)
(* is there, or the time stays: and then there is none, or it is not the    *)
(* call's, or what is below is marked.                                      *)
LEMMA ExactPop ==
  ASSUME TracerInv, Exact, NEW c \in Ctx, Inside(c), NEW n \in Nat \ {0}, n = Len(stack[c]),
         Len(stack'[c]) = n - 1,
         \A i \in 1 .. n - 1 : Kept(stack'[c][i], stack[c][i]),
         \A d \in Ctx \ {c} : stack'[d] = stack[d],
         \A k \in Keys \ {KeyOf[c]} : start'[k] = start[k],
         \A g \in Funcs \ {Top(c).fn} : start'[KeyOf[c]][g] = TimeOf(c, g),
         \/ /\ Seen(Top(c)) /\ TimeOf(c, Top(c).fn) # 0
            /\ start'[KeyOf[c]][Top(c).fn] = 0
         \/ /\ start'[KeyOf[c]][Top(c).fn] = TimeOf(c, Top(c).fn)
            /\ \/ TimeOf(c, Top(c).fn) = 0
               \/ Top(c).ts = 0
               \/ \A i \in 1 .. n - 1 : stack'[c][i].fn = Top(c).fn => stack'[c][i].stray
  PROVE  Exact'
<1> DEFINE f == Top(c).fn
<1>1. \A d \in Ctx \ {c} : \A i \in 1 .. Len(stack'[d]) : CallExact(d, i)'
  BY ExactOthers
<1>2. ASSUME NEW i \in 1 .. n - 1
      PROVE  CallExact(c, i)'
  <2> DEFINE x == stack'[c][i]
             y == stack[c][i]
             now == start'[KeyOf[c]][y.fn]
  <2>1. i \in 1 .. n /\ n \in i + 1 .. n /\ n \in 1 .. n
    OBVIOUS
  <2>2. /\ OwnTime(c, i) /\ OwnOrInner(c, i) /\ Marks(c, i) /\ NotYet(c, i)
        /\ OwnTime(c, n)
    BY <2>1 DEF Exact, CallExact
  <2>3. /\ x.fn = y.fn /\ x.ts = y.ts /\ x.disturbed = y.disturbed /\ (y.stray => x.stray)
        /\ x.pc = y.pc /\ (Seen(x) <=> Seen(y))
    BY DEF Kept, Seen
  <2>4. y.fn \in Funcs
    BY <2>1, CallsTyped, CallFields DEF TracerInv
  <2>5. Top(c) = stack[c][n] /\ (Private(c)' <=> Private(c))
    BY DEF Top, Private
  <2>6. OwnTime(c, i)'
    <3> SUFFICES ASSUME Private(c), Seen(y), ~y.disturbed
                 PROVE  now = y.ts
      BY <2>3, <2>5 DEF OwnTime, Seen, TimeOf
    <3>1. TimeOf(c, y.fn) = y.ts
      BY <2>2 DEF OwnTime
    <3>2. CASE y.fn # f
      BY <2>4, <3>1, <3>2
    <3>3. CASE y.fn = f /\ start'[KeyOf[c]][f] = TimeOf(c, f)
      BY <3>1, <3>3
    <3>4. CASE y.fn = f /\ Seen(Top(c)) /\ TimeOf(c, f) # 0
      \* the time is not the top's own, or the call below would be marked
      <4>1. ~(Top(c).ts # 0 \/ Top(c).disturbed)
        BY <2>1, <2>2, <2>5, <3>4 DEF Marks
      <4>2. TimeOf(c, f) = Top(c).ts
        BY <2>2, <2>5, <3>4, <4>1 DEF OwnTime
      <4> QED BY <3>1, <3>4, <4>1, <4>2
    <3> QED BY <3>2, <3>3, <3>4
  <2>7. ASSUME Private(c), Seen(y), ~x.stray, now # 0
        PROVE  \E j \in i .. n - 1 : stack'[c][j].fn = y.fn /\ stack'[c][j].ts = now
    <3> USE <2>7
    <3>1. now = TimeOf(c, y.fn)
      <4>1. CASE y.fn # f
        BY <2>4, <4>1
      <4>2. CASE y.fn = f
        BY <4>2
      <4> QED BY <4>1, <4>2
    <3>2. PICK j \in i .. n : stack[c][j].fn = y.fn /\ stack[c][j].ts = now
      BY <2>2, <2>3, <3>1 DEF OwnOrInner
    <3>3. j # n
      <4>1. CASE y.fn # f
        BY <2>5, <3>2, <4>1
      <4>2. CASE y.fn = f
        <5>1. Top(c).ts = 0 \/ x.stray
          BY <2>3, <3>1, <4>2
        <5> QED BY <2>5, <3>2, <5>1
      <4> QED BY <4>1, <4>2
    <3>4. j \in i .. n - 1 /\ j \in 1 .. n - 1
      BY <3>3
    <3>5. stack'[c][j].fn = stack[c][j].fn /\ stack'[c][j].ts = stack[c][j].ts
      BY <3>4 DEF Kept
    <3>6. stack'[c][j].fn = y.fn /\ stack'[c][j].ts = now
      BY <3>2, <3>5
    <3> HIDE DEF y, now
    <3> QED BY <3>4, <3>6, Zenon
  <2>8. OwnOrInner(c, i)'
    <3> SUFFICES ASSUME Private(c)', Seen(x), ~x.stray, start'[KeyOf[c]][x.fn] # 0
                 PROVE  \E j \in i .. Len(stack'[c]) :
                          /\ stack'[c][j].fn = x.fn
                          /\ stack'[c][j].ts = start'[KeyOf[c]][x.fn]
      BY Zenon DEF OwnOrInner, Seen, TimeOf
    <3>1. Private(c) /\ Seen(y) /\ now # 0 /\ now = start'[KeyOf[c]][x.fn] /\ x.fn = y.fn
      BY <2>3, <2>5
    <3> HIDE DEF x, y, now
    <3> QED BY <2>7, <3>1
  <2>9. Marks(c, i)'
    <3> SUFFICES ASSUME NEW j \in i + 1 .. n - 1, stack'[c][j].fn = y.fn,
                        stack'[c][j].ts # 0 \/ stack'[c][j].disturbed
                 PROVE  y.disturbed
      BY <2>3 DEF Marks
    <3>1. j \in i + 1 .. n /\ j \in 1 .. n - 1
      OBVIOUS
    <3>2. /\ stack'[c][j].fn = stack[c][j].fn /\ stack'[c][j].ts = stack[c][j].ts
          /\ stack'[c][j].disturbed = stack[c][j].disturbed
      BY <3>1 DEF Kept
    <3> QED BY <2>2, <3>1, <3>2 DEF Marks
  <2>10. NotYet(c, i)'
    BY <2>2, <2>3 DEF NotYet
  <2> QED BY <2>6, <2>8, <2>9, <2>10 DEF CallExact
<1>3. \A i \in 1 .. Len(stack'[c]) : CallExact(c, i)'
  BY <1>2
<1> QED BY <1>1, <1>3 DEF Exact

(* The innermost call moves on: x stands in its place.  It leaves its entry *)
(* program with its time stored and the calls below marked (M is its        *)
(* function), or nothing changes but where it is (M is empty).              *)
\* t is s, marked as disturbed if its function is in M.
Touched(t, s, M) ==
  /\ t.fn = s.fn /\ t.ts = s.ts /\ t.pc = s.pc /\ t.blind = s.blind
  /\ t.stray = s.stray
  /\ t.disturbed <=> s.disturbed \/ s.fn \in M

PutStack(c, n, x, M) ==
  /\ n = Len(stack[c]) /\ Len(stack'[c]) = n /\ stack'[c][n] = x
  /\ \A i \in 1 .. n - 1 : Touched(stack'[c][i], stack[c][i], M)
  /\ \A d \in Ctx \ {c} : stack'[d] = stack[d]

PutTimes(c, x, M) ==
  LET now == start'[KeyOf[c]][x.fn]
  IN /\ \A k \in Keys \ {KeyOf[c]} : start'[k] = start[k]
     /\ \A g \in Funcs \ {x.fn} : start'[KeyOf[c]][g] = TimeOf(c, g)
     /\ x.fn \in M => now = x.ts
     /\ x.fn \notin M =>
          /\ now = TimeOf(c, x.fn) /\ x.ts = Top(c).ts
          /\ Top(c).pc = "entry" => TimeOf(c, x.fn) = 0

\* x is the innermost call of c, past its entry program.
PutCall(c, x) ==
  /\ x.fn = Top(c).fn /\ x.blind = Top(c).blind /\ x.pc # "entry"
  /\ x.disturbed = Top(c).disturbed /\ x.stray = Top(c).stray

LEMMA ExactPut ==
  ASSUME TracerInv, Exact, NEW c \in Ctx, NEW n \in Nat \ {0},
         NEW x \in Call, NEW M \in SUBSET {x.fn},
         PutStack(c, n, x, M), PutTimes(c, x, M), PutCall(c, x)
  PROVE  Exact'
<1> DEFINE now == start'[KeyOf[c]][x.fn]
<1>a. /\ n = Len(stack[c]) /\ Len(stack'[c]) = n /\ stack'[c][n] = x
      /\ \A i \in 1 .. n - 1 : Touched(stack'[c][i], stack[c][i], M)
  BY DEF PutStack
<1>b. /\ \A d \in Ctx \ {c} : stack'[d] = stack[d]
      /\ \A k \in Keys \ {KeyOf[c]} : start'[k] = start[k]
  BY DEF PutStack, PutTimes
<1>c. \A g \in Funcs \ {x.fn} : start'[KeyOf[c]][g] = TimeOf(c, g)
  BY DEF PutTimes
<1>d. /\ x.fn \in M => now = x.ts
      /\ x.fn \notin M =>
           /\ now = TimeOf(c, x.fn) /\ x.ts = Top(c).ts
           /\ Top(c).pc = "entry" => TimeOf(c, x.fn) = 0
  BY DEF PutTimes
<1>e. /\ x.fn = Top(c).fn /\ x.blind = Top(c).blind /\ x.pc # "entry"
      /\ x.disturbed = Top(c).disturbed /\ x.stray = Top(c).stray
  BY DEF PutCall
<1>1. \A d \in Ctx \ {c} : \A i \in 1 .. Len(stack'[d]) : CallExact(d, i)'
  BY <1>b, ExactOthers
<1>2. /\ n \in 1 .. n /\ Top(c) = stack[c][n] /\ x.fn \in Funcs
      /\ (Private(c)' <=> Private(c))
  BY <1>a, CallFields DEF Top, Private
<1>3. CallExact(c, n)
  BY <1>a, <1>2 DEF Exact
<1>4. CallExact(c, n)'
  <2>1. OwnTime(c, n)'
    <3> SUFFICES ASSUME Private(c), Seen(x), ~x.disturbed
                 PROVE  now = x.ts
      BY <1>a, <1>2 DEF OwnTime, Seen, TimeOf
    <3>1. CASE x.fn \in M
      BY <1>d, <3>1
    <3>2. CASE x.fn \notin M /\ Top(c).pc = "entry"
      BY <1>2, <1>3, <1>d, <3>2 DEF CallExact, NotYet
    <3>3. CASE x.fn \notin M /\ Top(c).pc # "entry"
      BY <1>2, <1>3, <1>d, <1>e, <3>3 DEF CallExact, OwnTime, Seen
    <3> QED BY <3>1, <3>2, <3>3
  <2>2. OwnOrInner(c, n)'
    <3> SUFFICES ASSUME Private(c), Seen(x), ~x.stray
                 PROVE  now = 0 \/ now = x.ts
      BY <1>a, <1>2 DEF OwnOrInner, Seen, TimeOf
    <3>1. CASE x.fn \notin M /\ Top(c).pc # "entry"
      <4>1. OwnOrInner(c, n)
        BY <1>3 DEF CallExact
      <4>2. Seen(Top(c)) /\ \A j \in n .. n : j = n
        BY <1>e, <3>1 DEF Seen
      <4>3. TimeOf(c, x.fn) = 0 \/ TimeOf(c, x.fn) = Top(c).ts
        BY <1>a, <1>2, <1>e, <4>1, <4>2 DEF OwnOrInner
      <4> QED BY <1>d, <3>1, <4>3
    <3> QED BY <1>d, <3>1
  <2>3. Marks(c, n)'
    BY <1>a, <1>2 DEF Marks
  <2>4. NotYet(c, n)'
    BY <1>a, <1>e DEF NotYet
  <2> QED BY <2>1, <2>2, <2>3, <2>4 DEF CallExact
<1>5. ASSUME NEW i \in 1 .. n - 1
      PROVE  CallExact(c, i)'
  <2> DEFINE t == stack'[c][i]
             s == stack[c][i]
  <2>1. i \in 1 .. n /\ n \in i .. n /\ n \in i + 1 .. n
    OBVIOUS
  <2>2. /\ t.fn = s.fn /\ t.ts = s.ts /\ t.pc = s.pc /\ t.blind = s.blind
        /\ t.stray = s.stray
        /\ t.disturbed <=> s.disturbed \/ s.fn \in M
    BY <1>a DEF Touched
  <2>3. CallExact(c, i) /\ s.fn \in Funcs
    BY <1>a, <2>1, CallsTyped, CallFields DEF Exact, TracerInv
  <2>4. ASSUME NEW j \in i + 1 .. n
        PROVE  /\ stack'[c][j].fn = stack[c][j].fn
               /\ j # n => /\ stack'[c][j].ts = stack[c][j].ts
                           /\ stack'[c][j].disturbed <=>
                                stack[c][j].disturbed \/ stack[c][j].fn \in M
    <3>1. CASE j = n
      BY <1>a, <1>2, <1>e, <3>1
    <3>2. CASE j # n
      <4>1. j \in 1 .. n - 1
        BY <3>2
      <4> QED BY <1>a, <4>1 DEF Touched
    <3> QED BY <3>1, <3>2
  <2>5. OwnTime(c, i)'
    <3> SUFFICES ASSUME Private(c), Seen(s), ~t.disturbed
                 PROVE  start'[KeyOf[c]][s.fn] = s.ts
      BY <1>2, <2>2 DEF OwnTime, Seen, TimeOf
    <3>1. TimeOf(c, s.fn) = s.ts /\ s.fn \notin M
      BY <2>2, <2>3 DEF CallExact, OwnTime
    <3>2. CASE s.fn # x.fn
      BY <1>c, <2>3, <3>1, <3>2
    <3>3. CASE s.fn = x.fn
      BY <1>d, <3>1, <3>3
    <3> QED BY <3>2, <3>3
  <2>6. OwnOrInner(c, i)'
    <3> SUFFICES ASSUME Private(c), Seen(s), ~s.stray, start'[KeyOf[c]][s.fn] # 0
                 PROVE  \E j \in i .. n :
                          /\ stack'[c][j].fn = s.fn
                          /\ stack'[c][j].ts = start'[KeyOf[c]][s.fn]
      BY <1>a, <1>2, <2>2 DEF OwnOrInner, Seen, TimeOf
    <3>1. CASE s.fn \in M
      BY <1>a, <1>d, <2>1, <3>1
    <3>2. CASE s.fn \notin M
      <4>1. start'[KeyOf[c]][s.fn] = TimeOf(c, s.fn)
        <5>1. CASE s.fn = x.fn
          BY <1>d, <3>2, <5>1
        <5>2. CASE s.fn # x.fn
          BY <1>c, <2>3, <5>2
        <5> QED BY <5>1, <5>2
      <4>2. PICK j \in i .. n : stack[c][j].fn = s.fn /\ stack[c][j].ts = TimeOf(c, s.fn)
        BY <1>a, <2>3, <4>1 DEF CallExact, OwnOrInner
      <4>3. CASE j = n
        <5>1. x.fn = s.fn /\ x.ts = Top(c).ts
          BY <1>2, <1>d, <1>e, <3>2, <4>2, <4>3
        <5> QED BY <1>a, <1>2, <2>1, <4>1, <4>2, <4>3, <5>1
      <4>4. CASE j # n
        <5>1. j \in 1 .. n - 1
          BY <4>4
        <5>2. stack'[c][j].fn = stack[c][j].fn /\ stack'[c][j].ts = stack[c][j].ts
          BY <1>a, <5>1 DEF Touched
        <5> QED BY <4>1, <4>2, <5>2
      <4> QED BY <4>3, <4>4
    <3> QED BY <3>1, <3>2
  <2>7. Marks(c, i)'
    <3> SUFFICES ASSUME NEW j \in i + 1 .. n, stack'[c][j].fn = s.fn,
                        stack'[c][j].ts # 0 \/ stack'[c][j].disturbed
                 PROVE  t.disturbed
      BY <1>a, <2>2 DEF Marks
    <3>1. CASE s.fn \in M
      BY <2>2, <3>1
    <3>2. CASE s.fn \notin M
      <4>1. stack[c][j].fn = s.fn
        BY <2>4
      <4>2. stack[c][j].ts # 0 \/ stack[c][j].disturbed
        <5>1. CASE j = n
          BY <1>a, <1>2, <1>d, <1>e, <3>2, <4>1, <5>1
        <5>2. CASE j # n
          BY <2>4, <3>2, <4>1, <5>2
        <5> QED BY <5>1, <5>2
      <4>3. j \in i + 1 .. Len(stack[c])
        BY <1>a
      <4> QED BY <2>2, <2>3, <4>1, <4>2, <4>3 DEF CallExact, Marks
    <3> QED BY <3>1, <3>2
  <2>8. NotYet(c, i)'
    BY <2>2, <2>3 DEF CallExact, NotYet
  <2> QED BY <2>5, <2>6, <2>7, <2>8 DEF CallExact
<1>6. \A i \in 1 .. Len(stack'[c]) : CallExact(c, i)'
  BY <1>a, <1>4, <1>5
<1> QED BY <1>1, <1>6 DEF Exact

-----------------------------------------------------------------------------
(* Every action keeps the times exact. *)

\* x is y, marked as disturbed if it is a call of f.
DisturbedOnly(x, y, f) ==
  /\ x.fn = y.fn /\ x.ts = y.ts /\ x.pc = y.pc /\ x.blind = y.blind
  /\ x.stray = y.stray
  /\ x.disturbed <=> y.disturbed \/ y.fn = f

LEMMA MarkMore ==
  ASSUME TypeOK, NEW c \in Ctx, NEW f \in Funcs, NEW i \in 1 .. Len(stack[c])
  PROVE  /\ DisturbedOnly(Disturbed(c, f)[i], stack[c][i], f)
         /\ Kept(Strayed(c, f)[i], stack[c][i])
         /\ stack[c][i].fn = f => Strayed(c, f)[i].stray
<1>1. DOMAIN stack[c] = 1 .. Len(stack[c])
  BY LenProperties DEF TypeOK
<1>2. /\ Disturbed(c, f)[i] = [stack[c][i] EXCEPT !.disturbed = @ \/ stack[c][i].fn = f]
      /\ Strayed(c, f)[i] = [stack[c][i] EXCEPT !.stray = @ \/ stack[c][i].fn = f]
  BY <1>1 DEF Disturbed, Strayed
<1>3. stack[c][i] \in Call
  BY CallsTyped
<1>4. DisturbedOnly(Disturbed(c, f)[i], stack[c][i], f)
  BY <1>2, <1>3 DEF DisturbedOnly, Call
<1>5. Kept(Strayed(c, f)[i], stack[c][i]) /\ (stack[c][i].fn = f => Strayed(c, f)[i].stray)
  BY <1>2, <1>3 DEF Kept, Call
<1> QED BY <1>4, <1>5

LEMMA EnterExact ==
  ASSUME TracerInv, Exact, NEW c \in Ctx, NEW f \in Funcs, Enter(c, f)
  PROVE  Exact'
<1>1. PICK free \in BOOLEAN :
        stack' = [stack EXCEPT ![c] = Append(@,
          [fn |-> f, at |-> clock,
           pc |-> IF "entry" \in probes[f] /\ ~Active(c) THEN "entry" ELSE "body",
           hooked |-> "exit" \in probes[f] /\ free,
           ts |-> 0, blind |-> Active(c), disturbed |-> FALSE, stray |-> FALSE])]
  BY DEF Enter
<1> DEFINE hooked == "exit" \in probes[f] /\ free
           blind == Active(c)
           x == [fn |-> f, at |-> clock,
                 pc |-> IF "entry" \in probes[f] /\ ~Active(c) THEN "entry" ELSE "body",
                 hooked |-> hooked, ts |-> 0, blind |-> blind,
                 disturbed |-> FALSE, stray |-> FALSE]
<1>2. stack[c] \in Seq(Call) /\ stack \in [Ctx -> Seq(Call)] /\ clock \in 1 .. MaxClock
  BY DEF TracerInv, TypeOK
<1>3. hooked \in BOOLEAN /\ blind \in BOOLEAN
  BY DEF Active
<1>4. x \in Call
  <2> HIDE DEF hooked, blind
  <2> QED BY <1>2, <1>3, NumbersOK DEF Call
<1>5. stack' = [stack EXCEPT ![c] = Append(stack[c], x)] /\ start' = start
  BY <1>1 DEF Enter
<1>6. Seen(x) => TimeOf(c, x.fn) = 0
  <2>1. Seen(x) => "entry" \notin probes[f]
    BY DEF Seen
  <2> QED BY <2>1, KeyOfType DEF TracerInv, StoreOK, TimeOf
<1>7. x.ts = 0 /\ ~x.disturbed
  OBVIOUS
<1> HIDE DEF x, hooked, blind
<1>8. PICK n \in Nat : n = Len(stack[c])
  BY <1>2, LenProperties
<1>9. /\ Len(stack'[c]) = n + 1
      /\ stack'[c][n + 1] = x
      /\ \A i \in 1 .. n : stack'[c][i] = stack[c][i]
      /\ \A d \in Ctx \ {c} : stack'[d] = stack[d]
  BY <1>2, <1>4, <1>5, <1>8, PushFacts
<1> QED BY <1>4, <1>5, <1>6, <1>7, <1>8, <1>9, ExactPush

\* The stack of c without its top, where only marks may have changed.
LEMMA PoppedExact ==
  ASSUME TypeOK, NEW c \in Ctx, Inside(c), NEW t \in Seq(Call), Len(t) = Len(stack[c]),
         \A i \in 1 .. Len(stack[c]) : Kept(t[i], stack[c][i]),
         stack' = [stack EXCEPT ![c] = SubSeq(t, 1, Len(stack[c]) - 1)]
  PROVE  \E n \in Nat \ {0} :
           /\ n = Len(stack[c]) /\ Len(stack'[c]) = n - 1
           /\ \A i \in 1 .. n - 1 : stack'[c][i] = t[i] /\ Kept(stack'[c][i], stack[c][i])
           /\ \A d \in Ctx \ {c} : stack'[d] = stack[d]
<1>1. PICK n \in Nat \ {0} : n = Len(stack[c])
  BY TopFacts DEF TypeOK, Inside
<1>2. t # <<>>
  BY <1>1, EmptySeq
<1> DEFINE u == SubSeq(t, 1, n - 1)
<1>3. Len(u) = n - 1 /\ \A i \in 1 .. n - 1 : u[i] = t[i]
  BY <1>1, <1>2, PopFacts
<1>4. stack'[c] = u /\ \A d \in Ctx \ {c} : stack'[d] = stack[d]
  BY <1>1 DEF TypeOK
<1> HIDE DEF u
<1>5. \A i \in 1 .. n - 1 : i \in 1 .. n
  OBVIOUS
<1> QED BY <1>1, <1>3, <1>4, <1>5

LEMMA KeptSelf == ASSUME NEW x PROVE Kept(x, x)
BY DEF Kept

LEMMA ReturnUnseenExact ==
  ASSUME TracerInv, Exact, NEW c \in Ctx, ReturnUnseen(c)
  PROVE  Exact'
<1> DEFINE f == Top(c).fn
<1>1. /\ stack[c] \in Seq(Call) /\ Inside(c) /\ TypeOK /\ f \in Funcs
      /\ start' = start
  BY TopFacts DEF TracerInv, TypeOK, ReturnUnseen, Inside, Top, Call
<1>2. \A k \in Keys \ {KeyOf[c]} : start'[k] = start[k]
  BY <1>1
<1>3. \A g \in Funcs : start'[KeyOf[c]][g] = TimeOf(c, g)
  BY <1>1 DEF TimeOf
<1>4. CASE Top(c).ts = 0
  <2>1. stack' = [stack EXCEPT ![c] = SubSeq(stack[c], 1, Len(stack[c]) - 1)]
    BY <1>4 DEF ReturnUnseen, Rest
  <2>2. PICK n \in Nat \ {0} :
          /\ n = Len(stack[c]) /\ Len(stack'[c]) = n - 1
          /\ \A i \in 1 .. n - 1 : Kept(stack'[c][i], stack[c][i])
          /\ \A d \in Ctx \ {c} : stack'[d] = stack[d]
    BY <1>1, <2>1, KeptSelf, PoppedExact
  <2> QED BY <1>1, <1>2, <1>3, <1>4, <2>2, ExactPop
<1>5. CASE Top(c).ts # 0
  <2> DEFINE t == Strayed(c, f)
  <2>1. stack' = [stack EXCEPT ![c] = SubSeq(t, 1, Len(stack[c]) - 1)]
    BY <1>5 DEF ReturnUnseen
  <2>2. t \in Seq(Call) /\ Len(t) = Len(stack[c])
    BY <1>1, MarkFacts DEF SameCalls
  <2>3. \A i \in 1 .. Len(stack[c]) :
          Kept(t[i], stack[c][i]) /\ (t[i].fn = f => t[i].stray)
    BY <1>1, MarkMore DEF Kept
  <2> HIDE DEF t
  <2>4. PICK n \in Nat \ {0} :
          /\ n = Len(stack[c]) /\ Len(stack'[c]) = n - 1
          /\ \A i \in 1 .. n - 1 : stack'[c][i] = t[i] /\ Kept(stack'[c][i], stack[c][i])
          /\ \A d \in Ctx \ {c} : stack'[d] = stack[d]
    BY <1>1, <2>1, <2>2, <2>3, PoppedExact
  <2>5. \A i \in 1 .. n - 1 : stack'[c][i].fn = f => stack'[c][i].stray
    BY <2>3, <2>4
  <2> QED BY <1>1, <1>2, <1>3, <2>4, <2>5, ExactPop
<1> QED BY <1>4, <1>5

LEMMA ExitNothingExact ==
  ASSUME TracerInv, Exact, NEW c \in Ctx, ExitNothing(c)
  PROVE  Exact'
<1>1. stack[c] \in Seq(Call) /\ Inside(c) /\ TypeOK /\ start' = start
  BY DEF TracerInv, TypeOK, ExitNothing, Inside
<1>2. stack' = [stack EXCEPT ![c] = SubSeq(stack[c], 1, Len(stack[c]) - 1)]
  BY DEF ExitNothing, Rest
<1>3. PICK n \in Nat \ {0} :
        /\ n = Len(stack[c]) /\ Len(stack'[c]) = n - 1
        /\ \A i \in 1 .. n - 1 : Kept(stack'[c][i], stack[c][i])
        /\ \A d \in Ctx \ {c} : stack'[d] = stack[d]
  BY <1>1, <1>2, KeptSelf, PoppedExact
<1>4. \A g : start'[KeyOf[c]][g] = TimeOf(c, g)
  BY <1>1 DEF TimeOf
<1>5. TimeOf(c, Top(c).fn) = 0
  BY DEF ExitNothing, TimeOf
<1> QED BY <1>1, <1>3, <1>4, <1>5, ExactPop

LEMMA ExitSampleExact ==
  ASSUME TracerInv, Exact, NEW c \in Ctx, ExitSample(c)
  PROVE  Exact'
<1> DEFINE k == KeyOf[c]
           f == Top(c).fn
<1>1. stack[c] \in Seq(Call) /\ Inside(c) /\ TypeOK /\ k \in Keys
  BY KeyOfType DEF TracerInv, TypeOK, ExitSample, Inside
<1>2. stack' = [stack EXCEPT ![c] = SubSeq(stack[c], 1, Len(stack[c]) - 1)]
  BY DEF ExitSample, Rest
<1>3. PICK n \in Nat \ {0} :
        /\ n = Len(stack[c]) /\ Len(stack'[c]) = n - 1
        /\ \A i \in 1 .. n - 1 : Kept(stack'[c][i], stack[c][i])
        /\ \A d \in Ctx \ {c} : stack'[d] = stack[d]
  BY <1>1, <1>2, KeptSelf, PoppedExact
<1>4. n \in 1 .. Len(stack[c]) /\ Top(c) = stack[c][n]
  BY <1>3 DEF Top
<1>5. Top(c) \in Call /\ f \in Funcs
  BY <1>1, <1>4, CallsTyped DEF Call
<1>6. Seen(Top(c)) /\ TimeOf(c, f) # 0
  <2>1. CallOK(c, n)
    BY <1>4 DEF TracerInv
  <2> QED BY <1>4, <2>1 DEF ExitSample, CallOK, Nested, Armed, Seen, TimeOf
<1>7. /\ start'[k][f] = 0
      /\ \A m \in Keys \ {k} : start'[m] = start[m]
      /\ \A g \in Funcs \ {f} : start'[k][g] = TimeOf(c, g)
  <2>1. start' = [start EXCEPT ![k] = [@ EXCEPT ![f] = 0]]
    BY DEF ExitSample
  <2> QED BY <1>1, <1>5, <2>1 DEF TypeOK, TimeOf
<1> QED BY <1>1, <1>3, <1>6, <1>7, ExactPop

LEMMA ReturnHookedExact ==
  ASSUME TracerInv, Exact, NEW c \in Ctx, ReturnHooked(c)
  PROVE  Exact'
<1> DEFINE x == [Top(c) EXCEPT !.pc = "exit"]
<1>1. stack[c] \in Seq(Call) /\ Inside(c) /\ TypeOK /\ start' = start /\ Top(c).pc = "body"
  BY DEF TracerInv, TypeOK, ReturnHooked, Inside
<1>2. PICK n \in Nat \ {0} : n = Len(stack[c]) /\ Top(c) = stack[c][n] /\ Top(c) \in Call
  BY <1>1, TopFacts DEF Inside, Top
<1>3. stack' = [stack EXCEPT ![c] = [stack[c] EXCEPT ![n] = x]]
  BY <1>2 DEF ReturnHooked, WithTop
<1>4. /\ x \in Call /\ x.fn = Top(c).fn /\ x.ts = Top(c).ts /\ x.blind = Top(c).blind
      /\ x.pc = "exit" /\ x.disturbed = Top(c).disturbed /\ x.stray = Top(c).stray
  BY <1>2 DEF Call
<1> HIDE DEF x
<1>5. /\ Len(stack'[c]) = n /\ stack'[c][n] = x
      /\ \A i \in 1 .. n - 1 : stack'[c][i] = stack[c][i]
      /\ \A d \in Ctx \ {c} : stack'[d] = stack[d]
  <2> DEFINE u == [stack[c] EXCEPT ![n] = x]
  <2>1. Len(u) = n /\ \A j \in 1 .. n : u[j] = IF j = n THEN x ELSE stack[c][j]
    BY <1>1, <1>2, <1>4, ExceptSeq
  <2>2. stack'[c] = u /\ \A d \in Ctx \ {c} : stack'[d] = stack[d]
    BY <1>1, <1>3 DEF TypeOK
  <2> HIDE DEF u
  <2> QED BY <1>2, <2>1, <2>2
<1>6. \A g : start'[KeyOf[c]][g] = TimeOf(c, g)
  BY <1>1 DEF TimeOf
<1>7. PICK M \in SUBSET {x.fn} : M = {}
  OBVIOUS
<1>8. x.pc # "entry" /\ Top(c).pc # "entry" /\ x.fn \notin M /\ x.fn \in Funcs
  BY <1>1, <1>4, <1>7 DEF Call
<1>9. PutStack(c, n, x, M)
  <2>1. \A i \in 1 .. n - 1 : Touched(stack'[c][i], stack[c][i], M)
    BY <1>5, <1>7 DEF Touched
  <2> QED BY <1>2, <1>5, <2>1 DEF PutStack
<1>10. PutTimes(c, x, M)
  BY <1>1, <1>4, <1>6, <1>8 DEF PutTimes
<1>11. PutCall(c, x)
  BY <1>4, <1>8 DEF PutCall
<1> QED BY <1>2, <1>4, <1>9, <1>10, <1>11, ExactPut

LEMMA EntryProgramExact ==
  ASSUME TracerInv, Exact, NEW c \in Ctx, EntryProgram(c)
  PROVE  Exact'
<1> DEFINE k == KeyOf[c]
           f == Top(c).fn
<1>1. stack[c] \in Seq(Call) /\ Inside(c) /\ TypeOK /\ k \in Keys /\ Top(c).pc = "entry"
  BY KeyOfType DEF TracerInv, TypeOK, EntryProgram, Inside
<1>2. PICK n \in Nat \ {0} : n = Len(stack[c]) /\ Top(c) = stack[c][n] /\ Top(c) \in Call
  BY <1>1, TopFacts DEF Inside, Top
<1>3. f \in Funcs /\ clock \in 0 .. MaxClock
  <2>1. f \in Funcs
    BY <1>2, CallFields
  <2>2. clock \in 1 .. MaxClock
    BY <1>1 DEF TypeOK
  <2> QED BY <2>1, <2>2
<1>4. CASE CanStore(k, f)
  <2> DEFINE x == [Top(c) EXCEPT !.pc = "body", !.ts = clock]
             t == Disturbed(c, f)
             u == [t EXCEPT ![n] = x]
  <2>1. start' = [start EXCEPT ![k] = [@ EXCEPT ![f] = clock]]
    BY <1>4 DEF EntryProgram
  <2>2. stack' = [stack EXCEPT ![c] = u]
    BY <1>2, <1>4 DEF EntryProgram
  <2>3. /\ x \in Call /\ x.fn = f /\ x.blind = Top(c).blind /\ x.pc = "body" /\ x.ts = clock
        /\ x.disturbed = Top(c).disturbed /\ x.stray = Top(c).stray
    BY <1>2, <1>3 DEF Call
  <2>4. /\ t \in Seq(Call) /\ Len(t) = n
        /\ \A i \in 1 .. n : DisturbedOnly(t[i], stack[c][i], f)
    BY <1>1, <1>2, <1>3, MarkFacts, MarkMore DEF SameCalls
  <2> HIDE DEF x, t
  <2>5. Len(u) = n /\ u \in Seq(Call) /\ \A j \in 1 .. n : u[j] = IF j = n THEN x ELSE t[j]
    BY <1>2, <2>3, <2>4, ExceptSeq
  <2> HIDE DEF u
  <2>6. stack'[c] = u /\ \A d \in Ctx \ {c} : stack'[d] = stack[d]
    BY <1>1, <2>2 DEF TypeOK
  <2>7. PICK M \in SUBSET {x.fn} : M = {f}
    BY <2>3
  <2>8. PutStack(c, n, x, M)
    <3>1. \A i \in 1 .. n - 1 : i \in 1 .. n /\ i # n
      OBVIOUS
    <3>2. \A i \in 1 .. n - 1 : stack'[c][i] = t[i]
      BY <2>5, <2>6, <3>1
    <3>3. \A i \in 1 .. n - 1 : Touched(stack'[c][i], stack[c][i], M)
      BY <2>4, <2>7, <3>1, <3>2 DEF DisturbedOnly, Touched
    <3>4. Len(stack'[c]) = n /\ stack'[c][n] = x
      BY <2>5, <2>6
    <3> QED BY <1>2, <2>6, <3>3, <3>4 DEF PutStack
  <2>9. /\ start'[k][f] = clock
        /\ \A m \in Keys \ {k} : start'[m] = start[m]
        /\ \A g \in Funcs \ {f} : start'[k][g] = TimeOf(c, g)
    BY <1>1, <1>3, <2>1 DEF TypeOK, TimeOf
  <2>10. PutTimes(c, x, M)
    BY <2>3, <2>7, <2>9 DEF PutTimes
  <2>11. PutCall(c, x)
    BY <2>3 DEF PutCall
  <2> QED BY <1>2, <2>3, <2>8, <2>10, <2>11, ExactPut
<1>5. CASE ~CanStore(k, f)
  <2> DEFINE x == [Top(c) EXCEPT !.pc = "body"]
             u == [stack[c] EXCEPT ![n] = x]
  <2>1. start' = start
    BY <1>5 DEF EntryProgram
  <2>2. stack' = [stack EXCEPT ![c] = u]
    BY <1>2, <1>5 DEF EntryProgram, WithTop
  <2>3. /\ x \in Call /\ x.fn = f /\ x.blind = Top(c).blind /\ x.pc = "body"
        /\ x.ts = Top(c).ts /\ x.disturbed = Top(c).disturbed /\ x.stray = Top(c).stray
    BY <1>2, <1>3 DEF Call
  <2>4. start[k][f] = 0
    BY <1>5 DEF CanStore
  <2> HIDE DEF x
  <2>5. Len(u) = n /\ \A j \in 1 .. n : u[j] = IF j = n THEN x ELSE stack[c][j]
    BY <1>1, <1>2, <2>3, ExceptSeq
  <2> HIDE DEF u
  <2>6. stack'[c] = u /\ \A d \in Ctx \ {c} : stack'[d] = stack[d]
    BY <1>1, <2>2 DEF TypeOK
  <2>7. PICK M \in SUBSET {x.fn} : M = {}
    OBVIOUS
  <2>8. PutStack(c, n, x, M)
    <3>1. \A i \in 1 .. n - 1 : stack'[c][i] = stack[c][i]
      BY <2>5, <2>6
    <3>2. \A i \in 1 .. n - 1 : Touched(stack'[c][i], stack[c][i], M)
      BY <2>7, <3>1 DEF Touched
    <3>3. Len(stack'[c]) = n /\ stack'[c][n] = x
      BY <2>5, <2>6
    <3> QED BY <1>2, <2>6, <3>2, <3>3 DEF PutStack
  <2>9. /\ \A m \in Keys \ {k} : start'[m] = start[m]
        /\ \A g \in Funcs : start'[k][g] = TimeOf(c, g)
    BY <2>1 DEF TimeOf
  <2>10. PutTimes(c, x, M)
    <3>1. TimeOf(c, x.fn) = 0 /\ x.fn \notin M
      BY <2>3, <2>4, <2>7 DEF TimeOf
    <3> QED BY <1>3, <2>3, <2>9, <3>1 DEF PutTimes
  <2>11. PutCall(c, x)
    BY <2>3 DEF PutCall
  <2> QED BY <1>2, <2>3, <2>8, <2>10, <2>11, ExactPut
<1> QED BY <1>4, <1>5

LEMMA ExactFrame ==
  ASSUME Exact, UNCHANGED <<stack, start>>
  PROVE  Exact'
BY DEF Exact, CallExact, OwnTime, OwnOrInner, Marks, NotYet, Private, Seen, TimeOf

LEMMA ExactInit == Init => ExactInv
<1> SUFFICES ASSUME Init PROVE Exact
  BY TracerInit DEF ExactInv
<1>1. \A c \in Ctx : stack[c] = <<>>
  BY DEF Init
<1> QED BY <1>1 DEF Exact

LEMMA ExactNext == ExactInv /\ [Next]_vars => ExactInv'
<1> SUFFICES ASSUME TracerInv, Exact, [Next]_vars PROVE Exact'
  BY TracerNext DEF ExactInv
<1>1. CASE Tick
  BY <1>1, ExactFrame DEF Tick
<1>2. ASSUME NEW f \in Funcs, AttachEntry(f) \/ AttachExit(f)
      PROVE  Exact'
  BY <1>2, ExactFrame DEF AttachEntry, AttachExit
<1>3. ASSUME NEW c \in Ctx, Step(c)
      PROVE  Exact'
  BY <1>3, EnterExact, EntryProgramExact, ReturnUnseenExact, ReturnHookedExact,
     ExitNothingExact, ExitSampleExact DEF Step
<1>4. CASE UNCHANGED vars
  BY <1>4, ExactFrame DEF vars
<1> QED BY <1>1, <1>2, <1>3, <1>4 DEF Next

-----------------------------------------------------------------------------
(* What the exit program finds, in a state of the invariant. *)
LEMMA ExactAtExit ==
  ASSUME ExactInv, NEW c \in Ctx, Exiting(c), Private(c)
  PROVE  LET call == Top(c)
             ts == start[KeyOf[c]][call.fn]
         IN /\ ~call.disturbed => ts = call.ts
            /\ ~call.stray => ts \in {0, call.ts}
<1>1. PICK n \in Nat \ {0} : n = Len(stack[c]) /\ Top(c) = stack[c][n]
  BY TopFacts DEF ExactInv, TracerInv, TypeOK, Exiting, Inside, Top
<1>2. n \in 1 .. Len(stack[c])
  BY <1>1
<1>3. CallOK(c, n) /\ CallExact(c, n)
  BY <1>2 DEF ExactInv, TracerInv, Exact
<1>4. Seen(Top(c))
  BY <1>1, <1>3 DEF Exiting, CallOK, Nested, Armed, Seen
<1>5. ~Top(c).disturbed => TimeOf(c, Top(c).fn) = Top(c).ts
  BY <1>1, <1>3, <1>4 DEF CallExact, OwnTime
<1>6. ~Top(c).stray => TimeOf(c, Top(c).fn) \in {0, Top(c).ts}
  <2>1. \A j \in n .. n : j = n
    OBVIOUS
  <2> QED BY <1>1, <1>3, <1>4, <2>1 DEF CallExact, OwnOrInner
<1> QED BY <1>5, <1>6 DEF TimeOf

(* The invariant holds in every reachable state. *)
THEOREM TracerExact == Spec => []ExactInv
<1> QED BY ExactInit, ExactNext, PTL DEF Spec

(* A call during which no other call of its function stored a time is       *)
(* measured with its own, whatever returns were missed before it.           *)
THEOREM TracerExactUnlessDisturbed == Spec => []ExactUnlessDisturbed
<1>1. ExactInv => ExactUnlessDisturbed
  BY ExactAtExit DEF ExactUnlessDisturbed
<1> QED BY <1>1, TracerExact, PTL

(* Whatever is nested in a call, it is measured with its own time or not at *)
(* all, unless a nested return was missed.                                  *)
THEOREM TracerExactOrNothing == Spec => []ExactOrNothing
<1>1. ExactInv => ExactOrNothing
  BY ExactAtExit DEF ExactOrNothing
<1> QED BY <1>1, TracerExact, PTL
-----------------------------------------------------------------------------
(* The histogram.  What a sum over the buckets is follows from its running  *)
(* sums: they exist and are unique, because a first bucket up to which they *)
(* were not, or at which two of them differed, would be no exception.       *)

(* A non-empty set of naturals has a least element: its initial segments    *)
(* are ordered by strict inclusion, well founded on finite sets.            *)
LEMMA LeastNat ==
  ASSUME NEW T \in SUBSET Nat, T # {}
  PROVE  \E x \in T : \A y \in T : x <= y
<1> DEFINE Segments == {0..q : q \in T}
           R == StrictSubsetOrdering(Nat)
<1>1. IsWellFoundedOn(R, FiniteSubsetsOf(Nat))
  BY FS_StrictSubsetOrderingWellFounded
<1>2. \A q \in T : 0..q \in SUBSET Nat /\ IsFiniteSet(0..q)
  BY FS_Interval
<1>3. Segments \subseteq FiniteSubsetsOf(Nat) /\ Segments # {}
  BY <1>2 DEF FiniteSubsetsOf
<1>4. PICK s \in Segments : \A t \in Segments : ~ (<<t, s>> \in R)
  <2> HIDE DEF Segments, R
  <2> QED BY <1>1, <1>3, WFMin
<1>5. PICK x \in T : s = 0..x
  OBVIOUS
<1>6. ASSUME NEW y \in T, y < x PROVE FALSE
  <2>1. 0..y \in Segments
    OBVIOUS
  <2>2. 0..y \subseteq 0..x /\ x \in 0..x /\ x \notin 0..y
    BY <1>6
  <2>3. <<0..y, 0..x>> \in R
    BY <2>2, <1>2 DEF StrictSubsetOrdering
  <2> QED BY <1>4, <1>5, <2>1, <2>3
<1> QED BY <1>6

\* The running sums of h weighted with end, up to bucket m.
Sums(s, m, h, end) ==
  /\ s[0] = 0
  /\ \A b \in 1 .. m : s[b] = s[b - 1] + h[b - 1] * end[b - 1]

Weights == [0 .. Buckets - 1 -> Int]

LEMMA SumsExist ==
  ASSUME NEW h \in Weights, NEW end \in Weights
  PROVE  \E s \in [0 .. Buckets -> Int] : Sums(s, Buckets, h, end)
<1> DEFINE T == {m \in 0 .. Buckets : ~ \E s \in [0 .. Buckets -> Int] : Sums(s, m, h, end)}
<1>0. T \in SUBSET Nat /\ (T = {} => Buckets \notin T) /\ Buckets \in 0 .. Buckets
  BY NumbersOK
<1>1. CASE T = {}
  BY <1>0, <1>1
<1>2. CASE T # {}
  <2>1. PICK m \in T : \A k \in T : m <= k
    <3> HIDE DEF T
    <3> QED BY <1>0, <1>2, LeastNat
  <2>2. m # 0
    <3>1. Sums([b \in 0 .. Buckets |-> 0], 0, h, end)
      BY NumbersOK DEF Sums
    <3> QED BY <2>1, <3>1
  <2>3. m - 1 \in 0 .. Buckets /\ m - 1 \notin T
    BY <2>1, <2>2, NumbersOK
  <2>4. PICK s \in [0 .. Buckets -> Int] : Sums(s, m - 1, h, end)
    BY <2>3
  <2> DEFINE x == s[m - 1] + h[m - 1] * end[m - 1]
             t == [s EXCEPT ![m] = x]
  <2>5. s[m - 1] \in Int /\ h[m - 1] \in Int /\ end[m - 1] \in Int
    BY <2>1, <2>2, NumbersOK DEF Weights
  <2>6. x \in Int
    BY <2>5
  <2>7. m \in 1 .. Buckets
    BY <2>1, <2>2, NumbersOK
  <2> HIDE DEF x
  <2>8. t \in [0 .. Buckets -> Int] /\ t[m] = x /\ \A b \in 0 .. Buckets : b # m => t[b] = s[b]
    BY <2>6, <2>7
  <2>9. Sums(t, m, h, end)
    <3> HIDE DEF t, T
    <3>0. m \in Nat /\ m > 0 /\ m <= Buckets /\ Buckets \in Nat
      BY <2>7, NumbersOK
    <3>1. t[0] = 0
      <4>1. 0 \in 0 .. Buckets /\ 0 # m
        BY <3>0
      <4> QED BY <2>4, <2>8, <4>1 DEF Sums
    <3>2. ASSUME NEW b \in 1 .. m - 1
          PROVE  t[b] = t[b - 1] + h[b - 1] * end[b - 1]
      <4>1. b \in 0 .. Buckets /\ b - 1 \in 0 .. Buckets /\ b # m /\ b - 1 # m
        BY <3>0
      <4>2. s[b] = s[b - 1] + h[b - 1] * end[b - 1]
        BY <2>4 DEF Sums
      <4> QED BY <2>8, <4>1, <4>2
    <3>3. t[m] = t[m - 1] + h[m - 1] * end[m - 1]
      BY <2>3, <2>7, <2>8 DEF x
    <3>4. \A b \in 1 .. m : b = m \/ b \in 1 .. m - 1
      BY <2>7
    <3> QED BY <3>1, <3>2, <3>3, <3>4 DEF Sums
  <2> QED BY <2>1, <2>8, <2>9
<1> QED BY <1>1, <1>2

LEMMA SumsUnique ==
  ASSUME NEW h, NEW end, NEW s, NEW t, Sums(s, Buckets, h, end), Sums(t, Buckets, h, end)
  PROVE  \A b \in 0 .. Buckets : s[b] = t[b]
<1> DEFINE T == {b \in 0 .. Buckets : s[b] # t[b]}
<1>0. T \in SUBSET Nat
  OBVIOUS
<1>1. CASE T # {}
  <2>1. PICK m \in T : \A k \in T : m <= k
    <3> HIDE DEF T
    <3> QED BY <1>0, <1>1, LeastNat
  <2>2. m # 0
    BY <2>1 DEF Sums
  <2>3. m \in 1 .. Buckets /\ m - 1 \in 0 .. Buckets /\ m - 1 \notin T
    BY <2>1, <2>2, NumbersOK
  <2> QED BY <2>1, <2>3 DEF Sums
<1> QED BY <1>1

LEMMA SumIs ==
  ASSUME NEW h \in Weights, NEW end \in Weights, NEW t, Sums(t, Buckets, h, end)
  PROVE  SumOf(h, end) = t[Buckets] /\ SumOf(h, end) \in Int
<1> DEFINE Def(f) == [b \in 0 .. Buckets |-> IF b = 0 THEN 0 ELSE f[b - 1] + h[b - 1] * end[b - 1]]
           u == CHOOSE f : f = Def(f)
<1>1. SumOf(h, end) = u[Buckets]
  BY DEF SumOf
<1>2. PICK s \in [0 .. Buckets -> Int] : Sums(s, Buckets, h, end)
  BY SumsExist
<1>3. s = Def(s)
  <2>1. \A b \in 0 .. Buckets : b = 0 \/ b \in 1 .. Buckets
    BY NumbersOK
  <2>2. \A b \in 0 .. Buckets : s[b] = Def(s)[b]
    BY <1>2, <2>1 DEF Sums
  <2> QED BY <2>2
<1> HIDE DEF Def
<1>4. u = Def(u)
  BY <1>3
<1> HIDE DEF u
<1>5. Sums(u, Buckets, h, end)
  <2>1. \A b \in 0 .. Buckets : u[b] = IF b = 0 THEN 0 ELSE u[b - 1] + h[b - 1] * end[b - 1]
    BY <1>4 DEF Def
  <2>2. 0 \in 0 .. Buckets /\ \A b \in 1 .. Buckets : b \in 0 .. Buckets /\ b # 0
    BY NumbersOK
  <2> QED BY <2>1, <2>2 DEF Sums
<1>6. Buckets \in 0 .. Buckets
  BY NumbersOK
<1> QED BY <1>1, <1>2, <1>5, <1>6, SumsUnique

LEMMA SumTyped ==
  ASSUME NEW h \in Weights, NEW end \in Weights
  PROVE  SumOf(h, end) \in Int
BY SumsExist, SumIs

LEMMA SumZero ==
  ASSUME NEW end \in Weights
  PROVE  SumOf([b \in 0 .. Buckets - 1 |-> 0], end) = 0
<1> DEFINE h == [b \in 0 .. Buckets - 1 |-> 0]
           t == [b \in 0 .. Buckets |-> 0]
<1>1. h \in Weights /\ t[Buckets] = 0
  BY NumbersOK DEF Weights
<1>2. Sums(t, Buckets, h, end)
  <2>1. ASSUME NEW b \in 1 .. Buckets PROVE t[b] = t[b - 1] + h[b - 1] * end[b - 1]
    <3>1. b - 1 \in 0 .. Buckets - 1 /\ b \in 0 .. Buckets /\ b - 1 \in 0 .. Buckets
      BY NumbersOK
    <3>2. end[b - 1] \in Int /\ h[b - 1] = 0 /\ t[b] = 0 /\ t[b - 1] = 0
      BY <3>1 DEF Weights
    <3> QED BY <3>2
  <2>2. t[0] = 0
    BY NumbersOK
  <2> HIDE DEF h, t
  <2> QED BY <2>1, <2>2 DEF Sums
<1> HIDE DEF h, t
<1>3. SumOf(h, end) = 0
  BY <1>1, <1>2, SumIs
<1> QED BY <1>3 DEF h

\* A sample adds the end of its bucket to the sum.
LEMMA SumCounted ==
  ASSUME NEW h \in Weights, NEW end \in Weights, NEW x \in 0 .. Buckets - 1
  PROVE  SumOf([h EXCEPT ![x] = @ + 1], end) = SumOf(h, end) + end[x]
<1> DEFINE g == [h EXCEPT ![x] = @ + 1]
<1>1. PICK s \in [0 .. Buckets -> Int] : Sums(s, Buckets, h, end)
  BY SumsExist
<1> DEFINE t == [b \in 0 .. Buckets |-> IF b > x THEN s[b] + end[x] ELSE s[b]]
<1>2. g \in Weights /\ g[x] = h[x] + 1 /\ \A b \in 0 .. Buckets - 1 : b # x => g[b] = h[b]
  BY DEF Weights
<1>3. Sums(t, Buckets, g, end)
  <2>1. t[0] = 0
    BY <1>1, NumbersOK DEF Sums
  <2>2. ASSUME NEW b \in 1 .. Buckets PROVE t[b] = t[b - 1] + g[b - 1] * end[b - 1]
    <3>1. b - 1 \in 0 .. Buckets - 1 /\ b \in 0 .. Buckets /\ b - 1 \in 0 .. Buckets
      BY NumbersOK
    <3>2. s[b] = s[b - 1] + h[b - 1] * end[b - 1]
      BY <1>1 DEF Sums
    <3>3. s[b] \in Int /\ s[b - 1] \in Int /\ h[b - 1] \in Int /\ end[b - 1] \in Int /\ end[x] \in Int
      BY <3>1 DEF Weights
    <3>4. /\ t[b] = IF b > x THEN s[b] + end[x] ELSE s[b]
          /\ t[b - 1] = IF b - 1 > x THEN s[b - 1] + end[x] ELSE s[b - 1]
      BY <3>1
    <3> HIDE DEF t, g
    <3>5. CASE b - 1 = x
      <4>1. g[b - 1] * end[b - 1] = h[b - 1] * end[b - 1] + end[b - 1]
        <5>1. \A p, q \in Int : (p + 1) * q = p * q + q
          OBVIOUS
        <5> QED BY <1>2, <3>3, <3>5, <5>1
      <4>2. t[b] = s[b] + end[x] /\ t[b - 1] = s[b - 1]
        BY <3>1, <3>4, <3>5
      <4>3. h[b - 1] * end[b - 1] \in Int
        BY <3>3
      <4> DEFINE m == h[b - 1] * end[b - 1]
                 n == g[b - 1] * end[b - 1]
      <4>4. n = m + end[x] /\ s[b] = s[b - 1] + m /\ m \in Int
        BY <3>2, <3>5, <4>1, <4>3
      <4> HIDE DEF m, n
      <4>5. t[b] = t[b - 1] + n
        <5>1. s[b - 1] \in Int /\ end[x] \in Int
          BY <3>3
        <5>2. (s[b - 1] + m) + end[x] = s[b - 1] + (m + end[x])
          BY <4>4, <5>1
        <5> QED BY <4>2, <4>4, <5>2
      <4> QED BY <4>5 DEF n
    <3>6. CASE b - 1 # x
      <4>1. g[b - 1] = h[b - 1]
        BY <1>2, <3>1, <3>6
      <4>2. h[b - 1] * end[b - 1] \in Int
        BY <3>3
      <4>3. (b > x /\ b - 1 > x) \/ (~ (b > x) /\ ~ (b - 1 > x))
        BY <3>6
      <4> DEFINE m == h[b - 1] * end[b - 1]
      <4>4. s[b] = s[b - 1] + m /\ m \in Int /\ g[b - 1] * end[b - 1] = m
        BY <3>2, <4>1, <4>2
      <4> HIDE DEF m
      <4>5. t[b] = t[b - 1] + m
        BY <3>3, <3>4, <4>3, <4>4
      <4> QED BY <4>4, <4>5
    <3> QED BY <3>5, <3>6
  <2> HIDE DEF t
  <2> QED BY <2>1, <2>2 DEF Sums
<1>4. t[Buckets] = s[Buckets] + end[x]
  <2>1. Buckets \in 0 .. Buckets /\ Buckets > x
    BY NumbersOK
  <2> QED BY <2>1
<1> HIDE DEF g, t
<1>5. SumOf(g, end) = t[Buckets]
  BY <1>2, <1>3, SumIs
<1>6. SumOf(h, end) = s[Buckets]
  BY <1>1, SumIs
<1> QED BY <1>4, <1>5, <1>6 DEF g

\* The bucket of a duration, whose upper end it may pass in the last one only.
LEMMA BucketHolds ==
  ASSUME NEW d \in Nat, d > 0
  PROVE  /\ Bucket(d) \in 0 .. Buckets - 1
         /\ 2^Bucket(d) <= d
         /\ Bucket(d) = Buckets - 1 \/ d < 2^(Bucket(d) + 1)
<1> DEFINE T == {b \in 0 .. Buckets - 1 : b = Buckets - 1 \/ d < 2^(b + 1)}
<1>1. T \in SUBSET Nat /\ Buckets - 1 \in T
  BY NumbersOK
<1>2. PICK x \in T : \A y \in T : x <= y
  <2> HIDE DEF T
  <2> QED BY <1>1, LeastNat
<1>3. 2^x <= d
  <2>1. CASE x = 0
    BY <2>1
  <2>2. CASE x # 0
    <3>1. x - 1 \in 0 .. Buckets - 1 /\ x - 1 \notin T /\ x \in Nat /\ x - 1 # Buckets - 1
      BY <1>2, <2>2, NumbersOK
    <3>2. ~ (d < 2^x)
      BY <3>1
    <3>3. 2^x \in Int
      BY <3>1
    <3> QED BY <3>2, <3>3
  <2> QED BY <2>1, <2>2
<1>4. x \in 0 .. Buckets - 1 /\ (x = Buckets - 1 \/ d < 2^(x + 1))
  BY <1>2
<1> QED BY <1>3, <1>4, Zenon DEF Bucket

LEMMA EndsTyped ==
  /\ LowEnd \in Weights /\ HighEnd \in Weights
  /\ \A b \in 0 .. Buckets - 1 : LowEnd[b] = 2^b /\ HighEnd[b] = 2^(b + 1) - 1
<1>1. \A b \in 0 .. Buckets - 1 : 2^b \in Int /\ 2^(b + 1) - 1 \in Int
  BY NumbersOK
<1> QED BY <1>1 DEF LowEnd, HighEnd, Weights

(* What each step does to the statistics and the histogram. *)
LEMMA SampledOrNot ==
  ASSUME TracerInv, [Next]_vars
  PROVE  \/ UNCHANGED <<stats, histo>>
         \/ \E f \in Funcs, d \in Nat :
              /\ stats' = [stats EXCEPT ![f] = Sample(@, d)]
              /\ histo' = [histo EXCEPT ![f] = Counted(@, d)]
<1>1. ASSUME NEW c \in Ctx, ExitSample(c)
      PROVE  \E f \in Funcs, d \in Nat :
               /\ stats' = [stats EXCEPT ![f] = Sample(@, d)]
               /\ histo' = [histo EXCEPT ![f] = Counted(@, d)]
  <2> DEFINE k == KeyOf[c]
             f == Top(c).fn
  <2>1. k \in Keys /\ f \in Funcs
    <3>1. stack[c] \in Seq(Call) /\ stack[c] # <<>>
      BY <1>1 DEF TracerInv, TypeOK, ExitSample, Inside
    <3>2. Top(c) \in Call
      BY <3>1, TopFacts DEF Top
    <3> QED BY <3>2, CallFields, KeyOfType
  <2>2. start[k][f] \in 0 .. MaxClock /\ clock \in 1 .. MaxClock /\ start[k][f] <= clock
    BY <2>1 DEF TracerInv, TypeOK, StoreOK
  <2>3. clock - start[k][f] \in Nat
    BY <2>2
  <2>4. /\ stats' = [stats EXCEPT ![f] = Sample(@, clock - start[k][f])]
        /\ histo' = [histo EXCEPT ![f] = Counted(@, clock - start[k][f])]
    BY <1>1 DEF ExitSample
  <2> QED BY <2>1, <2>3, <2>4
<1>2. CASE Tick \/ UNCHANGED vars
  BY <1>2 DEF Tick, vars
<1>3. ASSUME NEW f \in Funcs, AttachEntry(f) \/ AttachExit(f) PROVE UNCHANGED <<stats, histo>>
  BY <1>3 DEF AttachEntry, AttachExit
<1>4. ASSUME NEW c \in Ctx, Step(c), ~ ExitSample(c) PROVE UNCHANGED <<stats, histo>>
  BY <1>4 DEF Step, Enter, EntryProgram, ReturnUnseen, ReturnHooked, ExitNothing
<1> QED BY <1>1, <1>2, <1>3, <1>4 DEF Next

LEMMA HistoInit == Init => HistoBracketsTotal
<1> SUFFICES ASSUME Init, NEW f \in Funcs
             PROVE  /\ SumOf(histo[f], LowEnd) <= stats[f].total
                    /\ stats[f].total <= SumOf(histo[f], HighEnd)
  BY DEF HistoBracketsTotal
<1>1. histo[f] = [b \in 0 .. Buckets - 1 |-> 0] /\ stats[f].total = 0
  BY DEF Init
<1>2. SumOf(histo[f], LowEnd) = 0 /\ SumOf(histo[f], HighEnd) = 0
  BY <1>1, SumZero, EndsTyped
<1> QED BY <1>1, <1>2

(* A sample moves the total by its duration and the sums by the ends of its *)
(* bucket.                                                                  *)
LEMMA HistoSampled ==
  ASSUME NEW h \in [0 .. Buckets - 1 -> Nat], NEW total \in Nat, NEW d \in Nat,
         SumOf(h, LowEnd) <= total,
         h[Buckets - 1] = 0 => total <= SumOf(h, HighEnd)
  PROVE  /\ SumOf(Counted(h, d), LowEnd) <= total + d
         /\ Counted(h, d)[Buckets - 1] = 0 => total + d <= SumOf(Counted(h, d), HighEnd)
<1>1. CASE d = 0
  BY <1>1 DEF Counted
<1>2. CASE d > 0
  <2> DEFINE x == Bucket(d)
             g == [h EXCEPT ![x] = @ + 1]
  <2>1. /\ x \in 0 .. Buckets - 1 /\ 2^x <= d
        /\ x = Buckets - 1 \/ d < 2^(x + 1)
    BY <1>2, BucketHolds
  <2>2. Counted(h, d) = g
    BY <1>2 DEF Counted
  <2> HIDE DEF x
  <2>3. h \in Weights
    BY DEF Weights
  <2>4. /\ SumOf(g, LowEnd) = SumOf(h, LowEnd) + 2^x
        /\ SumOf(g, HighEnd) = SumOf(h, HighEnd) + (2^(x + 1) - 1)
    <3>1. LowEnd \in Weights /\ LowEnd[x] = 2^x
      BY <2>1, EndsTyped
    <3>2. HighEnd \in Weights /\ HighEnd[x] = 2^(x + 1) - 1
      BY <2>1, EndsTyped
    <3>3. SumOf(g, LowEnd) = SumOf(h, LowEnd) + LowEnd[x]
      BY <2>1, <2>3, <3>1, SumCounted
    <3>4. SumOf(g, HighEnd) = SumOf(h, HighEnd) + HighEnd[x]
      BY <2>1, <2>3, <3>2, SumCounted
    <3> QED BY <3>1, <3>2, <3>3, <3>4
  <2>5. SumOf(h, LowEnd) \in Int /\ SumOf(h, HighEnd) \in Int
    BY <2>3, SumTyped, EndsTyped
  <2>6. 2^x \in Int /\ 2^(x + 1) \in Int
    BY <2>1
  <2>7. g[Buckets - 1] = 0 => x # Buckets - 1 /\ h[Buckets - 1] = 0
    BY <2>1, NumbersOK
  <2> HIDE DEF g
  <2> QED BY <2>1, <2>2, <2>4, <2>5, <2>6, <2>7
<1> QED BY <1>1, <1>2

LEMMA HistoNext == TracerInv /\ HistoBracketsTotal /\ [Next]_vars => HistoBracketsTotal'
<1> SUFFICES ASSUME TracerInv, HistoBracketsTotal, [Next]_vars PROVE HistoBracketsTotal'
  OBVIOUS
<1>1. CASE UNCHANGED <<stats, histo>>
  BY <1>1 DEF HistoBracketsTotal
<1>2. ASSUME NEW f \in Funcs, NEW d \in Nat,
             stats' = [stats EXCEPT ![f] = Sample(@, d)],
             histo' = [histo EXCEPT ![f] = Counted(@, d)]
      PROVE  HistoBracketsTotal'
  <2> SUFFICES ASSUME NEW g \in Funcs
               PROVE  /\ SumOf(histo'[g], LowEnd) <= stats'[g].total
                      /\ histo'[g][Buckets - 1] = 0 => stats'[g].total <= SumOf(histo'[g], HighEnd)
    BY DEF HistoBracketsTotal
  <2>1. /\ histo[g] \in [0 .. Buckets - 1 -> Nat]
        /\ stats[g] \in [count : Nat, total : Nat, sumsq : Nat]
        /\ stats \in [Funcs -> [count : Nat, total : Nat, sumsq : Nat]]
        /\ histo \in [Funcs -> [0 .. Buckets - 1 -> Nat]]
    BY DEF TracerInv, TypeOK
  <2>2. /\ SumOf(histo[g], LowEnd) <= stats[g].total
        /\ histo[g][Buckets - 1] = 0 => stats[g].total <= SumOf(histo[g], HighEnd)
    BY DEF HistoBracketsTotal
  <2>3. CASE g = f
    <3>1. histo'[g] = Counted(histo[g], d) /\ stats'[g].total = stats[g].total + d
      BY <1>2, <2>1, <2>3 DEF Sample
    <3> QED BY <2>1, <2>2, <3>1, HistoSampled
  <2>4. CASE g # f
    BY <1>2, <2>1, <2>2, <2>4
  <2> QED BY <2>3, <2>4
<1> QED BY <1>1, <1>2, SampledOrNot

(* The histogram and the total agree, for any number of buckets: no sample  *)
(* is counted in a bucket its duration is not in, and none is lost.         *)
THEOREM TracerHistoBracketsTotal == Spec => []HistoBracketsTotal
<1>1. TracerInv /\ HistoBracketsTotal /\ [Next]_vars => (TracerInv /\ HistoBracketsTotal)'
  BY TracerNext, HistoNext
<1>2. Init => TracerInv /\ HistoBracketsTotal
  BY TracerInit, HistoInit
<1> QED BY <1>1, <1>2, PTL DEF Spec
=============================================================================
