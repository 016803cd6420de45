---------------------------- MODULE RangeAlloc -----------------------------
(***************************************************************************)
(* What an IOVA allocator promises its callers: a caller is given a range  *)
(* of the size it asked for that shares no page frame with a range some    *)
(* caller still holds, until the holder gives it back.                     *)
(***************************************************************************)
EXTENDS IovaSpace

CONSTANT Sizes      \* the request sizes, in pages

VARIABLE held       \* the ranges callers hold

RangeInit == held = {}

Grant == \E r \in Ranges : /\ r.n \in Sizes
                           /\ \A h \in held : Apart(r, h)
                           /\ held' = held \cup {r}

GiveBack == \E r \in held : held' = held \ {r}

RangeNext == Grant \/ GiveBack

RangeSpec == RangeInit /\ [][RangeNext]_held
============================================================================
