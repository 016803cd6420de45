----------------------------- MODULE MCRxMpwqe -----------------------------
(***************************************************************************)
(* Small instances of RxMpwqe: which queue serves which descriptor, and    *)
(* the symmetry of the pages (no action or property tells two apart).      *)
(***************************************************************************)
EXTENDS RxMpwqe, TLC

CONSTANTS r1, r2, w1, w2

OneEach  == (w1 :> r1) @@ (w2 :> r2)   \* two queues, a descriptor each
Single   == (w1 :> r1)                 \* one queue, one descriptor

PageSymmetry == Permutations(Page)
============================================================================
