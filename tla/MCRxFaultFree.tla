--------------------------- MODULE MCRxFaultFree ---------------------------
(***************************************************************************)
(* The small instance of the receive path with nothing failing: TLC checks *)
(* on it the assumptions RxFaultFree makes and its inductive invariant.    *)
(***************************************************************************)
EXTENDS MCRxMpwqe, RxFaultFree
============================================================================
