---------------------------- MODULE MCFinalizers ----------------------------
(***************************************************************************)
(* FinalizerChain with one Machine; FinalizerProofs is about any number.   *)
(***************************************************************************)
EXTENDS FinalizerChain

\* Refused writes, an unreachable iCenter and restarts, with informer caches that keep up.
CachesKeepUp == FaultKinds \ {"stale"}
=============================================================================
