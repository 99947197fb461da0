----------------------------- MODULE MCSessions -----------------------------
(***************************************************************************)
(* SessionCache with three workers: two reconcile resources of one cloud,  *)
(* each with its own identity.                                             *)
(***************************************************************************)
EXTENDS SessionCache

CONSTANTS w1, w2, w3

TwoClouds     == [w \in Workers |-> IF w = w3 THEN "other" ELSE "cloud"]
OwnIdentities == [w \in Workers |-> IF w = w1 THEN "admin" ELSE IF w = w2 THEN "guest" ELSE "root"]
=============================================================================
