------------------------------ MODULE MCIPPool ------------------------------
(***************************************************************************)
(* Address lists with which TLC explores IPPool, under all its faults.     *)
(***************************************************************************)
EXTENDS IPPool

\* A range that a single address fills, and another address.
SmallRange == {{1}}
SmallStatic == {3}

\* IPv4 throughout: every address names an object.
AllNames == Nat
=============================================================================
