------------------------------- MODULE Powers -------------------------------
(***************************************************************************)
(* The powers of two.  The function is defined by its recursion, which a   *)
(* proof can use; the operator ^ of the integers is opaque to the provers. *)
(***************************************************************************)
EXTENDS Integers

\* 1 << n
Two[n \in Nat] == IF n = 0 THEN 1 ELSE 2 * Two[n - 1]
=============================================================================
