-------------------------------- MODULE Powers --------------------------------
(***************************************************************************)
(* Powers of numbers: what a left shift multiplies by, and how many        *)
(* numbers so many digits can tell apart.  They are defined by recursion,  *)
(* so that what they satisfy can be proved.                                *)
(***************************************************************************)
EXTENDS Integers

(* b to the n-th. *)
Pow(b, n) ==
    LET power[k \in Nat] == IF k = 0 THEN 1 ELSE b * power[k - 1]
    IN  power[n]
=============================================================================
