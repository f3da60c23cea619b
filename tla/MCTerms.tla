------------------------------ MODULE MCTerms ------------------------------
(***************************************************************************)
(* Terms on a small instance.  A pool of 2 units is too small for three    *)
(* recommended or equal prizes, one of 6 is not; prizes entered by hand    *)
(* can be too many, too few or nothing.                                    *)
(***************************************************************************)
EXTENDS Terms
=============================================================================
