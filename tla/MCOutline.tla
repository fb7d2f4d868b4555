----------------------------- MODULE MCOutline -----------------------------
(***************************************************************************)
(* Up to three siblings, and two requests at a time.                       *)
(***************************************************************************)
EXTENDS OutlineProps, TLC

Interchangeable == Permutations(Requests)
=============================================================================
