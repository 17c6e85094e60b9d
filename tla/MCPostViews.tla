----------------------------- MODULE MCPostViews -----------------------------
(* Instances of PostViews for TLC. *)
EXTENDS PostViews, TLC
=============================================================================
