------------------------- MODULE MCFirestoreListen -------------------------
(* Instances of FirestoreListen for TLC. *)
EXTENDS FirestoreListen
=============================================================================
