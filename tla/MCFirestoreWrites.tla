------------------------- MODULE MCFirestoreWrites -------------------------
(* Instances of FirestoreWrites for TLC. *)
EXTENDS FirestoreWrites

(* All writes go to one document. *)
OneDocument == [w \in Writes |-> "d1"]
=============================================================================
