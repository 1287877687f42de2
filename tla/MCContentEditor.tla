-------------------------- MODULE MCContentEditor --------------------------
(* Instances of ContentEditor for TLC. *)
EXTENDS ContentEditor, TLC

(* Identifiers and names are interchangeable. *)
EditorSymmetry == Permutations(Ids) \cup Permutations(Names)
=============================================================================
