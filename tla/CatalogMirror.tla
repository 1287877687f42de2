--------------------------- MODULE CatalogMirror ---------------------------
(***************************************************************************)
(* What the local copy of a Firestore collection promises its screens,     *)
(* however the sync is done.  rows holds the contents on show, as pairs of *)
(* a document and a content it had.  The server moves a document forward   *)
(* only.  The device may show any content that was published, late too,    *)
(* but takes a content away only once the document has left it behind.     *)
(* It does not promise one row per document, nor that a row of a deleted   *)
(* document never shows up.                                                *)
(***************************************************************************)
EXTENDS Integers

CONSTANTS Docs, MaxVersion

VARIABLES remote, rows

mirrorVars == <<remote, rows>>

Contents == 1 .. MaxVersion

Init ==
  /\ remote = [d \in Docs |-> 0]
  /\ rows = {}

ServerForward ==
  /\ remote' \in [Docs -> 0 .. MaxVersion + 1]
  /\ \A d \in Docs : remote[d] <= remote'[d]

OnlyPublishedAdded ==
  /\ rows' \subseteq Docs \X Contents
  /\ \A r \in rows' \ rows : r[2] <= remote[r[1]]

OnlyOutdatedDropped ==
  \A r \in rows \ rows' : r[2] < remote'[r[1]]

Next == ServerForward /\ OnlyPublishedAdded /\ OnlyOutdatedDropped

Spec == Init /\ [][Next]_mirrorVars
=============================================================================
