--------------------------- MODULE MCCatalogSync ---------------------------
(* Instances of CatalogSync for TLC: the constants are in the .cfg files. *)
EXTENDS CatalogSync
=============================================================================
