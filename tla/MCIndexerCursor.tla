--------------------------- MODULE MCIndexerCursor ---------------------------
(***************************************************************************)
(* Small instances of IndexerCursor.                                       *)
(***************************************************************************)
EXTENDS IndexerCursor
=============================================================================
