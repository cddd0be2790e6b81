--------------------------- MODULE MCRaggedLedger ----------------------------
(* Small instances of RaggedLedger.                                         *)
EXTENDS RaggedLedger
==============================================================================
