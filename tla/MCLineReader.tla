--------------------------- MODULE MCLineReader ---------------------------
(* Values of LineReader's constants for TLC are in the .cfg.              *)
EXTENDS LineReader
=============================================================================
