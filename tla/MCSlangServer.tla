--------------------------- MODULE MCSlangServer ---------------------------
(* Values of SlangServer's constants for TLC.                              *)
EXTENDS SlangServer

\* Stack contents: each slot is zero or the number of a descriptor.
Uninitialised == [Slots -> {0, 1}]
NoneFree      == {[s \in Slots |-> 9]}
=============================================================================
