---------------------------- MODULE MCNifRuntime ----------------------------
(* Small instances of NifRuntime for TLC. *)
EXTENDS NifRuntime

CONSTANTS x, y,      \* operations
          a, b, c    \* documents

OneOp     == {x}
TwoOps    == {x, y}
TwoDocs   == {a, b}
ThreeDocs == {a, b, c}
=============================================================================
