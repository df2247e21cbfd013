---------------------------- MODULE MCUnmadeCursor ----------------------------
(* A small instance of UnmadeCursor for TLC. *)
EXTENDS MCDocumentLifecycle, UnmadeCursor
=============================================================================
