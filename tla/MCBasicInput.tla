---------------------------- MODULE MCBasicInput ----------------------------
(* TLC instance of the interpreter's input side. *)
EXTENDS BasicInputProps
=============================================================================
