---------------------------- MODULE MCPipeServer ----------------------------
(* Instances of CPipeServer small enough for TLC. *)
EXTENDS PipeServerProps, TLC

CONSTANTS b1, b2

\* Two buffers of different size: b2 alone fills a limit of two bytes.
MCSize == b1 :> 1 @@ b2 :> 2

PipeSymmetry == Permutations(Pipes)
=============================================================================
