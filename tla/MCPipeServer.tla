---------------------------- MODULE MCPipeServer -----------------------------
(* PipeServer for TLC: the clients are interchangeable.                    *)
EXTENDS PipeServer, TLC

ClientSymmetry == Permutations(Client)
=============================================================================
