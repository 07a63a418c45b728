------------------------------ MODULE MCAtSend ------------------------------
(* AtSend for TLC: two modules, one of which may send more commands and the
   other longer ones. *)
EXTENDS AtSend, TLC

CONSTANTS a, b, SendsA, SendsB, ChunksA, ChunksB
MCNodes == {a, b}
MCMaxSends == a :> SendsA @@ b :> SendsB
MCMaxChunks == a :> ChunksA @@ b :> ChunksB
=============================================================================
