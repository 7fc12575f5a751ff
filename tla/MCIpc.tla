------------------------------- MODULE MCIpc --------------------------------
(* Small instances of Ipc.                                                   *)
EXTENDS Ipc, TLC

Symm == Permutations(Clients) \cup Permutations(Msgs)
=============================================================================
