--------------------------- MODULE MCPacketCache ---------------------------
(***************************************************************************)
(* Small instances of PacketCache.                                         *)
(***************************************************************************)
EXTENDS PacketCache, TLC

Symmetry == Permutations(Threads)
=============================================================================
