-------------------------- MODULE MCPacketManager --------------------------
(***************************************************************************)
(* Small instances of PacketManager.  ShortMod = 11 and Meta = 3 give      *)
(* DataMax = 7 and Split = 4, the proportions of 65229 and 32615: sizes    *)
(* 0..6 travel whole, 7 is cut to 4, 8 is split in two, 9 loses a byte.    *)
(***************************************************************************)
EXTENDS PacketManager, TLC

MCProxy == [c \in Conns |-> <<2>>]

\* A short payload with a zero byte, which a part at offset 0 finds, one at
\* the limit, and one in two parts with a remainder.
Short == <<0>>
MCPayloads == { Short, <<1, 1, 1, 1, 1, 1, 1>>, <<1, 0, 1, 2, 2, 1, 1, 1, 2>> }

\* The more packets, the fewer long ones: any number among the first three,
\* one among the first four, and the longest behaviours, in which an id wraps
\* while a builder lingers, with the short payload alone.
LongerMeansShorter ==
  LET long == Cardinality({u \in 1 .. Len(sent) : sent[u].payload # Short})
  IN  (Len(sent) > 3 => long <= 1) /\ (Len(sent) > 4 => long = 0)

Symmetry == Permutations(Conns)
=============================================================================
