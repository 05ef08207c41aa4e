--------------------------- MODULE MCRequestLoop ---------------------------
(***************************************************************************)
(* A small instance of RequestLoop, with the sizes of MCPacketManager.     *)
(***************************************************************************)
EXTENDS RequestLoop

MCProxy == [c \in Conns |-> <<2>>]

\* A packet that fills up what the first part of a split one left behind,
\* one at the limit, one in two parts and one with a remainder.
MCPayloads == { <<1, 0, 1>>, <<1, 1, 1, 1, 1, 1, 1>>,
                <<1, 0, 1, 1, 2, 1, 1, 1>>, <<1, 1, 1, 2, 2, 1, 1, 1, 2>> }
=============================================================================
