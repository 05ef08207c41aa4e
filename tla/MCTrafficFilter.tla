-------------------------- MODULE MCTrafficFilter --------------------------
(***************************************************************************)
(* Small instances of TrafficFilter.                                       *)
(***************************************************************************)
EXTENDS TrafficFilter

\* The variables of a program are interchangeable.
Symmetry == Permutations(Named)

\* A flag, an address, a port of a protocol, and a port of both.
MCOffered == { Flag("ip"), Compare("ip.DstAddr", Fixed),
               Compare("udp.DstPort", 8080),
               EitherPort("tcp.DstPort", "udp.DstPort", 8080) }
=============================================================================
