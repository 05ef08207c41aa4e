--------------------------- MODULE MCSocketFilter ---------------------------
(***************************************************************************)
(* Small instances of SocketFilter.                                        *)
(***************************************************************************)
EXTENDS SocketFilter

\* Two clients that use the same port with the same server.
MCFlows == { [client |-> "c1", lport |-> 1, raddr |-> "s1", rport |-> 2],
             [client |-> "c2", lport |-> 1, raddr |-> "s1", rport |-> 2] }

\* A packet of these flows, one of another service of the same server that has
\* options, so that the program may read any ports in it, and one of another
\* host with the same ports.
MCPackets == { [raddr |-> "s1", rport |-> 2, lport |-> 1, opts |-> FALSE],
               [raddr |-> "s1", rport |-> 1, lport |-> 1, opts |-> TRUE],
               [raddr |-> "s2", rport |-> 2, lport |-> 1, opts |-> FALSE] }
=============================================================================
