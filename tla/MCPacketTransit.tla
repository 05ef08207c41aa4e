--------------------------- MODULE MCPacketTransit ---------------------------
(***************************************************************************)
(* A small instance of PacketTransit.                                      *)
(***************************************************************************)
EXTENDS PacketTransit

MCClient == <<10, 0, 0, 2>>
MCServer == <<9, 9, 9, 9>>
MCRemote == <<195, 82, 146, 78>>

\* 8080 and a port of the client, each with two different bytes.
MCPorts == {<<31, 144>>, <<195, 80>>}

\* TCP behind the ports: 5 or 6 words, with or without NS; SYN, ACK,
\* FIN, RST.
Tcp(ns, flags, options, payload) ==
  <<1, 2, 3, 4, 5, 96, 7, 8>>
    \o <<16 * (5 + Len(options) \div 4) + ns, flags, 250, 240, 0, 0, 0, 7>>
    \o options \o payload

Udp(payload) == <<0, 8 + Len(payload), 0, 0>> \o payload

TcpTails ==
  {Tcp(ns, flags, options, payload) :
     ns \in {0, 1}, flags \in {2, 16, 17, 20},
     options \in {<<>>, <<2, 4, 5, 180>>}, payload \in {<<>>, <<65, 66, 67>>}}

\* With and without a word of IP options.
MCMessages ==
  [proto: {TCP}, opts: {<<>>, <<148, 4, 0, 0>>}, tail: TcpTails]
    \cup [proto: {UDP}, opts: {<<>>, <<148, 4, 0, 0>>},
          tail: {Udp(<<>>), Udp(<<65, 66, 67>>)}]
=============================================================================
