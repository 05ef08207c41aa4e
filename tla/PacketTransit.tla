--------------------------- MODULE PacketTransit ---------------------------
(***************************************************************************)
(* What becomes of the headers of one packet on its way through the        *)
(* tunnel: captured on the client, taken apart into proxy data and         *)
(* protocol data, put together again on the server, answered, and the      *)
(* answer taken the same way back and injected on the client               *)
(* (windivert_ext.hpp, qvpn_driver.hpp, qvpn_structures).                  *)
(*                                                                         *)
(* A field of several bytes is the sequence of its bytes in network order, *)
(* so that the shifts and masks that take numbers apart and put them       *)
(* together are concatenation and SubSeq.  Of a packet, rest holds what    *)
(* follows the IP header: transport header and payload.  The two bytes of  *)
(* a transport checksum are 0 there; what matters of the checksum is over, *)
(* the length in the pseudo header that it was computed with.              *)
(*                                                                         *)
(* The records that carry the data are the subject of PacketManager and    *)
(* SafeReceive, the choice of the flow that of ServerDriver.  All packets  *)
(* are IPv4, with TCP or UDP.                                              *)
(***************************************************************************)
EXTENDS Integers, Sequences

CONSTANTS
  Client,   \* address of the client's adapter, four bytes
  Server,   \* address of the VPN server
  Remote,   \* address of the host the client talks to
  Ports,    \* ports, two bytes each
  Messages, \* what hosts send: [proto, opts, tail], tail without the ports
  Junk,     \* bytes that may lie behind the end of an allocation
  None

TCP == 6
UDP == 17

Bytes == 0 .. 255

\* What the sixteen bits of a length can tell apart.
LengthLimit == 65536

\* What follows the ports in a packet of TCP or UDP that fits into an IP
\* packet: at least the fixed header, the bytes of the checksum 0.
Sound(m) ==
  /\ m.proto \in {TCP, UDP}
  /\ m.opts \in Seq(Bytes) /\ Len(m.opts) % 4 = 0
  /\ m.tail \in Seq(Bytes) /\ 24 + Len(m.opts) + Len(m.tail) < LengthLimit
  /\ m.proto = TCP => Len(m.tail) >= 16 /\ m.tail[13] = 0 /\ m.tail[14] = 0
  /\ m.proto = UDP => Len(m.tail) >= 4 /\ m.tail[3] = 0 /\ m.tail[4] = 0

ASSUME TransitAssumption ==
  /\ \A a \in {Client, Server, Remote} : a \in Seq(Bytes) /\ Len(a) = 4
  /\ \A p \in Ports : p \in Seq(Bytes) /\ Len(p) = 2
  /\ \A m \in Messages : Sound(m)
  /\ Junk \subseteq Bytes /\ Junk # {}

VARIABLES
  phase,    \* where the packet is
  captured, \* the packet the client captured
  record,   \* the QTunnelData under way in the tunnel
  flow,     \* key of response_sockets_ that the packet made
  sent,     \* the packet the server sent for it
  answer,   \* a packet the raw socket of the flow received
  injected  \* the packet the client injected for the answer

transitVars == <<phase, captured, record, flow, sent, answer, injected>>

TransitInit ==
  /\ phase = "idle"
  /\ captured = None /\ record = <<>> /\ flow = None
  /\ sent = None /\ answer = None /\ injected = None

\* A packet as a host with a sound network stack sends it.
WholePacket(src, sport, dst, dport, m) ==
  LET rest == sport \o dport \o m.tail
  IN  [src |-> src, dst |-> dst, proto |-> m.proto, opts |-> m.opts,
       total |-> 20 + Len(m.opts) + Len(rest),
       rest |-> rest, over |-> Len(rest)]

----------------------------------------------------------------------------
(* Views of a packet *)

\* The bytes from where the view of the IP header ends: parse_packet counts
\* one byte of options for each word of them.
Transport(p) ==
  LET all == p.opts \o p.rest
  IN  SubSeq(all, Len(p.opts) \div 4 + 1, Len(all))

\* The bitwise "or" of two bytes.
OrBit(a, b, w) == IF (a \div w) % 2 = 1 \/ (b \div w) % 2 = 1 THEN w ELSE 0

OrByte(a, b) ==
  OrBit(a, b, 1) + OrBit(a, b, 2) + OrBit(a, b, 4) + OrBit(a, b, 8)
    + OrBit(a, b, 16) + OrBit(a, b, 32) + OrBit(a, b, 64) + OrBit(a, b, 128)

HeaderLength(t) == 4 * (t[13] \div 16)

\* The view of the transport header stays inside the packet.
Readable(p) ==
  p.proto = TCP => HeaderLength(Transport(p)) \in 20 .. Len(Transport(p))

\* get_tcp_flags: the NS bit is moved by one, onto SYN.
TcpFlags(t) == OrByte(2 * (t[13] % 2), t[14])

Payload(p) ==
  LET t == Transport(p)
  IN  SubSeq(t, (IF p.proto = TCP THEN HeaderLength(t) ELSE 8) + 1, Len(t))

TwoBytes(n) == <<(n \div 256) % 256, n % 256>>

Number(b) == 256 * b[1] + b[2]

----------------------------------------------------------------------------
(* Protocol data and QTunnelData *)

\* Mutant of TcpProtoData: the size does not count the options.
TcpProtoDataNoOptions(t) ==
  TwoBytes(15) \o SubSeq(t, 5, 12) \o TwoBytes(TcpFlags(t))
    \o <<t[13] \div 16>> \o SubSeq(t, 15, 16) \o SubSeq(t, 19, 20)
    \o SubSeq(t, 21, HeaderLength(t))

\* QTunnelTCPViewScheme::generate_object_bytes: sequence number,
\* acknowledgement, flags, offset, window, urgent pointer and options.
TcpProtoData(t) ==
  LET body == SubSeq(t, 5, 12) \o TwoBytes(TcpFlags(t)) \o <<t[13] \div 16>>
                \o SubSeq(t, 15, 16) \o SubSeq(t, 19, 20)
                \o SubSeq(t, 21, HeaderLength(t))
  IN  TwoBytes(Len(body)) \o body

\* QTunnelUDPViewScheme::generate_object_bytes.
UdpProtoData(t) == TwoBytes(2) \o SubSeq(t, 5, 6)

CollectProtoData(p) ==
  IF p.proto = TCP THEN TcpProtoData(Transport(p))
                   ELSE UdpProtoData(Transport(p))

\* TLSAppDataGenerator::generate_object_bytes behind the packet data.
TunnelData(proto, src, sport, dst, dport, pd, payload) ==
  <<4, proto>> \o src \o sport \o dst \o dport \o pd \o payload

\* The constructor of QTunnelData.
ParseTunnelData(d) ==
  LET size == Number(SubSeq(d, 15, 16))
  IN  [net |-> d[1], proto |-> d[2],
       src |-> SubSeq(d, 3, 6), sport |-> SubSeq(d, 7, 8),
       dst |-> SubSeq(d, 9, 12), dport |-> SubSeq(d, 13, 14),
       pd |-> SubSeq(d, 15, 16 + size),
       payload |-> SubSeq(d, 17 + size, Len(d))]

----------------------------------------------------------------------------
(* Packets made anew *)

\* The first n bytes of protocol data, with byte j where there are none.
Read(pd, n, j) ==
  [i \in 1 .. n |-> IF i <= Len(pd) THEN pd[i] ELSE j]

\* TcpPacketLittleEndian::generate_object_bytes from QTunnelTCPViewScheme.
TcpHeader(sport, dport, pd, j) ==
  LET s == Read(pd, 17, j)
  IN  sport \o dport \o SubSeq(s, 3, 10)
        \o <<(16 * s[13] + (s[11] % 2)) % 256, s[12]>> \o SubSeq(s, 14, 15)
        \o <<0, 0>> \o SubSeq(s, 16, 17) \o SubSeq(pd, 18, Len(pd))

\* UdpPacketLittleEndian::generate_object_bytes from QTunnelUDPViewScheme.
UdpHeader(sport, dport, pd) == sport \o dport \o SubSeq(pd, 3, 4) \o <<0, 0>>

\* get_transport_length: of UDP, four times its length field.
TransportLength(proto, h) ==
  IF proto = TCP THEN HeaderLength(h)
                 ELSE (4 * Number(SubSeq(h, 5, 6))) % LengthLimit

\* generate_sender_packet: the IP header has no options; the checksum is
\* computed over the length that the IP header states.
SenderPacket(key, d) ==
  LET h == IF d.proto = TCP THEN TcpHeader(key.lport, d.dport, d.pd, 0)
                            ELSE UdpHeader(key.lport, d.dport, d.pd)
      size == TransportLength(d.proto, h) + Len(d.payload)
  IN  [src |-> Server, dst |-> d.dst, proto |-> d.proto, opts |-> <<>>,
       total |-> (20 + size) % LengthLimit,
       rest |-> h \o d.payload, over |-> size % LengthLimit]

\* is_reset_connection_packet: FIN or RST.
IsReset(p) ==
  LET flags == TcpFlags(Transport(p))
  IN  p.proto = TCP /\ (flags % 2 = 1 \/ (flags \div 4) % 2 = 1)

\* TcpPacketLittleEndian::generate_object parses the header it has made: the
\* object has as many bytes as the offset names, which is more than were made
\* if the offset is junk (j stands for the bytes behind them).
Reparsed(h, j) == Read(h, HeaderLength(h), j)

\* The header of an answer is made as TCP, whatever the record says.
AnswerHeader(d, j) == TcpHeader(d.sport, d.dport, d.pd, j)

\* new_packet_bytes_by_this on the tunnel's own segment: always TCP, under
\* the IP header of that segment; recalculate_lengths puts the true length
\* on top of the offset.
InjectedPacket(d, j) ==
  LET h == Reparsed(AnswerHeader(d, j), j)
      g == [h EXCEPT ![13] = OrByte(@, 16 * (Len(h) \div 4))]
  IN  [src |-> d.src, dst |-> d.dst, proto |-> TCP, opts |-> <<>>,
       total |-> 20 + Len(h) + Len(d.payload),
       rest |-> g \o d.payload, over |-> Len(h) + Len(d.payload)]

----------------------------------------------------------------------------
(* The way of a packet *)

\* An application on the client sends a packet that the filter diverts.
Capture(sport, dport, m) ==
  /\ phase = "idle"
  /\ captured' = WholePacket(Client, sport, Remote, dport, m)
  /\ phase' = "captured"
  /\ flow' = None /\ sent' = None /\ answer' = None /\ injected' = None
  /\ UNCHANGED record

\* outgoing_capture_loop.
EncodeCaptured ==
  /\ phase = "captured" /\ Readable(captured)
  /\ record' = TunnelData(captured.proto, captured.src,
                          SubSeq(Transport(captured), 1, 2), captured.dst,
                          SubSeq(Transport(captured), 3, 4),
                          CollectProtoData(captured), Payload(captured))
  /\ phase' = "request"
  /\ UNCHANGED <<captured, flow, sent, answer, injected>>

\* vpn_request_loop_iteration, with the packet of a flow that has a socket.
Forward ==
  /\ phase = "request"
  /\ LET d == ParseTunnelData(record)
         key == [client |-> d.src, lport |-> d.sport,
                 raddr |-> d.dst, rport |-> d.dport]
     IN  /\ sent' = SenderPacket(key, d)
         /\ flow' = IF IsReset(sent') THEN None ELSE key
  /\ phase' = "sent" /\ record' = <<>>
  /\ UNCHANGED <<captured, answer, injected>>

\* The raw socket of the flow receives a packet of the remote host.
Answer(m) ==
  /\ phase = "sent" /\ flow # None
  /\ m.proto = sent.proto
  /\ answer' = WholePacket(flow.raddr, flow.rport, Server, flow.lport, m)
  /\ phase' = "answered"
  /\ UNCHANGED <<captured, record, flow, sent, injected>>

\* Mutant of CarryBack: the record is addressed as the packet was.
CarryBackAsIs ==
  /\ phase = "answered" /\ Readable(answer)
  /\ record' = TunnelData(answer.proto, answer.src,
                          SubSeq(Transport(answer), 1, 2), answer.dst,
                          flow.lport, CollectProtoData(answer),
                          Payload(answer))
  /\ flow' = IF IsReset(answer) THEN None ELSE flow
  /\ phase' = "response"
  /\ UNCHANGED <<captured, sent, answer, injected>>

\* vpn_response_loop_iteration: the client's address and port come from the
\* key of the flow.
CarryBack ==
  /\ phase = "answered" /\ Readable(answer)
  /\ record' = TunnelData(answer.proto, answer.src,
                          SubSeq(Transport(answer), 1, 2), flow.client,
                          flow.lport, CollectProtoData(answer),
                          Payload(answer))
  /\ flow' = IF IsReset(answer) THEN None ELSE flow
  /\ phase' = "response"
  /\ UNCHANGED <<captured, sent, answer, injected>>

\* incoming_capture_loop: the answer replaces the tunnel's segment.
Inject ==
  /\ phase = "response"
  /\ LET d == ParseTunnelData(record)
     IN  \E j \in Junk : /\ HeaderLength(AnswerHeader(d, j)) >= 20
                         /\ injected' = InjectedPacket(d, j)
  /\ phase' = "injected" /\ record' = <<>>
  /\ UNCHANGED <<captured, flow, sent, answer>>

\* A transport header read from the wrong place names a length that leaves
\* the packet, or the junk offset of an answer one below the fixed header,
\* whose options are then a range of negative length: what the loop does with
\* it is not defined, and nothing is said of what follows.
Misread ==
  /\ \/ phase = "captured" /\ ~Readable(captured)
     \/ phase = "answered" /\ ~Readable(answer)
     \/ /\ phase = "response"
        /\ \E j \in Junk :
             HeaderLength(AnswerHeader(ParseTunnelData(record), j)) < 20
  /\ phase' = "lost"
  /\ UNCHANGED <<captured, record, flow, sent, answer, injected>>

\* The next packet, of the same flow or of another.
NextPacket ==
  /\ phase \in {"sent", "injected"}
  /\ phase' = "idle"
  /\ UNCHANGED <<captured, record, flow, sent, answer, injected>>

TransitNext ==
  \/ \E sport, dport \in Ports, m \in Messages : Capture(sport, dport, m)
  \/ EncodeCaptured \/ Forward
  \/ \E m \in Messages : Answer(m)
  \/ CarryBack \/ Inject \/ Misread \/ NextPacket

TransitSpec == TransitInit /\ [][TransitNext]_transitVars

----------------------------------------------------------------------------
(* What must hold *)

\* Lengths and checksum are those of the bytes the packet has.
Proper(p) ==
  p.total = 20 + Len(p.opts) + Len(p.rest) /\ p.over = Len(p.rest)

\* q's bytes are those of p, except that the reserved bits and NS are lost
\* and may come out as SYN.
SameBytes(p, q) ==
  /\ Len(q.rest) = Len(p.rest)
  /\ \A i \in DOMAIN p.rest :
       q.rest[i] # p.rest[i] =>
         /\ p.proto = TCP /\ p.rest[13] % 16 # 0
         /\ i \in {13, 14}

\* The server sends what the client captured, to where it was meant for and
\* from its own address, through generate_object_bytes, QTunnelData and
\* generate_sender_packet: byte by byte if there were no IP options, and with
\* true lengths and checksum unless it is UDP.
RequestTravels ==
  sent # None =>
    /\ sent.src = Server /\ sent.dst = captured.dst
    /\ sent.proto = captured.proto
    /\ captured.opts = <<>> =>
         /\ SameBytes(captured, sent)
         /\ Proper(sent) \/ sent.proto = UDP

\* A TCP answer is injected as a packet from the remote host to the address
\* and port that the captured packet came from, with its bytes, lengths and
\* checksum: vpn_response_loop_iteration and new_packet_by_this undo what the
\* server put in place of the client's address.
AnswerReturns ==
  injected # None /\ captured.opts = <<>> /\ answer.opts = <<>>
    /\ answer.proto = TCP =>
      /\ injected.src = captured.dst /\ injected.dst = captured.src
      /\ SubSeq(injected.rest, 1, 2) = SubSeq(captured.rest, 3, 4)
      /\ SubSeq(injected.rest, 3, 4) = SubSeq(captured.rest, 1, 2)
      /\ SameBytes(answer, injected) /\ Proper(injected)
=============================================================================
