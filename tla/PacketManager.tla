--------------------------- MODULE PacketManager ---------------------------
(***************************************************************************)
(* QVPNPacketManager: the layer that cuts a captured packet into parts     *)
(* that fit a TLS record, and puts the parts together again at the other   *)
(* end of the tunnel (qvpn_driver.hpp, qvpn_driver.cpp).                   *)
(*                                                                         *)
(* The direction modelled is from the clients to the server.  A connection *)
(* c is a client process with an id counter of its own, an ordered byte    *)
(* stream (one element of wire[c] is one application-data record) and a    *)
(* server thread that decodes what arrives.  All these threads share the   *)
(* ONE packet manager of the server driver.  A connection that breaks is   *)
(* never made again (see Session): the next start of the client is another *)
(* member of Conns.  No lock guards the manager.  Here the calls that      *)
(* decode_data makes on it are the steps; what threads do to one another   *)
(* between two statements of a call is in PacketCache.                     *)
(*                                                                         *)
(* Bytes are numbers because PacketBuilder::add_data looks for a byte      *)
(* VALUE.  Widths are parameters: ByteMod stands for 2^8 and ShortMod for  *)
(* 2^16.                                                                   *)
(***************************************************************************)
EXTENDS Integers, Sequences, FiniteSets

CONSTANTS
  Conns,        \* tunnel connections that share the receiving manager
  ByteMod,      \* 2^8 in the code: width of a byte and of a packet id
  ShortMod,     \* 2^16 in the code: width of offsets and sizes
  Meta,         \* data_meta_qvpn_size, 306 in the code
  Proxy,        \* proxy header bytes each connection puts before a payload
  Payloads,     \* payloads a capture may hand to encode_and_send
  MaxPackets,   \* bound on the number of packets sent
  NoId          \* "nothing cached"

Byte   == 0 .. ByteMod - 1
UShort == 0 .. ShortMod - 1

(***************************************************************************)
(* The sizes of the code, 2^8, 2^16 and 306, satisfy these.                *)
(***************************************************************************)
ASSUME SizesAssumption ==
  /\ ByteMod \in Nat /\ ByteMod > 2
  /\ ShortMod \in Nat /\ Meta \in Nat
  /\ Meta < ShortMod - 1
  /\ 3 * Meta <= ShortMod

ASSUME DataAssumption ==
  /\ Payloads \subseteq Seq(Byte)
  /\ \A p \in Payloads : Len(p) < ShortMod   \* an IP packet is no longer
  /\ Proxy \in [Conns -> Seq(Byte)]

ASSUME BoundsAssumption ==
  /\ MaxPackets \in Nat
  /\ NoId \notin Byte
  /\ IsFiniteSet(Conns)

VARIABLES
  lastId,     \* last_packet_id_ of each sender
  broken,     \* connections on which a send was refused
  wire,       \* parts in flight on each connection, oldest first
  packets,    \* packets_: the builders, by packet id
  cache,      \* cache_: id of the cached full packet, or NoId
  pc,         \* where each decoding thread is in decode_data
  ub,         \* TRUE once a step with undefined behaviour has been taken
  sent,       \* history: the packets handed to encode_and_send
  abandoned,  \* history: packets some part of which was lost
  delivered   \* history: what decode_data returned, and to whom

vars == <<lastId, broken, wire, packets, cache, pc, ub, sent, abandoned,
          delivered>>

----------------------------------------------------------------------------
(* Splitting *)

\* data_max_size and data_split_size of a manager nobody reconfigured.
DataMax == ShortMod - 1 - Meta
Split   == DataMax \div 2 + 1

(***************************************************************************)
(* The meta data has room for the proxy header (40 bytes of the 306, and   *)
(* never empty), so that no original size wraps; and data_split_size, the  *)
(* offset of a second part, is no byte value (32615 against 256).          *)
(***************************************************************************)
ASSUME HeaderAssumption ==
  /\ \A c \in Conns : 0 < Len(Proxy[c]) /\ Len(Proxy[c]) < Meta - 1
  /\ ByteMod <= Split

\* Number of parts of a payload of n bytes; the quotient is cast to UByte.
PartCount(n) == IF n >= DataMax THEN (n \div Split) % ByteMod ELSE 1

\* The loop of split_packet_view: start_split moves by i * data_split_size
\* from where the previous turn left it, end_split is clamped against the
\* end of the previous turn, and add_data appends a separator that begins
\* at the bytes added so far (data_size_, a UShort).
SplitLoop(n) ==
  LET turn[i \in 0 .. PartCount(n)] ==
        IF i = 0
        THEN [start |-> 0, end |-> Split, from |-> 0, to |-> 0, size |-> 0]
        ELSE LET p     == turn[i - 1]
                 start == p.start + (i - 1) * Split
                 end   == IF n < p.end THEN n ELSE start + Split
             IN  [start |-> start, end |-> end, from |-> p.size,
                  to   |-> p.size + (end - start),
                  size |-> (p.size + (end - start)) % ShortMod]
  IN  turn

\* The separators (begin, end) of the parts and the summed size data_size_.
Separators(n) ==
  IF n >= DataMax
  THEN [i \in 1 .. PartCount(n) |-> [from |-> SplitLoop(n)[i].from,
                                     to   |-> SplitLoop(n)[i].to]]
  ELSE <<[from |-> 0, to |-> n]>>

SplitSize(n) == IF n >= DataMax THEN SplitLoop(n)[PartCount(n)].size
                                ELSE n % ShortMod

\* encode_data: the builder header of every part, and the proxy bytes, which
\* only the first part carries and only its original size accounts for.
Parts(c, id, uid, payload) ==
  LET seps  == Separators(Len(payload))
      size  == SplitSize(Len(payload))
      proxy(i) == IF i = 1 THEN Proxy[c] ELSE <<>>
  IN  [i \in 1 .. Len(seps) |->
        [id     |-> id,
         offset |-> seps[i].from % ShortMod,
         orig   |-> (size + Len(proxy(i))) % ShortMod,
         data   |-> proxy(i) \o SubSeq(payload, seps[i].from + 1, seps[i].to),
         uid    |-> uid]]

----------------------------------------------------------------------------
(* Building *)

\* Mutant of FindByte: a part whose offset is not found goes to the front.
FindByteFront(data, offset) ==
  LET hits == {i \in 1 .. Len(data) : data[i] = offset}
  IN  IF hits = {} THEN 1 ELSE CHOOSE i \in hits : \A j \in hits : i <= j

\* std::find(data_.begin(), data_.end(), offset): the place of the first
\* byte whose VALUE is offset, or the end.
FindByte(data, offset) ==
  LET hits == {i \in 1 .. Len(data) : data[i] = offset}
  IN  IF hits = {} THEN Len(data) + 1
      ELSE CHOOSE i \in hits : \A j \in hits : i <= j

\* PacketBuilder::add_data.  is_full_ is never taken back.
AddData(b, part) ==
  LET at   == FindByte(b.data, part.offset)
      data == SubSeq(b.data, 1, at - 1) \o part.data
                \o SubSeq(b.data, at, Len(b.data))
  IN  [orig |-> b.orig,
       data |-> data,
       full |-> b.full \/ Len(data) = b.orig,
       from |-> b.from \cup {part.uid}]

\* PacketBuilder(begin, end): sized by the part that happens to come first.
NewBuilder(part) ==
  AddData([orig |-> part.orig, data |-> <<>>, full |-> FALSE, from |-> {}],
          part)

\* Mutant of HasBuilderData: a part that fills its packet is refused.
HasBuilderDataShort(part) ==
  /\ Len(part.data) > 0
  /\ part.offset < part.orig
  /\ Len(part.data) + part.offset < part.orig

\* The test of build_packet; a part that fails it changes nothing.
HasBuilderData(part) ==
  /\ Len(part.data) > 0
  /\ part.offset < part.orig
  /\ Len(part.data) + part.offset <= part.orig

BuildPacket(part) ==
  IF ~HasBuilderData(part) THEN packets
  ELSE [id \in DOMAIN packets \cup {part.id} |->
          IF id # part.id THEN packets[id]
          ELSE IF id \in DOMAIN packets THEN AddData(packets[id], part)
          ELSE NewBuilder(part)]

FullIds == {id \in DOMAIN packets : packets[id].full}

----------------------------------------------------------------------------
(* The steps *)

Init ==
  /\ lastId = [c \in Conns |-> 0]
  /\ broken = {}
  /\ wire = [c \in Conns |-> <<>>]
  /\ packets = [id \in {} |-> NoId]
  /\ cache = NoId
  /\ pc = [c \in Conns |-> "decode"]
  /\ ub = FALSE
  /\ sent = <<>>
  /\ abandoned = {}
  /\ delivered = {}

\* Mutant of TakeId: the counter does not wrap.
TakeIdNoWrap(c, payload) ==
  /\ ~ub
  /\ c \notin broken
  /\ Len(sent) < MaxPackets
  /\ lastId' = [lastId EXCEPT ![c] = @ + 1]
  /\ sent' = Append(sent, [conn |-> c, payload |-> payload])

\* split_packet_view takes the next id; the counter wraps at the byte width.
\* What is sent on a broken connection is lost and not modelled.
TakeId(c, payload) ==
  /\ ~ub
  /\ c \notin broken
  /\ Len(sent) < MaxPackets
  /\ lastId' = [lastId EXCEPT ![c] = (@ + 1) % ByteMod]
  /\ sent' = Append(sent, [conn |-> c, payload |-> payload])

\* encode_and_send, every part accepted by the socket.
EncodeAndSend(c, payload) ==
  /\ TakeId(c, payload)
  /\ wire' = [wire EXCEPT ![c] =
                @ \o Parts(c, lastId[c], Len(sent) + 1, payload)]
  /\ UNCHANGED <<broken, packets, cache, pc, ub, abandoned, delivered>>

\* encode_and_send, part k + 1 refused: the parts that are left are dropped,
\* and of what was in flight only the first m parts still reach the server.
EncodeAndFail(c, payload) ==
  LET parts == Parts(c, lastId[c], Len(sent) + 1, payload)
  IN  /\ TakeId(c, payload)
      /\ \E k \in 0 .. Len(parts) - 1 :
           LET flight == wire[c] \o SubSeq(parts, 1, k)
           IN  \E m \in 0 .. Len(flight) :
                 /\ wire' = [wire EXCEPT ![c] = SubSeq(flight, 1, m)]
                 /\ abandoned' = abandoned \cup {Len(sent) + 1}
                      \cup {flight[i].uid : i \in m + 1 .. Len(flight)}
      /\ broken' = broken \cup {c}
      /\ UNCHANGED <<packets, cache, pc, ub, delivered>>

\* decode_data, first call: build_packet on the next record.
Build(c) ==
  /\ ~ub
  /\ pc[c] = "decode"
  /\ wire[c] # <<>>
  /\ packets' = BuildPacket(Head(wire[c]))
  /\ wire' = [wire EXCEPT ![c] = Tail(@)]
  /\ pc' = [pc EXCEPT ![c] = "query"]
  /\ UNCHANGED <<lastId, broken, cache, ub, sent, abandoned, delivered>>

\* Mutant of HaveFullPackets: reports a full packet without caching it.
HaveFullPacketsNoCache(c) ==
  /\ ~ub
  /\ pc[c] = "query"
  /\ pc' = [pc EXCEPT ![c] = IF FullIds # {} THEN "pop" ELSE "decode"]
  /\ UNCHANGED <<lastId, broken, wire, packets, cache, ub, sent, abandoned, delivered>>

\* decode_data, second call: have_full_packets caches the first full builder
\* the hash table's order meets; without one decode_data returns nothing.
HaveFullPackets(c) ==
  /\ ~ub
  /\ pc[c] = "query"
  /\ \/ \E id \in FullIds : cache' = id /\ pc' = [pc EXCEPT ![c] = "pop"]
     \/ /\ FullIds = {}
        /\ cache' = cache
        /\ pc' = [pc EXCEPT ![c] = "decode"]
  /\ UNCHANGED <<lastId, broken, wire, packets, ub, sent, abandoned, delivered>>

\* Mutant of GetAndPopPacket: the packet is copied out and its builder stays.
PopKeepsBuilder(c) ==
  /\ ~ub
  /\ pc[c] = "pop"
  /\ cache # NoId
  /\ cache' = NoId
  /\ pc' = [pc EXCEPT ![c] = "decode"]
  /\ UNCHANGED <<lastId, broken, wire, packets, ub, sent, abandoned, delivered>>

\* decode_data, third call: get_and_pop_packet through the cache.  Its move,
\* erase and clearing of cache_ are one step here and four in PacketCache.
GetAndPopPacket(c) ==
  /\ ~ub
  /\ pc[c] = "pop"
  /\ cache # NoId
  /\ delivered' = delivered \cup {[conn |-> c, from |-> packets[cache].from,
                                   data |-> packets[cache].data]}
  /\ packets' = [id \in DOMAIN packets \ {cache} |-> packets[id]]
  /\ cache' = NoId
  /\ pc' = [pc EXCEPT ![c] = "decode"]
  /\ UNCHANGED <<lastId, broken, wire, ub, sent, abandoned>>

\* get_and_pop_packet after another thread has used up the cache: the other
\* branch erases elements of the map it is iterating over, or leaves an empty
\* packet whose bytes QTunnelData then reads.  Either is undefined behaviour.
GetAndPopUncached(c) ==
  /\ ~ub
  /\ pc[c] = "pop"
  /\ cache = NoId
  /\ ub' = TRUE
  /\ UNCHANGED <<lastId, broken, wire, packets, cache, pc, sent, abandoned, delivered>>

Decode(c) ==
  \/ Build(c)
  \/ HaveFullPackets(c)
  \/ GetAndPopPacket(c)
  \/ GetAndPopUncached(c)

Next ==
  \E c \in Conns :
    \/ \E payload \in Payloads : EncodeAndSend(c, payload)
    \/ \E payload \in Payloads : EncodeAndFail(c, payload)
    \/ Decode(c)

Spec == Init /\ [][Next]_vars

----------------------------------------------------------------------------
(* What must hold *)

Part    == [id: Byte, offset: UShort, orig: UShort, data: Seq(Byte), uid: Nat]
Builder == [orig: UShort, data: Seq(Byte), full: BOOLEAN, from: SUBSET Nat]

\* Every variable keeps its type: ids and sizes stay within their widths.
TypeOK ==
  /\ lastId \in [Conns -> Byte]
  /\ broken \subseteq Conns
  /\ wire \in [Conns -> Seq(Part)]
  /\ DOMAIN packets \subseteq Byte
  /\ packets \in [DOMAIN packets -> Builder]
  /\ cache \in Byte \cup {NoId}
  /\ pc \in [Conns -> {"decode", "query", "pop"}]
  /\ ub \in BOOLEAN
  /\ sent \in Seq([conn: Conns, payload: Seq(Byte)])
  /\ abandoned \subseteq Nat
  /\ delivered \subseteq [conn: Conns, from: SUBSET Nat, data: Seq(Byte)]

\* A full builder never outlives the decode_data calls that are under way:
\* there are at most as many as threads past build_packet, so once every
\* thread is back at its receive call no finished packet is left behind.  (As
\* long as nobody pops between a thread's query and its own pop: see ub.)
FullNeverLingers ==
  Cardinality(FullIds) <= Cardinality({c \in Conns : pc[c] # "decode"})

\* What the split carries of a payload of n bytes: all of it below the
\* limit, above it only whole multiples of data_split_size.
CarriedSize(n) == IF n < DataMax THEN n ELSE (n \div Split) * Split

\* The data is that of one packet as it was sent, up to CarriedSize.
Intact(d) ==
  \E u \in 1 .. Len(sent) :
    /\ d.from = {u}
    /\ d.data = Proxy[sent[u].conn] \o
                  SubSeq(sent[u].payload, 1, CarriedSize(Len(sent[u].payload)))

\* The id that packet u was sent with.
IdOf(u) ==
  Cardinality({v \in 1 .. u - 1 : sent[v].conn = sent[u].conn}) % ByteMod

\* Another connection has sent a packet with the id of packet u.
SharesId(u) ==
  \E v \in 1 .. Len(sent) : sent[v].conn # sent[u].conn /\ IdOf(v) = IdOf(u)

\* The thread of connection c has handed on a packet of another tunnel: it
\* popped the full builder it met first, and may have left its own behind.
TookForeign(c) ==
  \E e \in delivered : e.conn = c /\ \E v \in e.from : sent[v].conn # c

\* What decode_data hands on is one packet that was sent, in order, whichever
\* ids have wrapped around, wherever a connection breaks and however the
\* threads interleave, with two exceptions.  Packets of different clients that
\* were given the same id spoil one another; and a thread that pops another
\* client's packet leaves its own full builder in packets_, where a later
\* packet of the same client finds it once the id has wrapped.
IntactUnlessIdShared ==
  \A d \in delivered :
    Intact(d) \/ \E u \in d.from : SharesId(u) \/ TookForeign(sent[u].conn)
=============================================================================
