---------------------------- MODULE RequestLoop ----------------------------
(***************************************************************************)
(* PacketManager composed with the loop that feeds it: the thread of a     *)
(* tunnel receives a batch of records (SafeReceive), decodes them one by   *)
(* one and sends on what comes out; vpn_request_loop_iteration of          *)
(* qvpn_driver.hpp.                                                        *)
(*                                                                         *)
(* Where that function returns before the last object of its batch, the    *)
(* objects that are left are gone: the part of a packet that yields        *)
(* nothing yet, a send that fails and a reset all do that.  The builder of *)
(* a packet that lost its second part stays in packets_, and a later       *)
(* packet meets it when the one-byte id comes round.                       *)
(*                                                                         *)
(* One tunnel: what the threads of several do to one another inside        *)
(* decode_data is in PacketManager.                                        *)
(***************************************************************************)
EXTENDS PacketManager

CONSTANT C     \* the tunnel

ASSUME OneTunnel == Conns = {C}

VARIABLES
  rpc,    \* where vpn_request_loop_iteration is
  batch,  \* objects of the batch not decoded yet; they are first in wire[C]
  heads   \* history: parts that came first in their batch

loopVars == <<rpc, batch, heads>>
allVars  == <<vars, loopVars>>

LoopInit ==
  /\ Init
  /\ rpc = "recv"
  /\ batch = 0
  /\ heads = {}

\* The client: encode_and_send.
ClientSends(payload) ==
  /\ EncodeAndSend(C, payload) \/ EncodeAndFail(C, payload)
  /\ batch <= Len(wire'[C])     \* what was received is not taken back
  /\ UNCHANGED loopVars

\* safe_recv returns some of the records that were sent.  It may as well wait
\* for more bytes than there are, for ever (SafeReceive).
Receive ==
  /\ rpc = "recv"
  /\ wire[C] # <<>>
  /\ batch' \in 1 .. Len(wire[C])
  /\ heads' = heads \cup {[uid |-> Head(wire[C]).uid,
                           offset |-> Head(wire[C]).offset]}
  /\ rpc' = "object"
  /\ UNCHANGED vars

\* A receive ends one record and brings bytes of the next, and safe_recv
\* returns objects that are no records (SafeReceive).  As behind ub, nothing
\* that the thread makes of them is modelled.
ReceiveCrosses ==
  /\ rpc = "recv"
  /\ Len(wire[C]) > 1
  /\ rpc' = "crossed"
  /\ UNCHANGED <<vars, batch, heads>>

\* decode_data on the next object: build_packet.
BuildObject ==
  /\ rpc = "object" /\ pc[C] = "decode"
  /\ Build(C)
  /\ batch' = batch - 1
  /\ UNCHANGED <<rpc, heads>>

\* Mutant of QueryObject: the loop goes on to the next object.
QueryObjectContinues ==
  /\ rpc = "object"
  /\ HaveFullPackets(C)
  /\ rpc' = IF pc'[C] = "pop" \/ batch > 0 THEN "object" ELSE "recv"
  /\ UNCHANGED <<batch, heads>>

\* have_full_packets; if there is none, decode_data returns nothing and the
\* iteration returns.
QueryObject ==
  /\ rpc = "object"
  /\ HaveFullPackets(C)
  /\ rpc' = IF pc'[C] = "pop" THEN "object" ELSE "drop"
  /\ UNCHANGED <<batch, heads>>

\* get_and_pop_packet: decode_data returns a packet.
PopObject ==
  /\ rpc = "object"
  /\ GetAndPopPacket(C)
  /\ rpc' = "send"
  /\ UNCHANGED <<batch, heads>>

\* Mutant of SendPacket: the loop runs one object too far.
SendPacketPastEnd ==
  /\ rpc = "send"
  /\ rpc' = "object"
  /\ UNCHANGED <<vars, batch, heads>>

\* The packet is sent on, and the loop takes the next object or ends.
SendPacket ==
  /\ rpc = "send"
  /\ rpc' = IF batch = 0 THEN "recv" ELSE "object"
  /\ UNCHANGED <<vars, batch, heads>>

\* The send fails, or the packet carried a reset: the iteration returns.
SendEndsIteration ==
  /\ rpc = "send"
  /\ rpc' = "drop"
  /\ UNCHANGED <<vars, batch, heads>>

\* receive_data goes out of scope with the objects that are left in it.
DropRest ==
  /\ rpc = "drop"
  /\ wire' = [wire EXCEPT ![C] = SubSeq(@, batch + 1, Len(@))]
  /\ abandoned' = abandoned \cup {wire[C][i].uid : i \in 1 .. batch}
  /\ batch' = 0
  /\ rpc' = "recv"
  /\ UNCHANGED <<lastId, broken, packets, cache, pc, ub, sent, delivered,
                 heads>>

\* No socket to the destination: the iteration returns false, the thread
\* closes the connection, and what is in flight is lost.
NoSocket ==
  /\ rpc = "send"
  /\ wire' = [wire EXCEPT ![C] = <<>>]
  /\ abandoned' = abandoned \cup {wire[C][i].uid : i \in 1 .. Len(wire[C])}
  /\ broken' = broken \cup {C}
  /\ batch' = 0
  /\ rpc' = "closed"
  /\ UNCHANGED <<lastId, packets, cache, pc, ub, sent, delivered, heads>>

\* What the thread does without waiting for anybody.
Work ==
  \/ BuildObject \/ QueryObject \/ PopObject
  \/ SendPacket \/ SendEndsIteration \/ DropRest \/ NoSocket

LoopNext ==
  \/ \E payload \in Payloads : ClientSends(payload)
  \/ Receive \/ ReceiveCrosses
  \/ Work

LoopSpec == LoopInit /\ [][LoopNext]_allVars

\* The thread of the tunnel runs; that safe_recv returns is not assumed.
FairLoopSpec == LoopSpec /\ WF_allVars(Work)

----------------------------------------------------------------------------
(* What must hold *)

\* Every variable keeps its type; a batch is never longer than what was sent,
\* and an object is taken only from one that has some left.
LoopTypeOK ==
  /\ TypeOK
  /\ rpc \in {"recv", "object", "send", "drop", "closed", "crossed"}
  /\ batch \in 0 .. Len(wire[C])
  /\ rpc = "object" /\ pc[C] = "decode" => batch > 0
  /\ rpc # "object" => pc[C] = "decode"

\* What the loop is given is one packet as it was sent, unless the rest of
\* another packet, which lost a part with its batch, is mixed into it.
MixedOnlyAfterLoss ==
  \A d \in delivered : Intact(d) \/ d.from \cap abandoned # {}

\* Between two batches, nothing is left in packets_ but packets that lost a
\* part and those whose other part is still to come.
LeftoversLostAPart ==
  rpc = "recv" =>
    \A id \in DOMAIN packets :
      \/ packets[id].from \cap abandoned # {}
      \/ \E i \in 1 .. Len(wire[C]) : wire[C][i].uid \in packets[id].from

\* A packet in two parts comes out only if its second part was the first
\* object of a batch: in one batch with the first part it is always dropped.
SecondPartLedItsBatch ==
  \A d \in delivered : \A u \in d.from :
    Intact(d) /\ Len(sent[u].payload) >= 2 * Split =>
      [uid |-> u, offset |-> Split] \in heads

\* Packet u has the id of an earlier packet that lost a part.
MeetsLeftover(u) ==
  \E v \in abandoned : v < u /\ (u - v) % ByteMod = 0

\* If safe_recv keeps returning while records are in flight (when it does is
\* ReceivedIsReturned of SafeReceive), a packet is in the end handed to the
\* loop, unless a part of it was dropped, the rest of such a packet was in its
\* way, or a receive crossed the end of a record.
SentIsForwarded ==
  []<>(rpc # "recv" \/ wire[C] = <<>>) =>
    \A u \in 1 .. MaxPackets :
      (u <= Len(sent)) ~>
        \/ u \in abandoned \/ MeetsLeftover(u)
        \/ \E d \in delivered : u \in d.from
        \/ rpc = "crossed"

\* No packet vanishes unnoticed: once nothing is in flight and no decode_data
\* is under way, every packet the client sent was handed to the loop, lost a
\* part with a batch or a connection, or is stuck in the builder of one that
\* did.
DrainedLosesNothing ==
  wire[C] = <<>> /\ pc[C] = "decode" =>
    \A u \in 1 .. Len(sent) :
      \/ u \in abandoned
      \/ \E d \in delivered : u \in d.from
      \/ \E id \in DOMAIN packets :
           u \in packets[id].from /\ packets[id].from \cap abandoned # {}
=============================================================================
