------------------------- MODULE RequestLoopProofs -------------------------
(***************************************************************************)
(* Proofs about RequestLoop, for every set of payloads, every width and    *)
(* every way to cut the stream into batches.                               *)
(***************************************************************************)
EXTENDS RequestLoop, PacketManagerProofs

----------------------------------------------------------------------------
(* The inductive invariant *)

\* The packets are those of the one client, as they were captured.
SentByClient ==
  \A u \in 1 .. Len(sent) : sent[u].conn = C /\ sent[u].payload \in Payloads

\* A record is one of the parts of a packet that was sent.
IsPart(x) ==
  /\ x.uid \in 1 .. Len(sent)
  /\ \/ x = FirstPart(C, x.id, x.uid, sent[x.uid].payload)
     \/ /\ InTwo(sent[x.uid].payload)
        /\ x = SecondPart(x.id, x.uid, sent[x.uid].payload)

PartsInFlight == \A i \in 1 .. Len(wire[C]) : IsPart(wire[C][i])

\* y is the second part of the packet whose first part is x.
Follows(x, y) ==
  x.offset = 0 /\ y.offset = Split /\ x.uid = y.uid /\ x.id = y.id

\* Only at the head of the stream is a second part without its first, and a
\* first part without its second belongs to a packet that lost it.
Paired ==
  \A i \in 1 .. Len(wire[C]) :
    /\ wire[C][i].offset = Split /\ i > 1 => Follows(wire[C][i - 1], wire[C][i])
    /\ wire[C][i].offset = 0 /\ InTwo(sent[wire[C][i].uid].payload) =>
         \/ wire[C][i].uid \in abandoned
         \/ i < Len(wire[C]) /\ Follows(wire[C][i], wire[C][i + 1])

\* Packets are in flight in the order in which they were sent.
Ordered ==
  \A i, j \in 1 .. Len(wire[C]) :
    i < j /\ wire[C][j].offset = 0 => wire[C][i].uid < wire[C][j].uid

\* A builder was fed by packets older than any that has yet to begin.
BuildersAreOlder ==
  \A id \in DOMAIN packets :
    /\ packets[id].from # {} /\ packets[id].from \subseteq 1 .. Len(sent)
    /\ \A v \in packets[id].from : \A i \in 1 .. Len(wire[C]) :
         wire[C][i].offset = 0 => v < wire[C][i].uid

\* A builder that holds the whole of packet u, and one that holds its first
\* part and gets the second with the next record.
Complete(b, u) == b.full /\ b.data = WholeOf(C, sent[u].payload)

AwaitsSecond(b, id, u) ==
  /\ ~b.full
  /\ InTwo(sent[u].payload)
  /\ b.data = FirstOf(C, sent[u].payload)
  /\ Len(wire[C]) > 0
  /\ wire[C][1] = SecondPart(id, u, sent[u].payload)

\* A builder either was fed by a packet that lost a part, or holds one packet
\* in one of these two states.
Explained(id) ==
  \/ packets[id].from \cap abandoned # {}
  \/ \E u \in 1 .. Len(sent) :
       /\ packets[id].from = {u}
       /\ packets[id].orig = Len(WholeOf(C, sent[u].payload))
       /\ Complete(packets[id], u) \/ AwaitsSecond(packets[id], id, u)

BuildersExplained == \A id \in DOMAIN packets : Explained(id)

\* A second part at the head of the stream finds its packet in the builder of
\* its id, unless the first was lost.
SecondFindsFirst ==
  Len(wire[C]) > 0 /\ wire[C][1].offset = Split =>
    \/ wire[C][1].uid \in abandoned
    \/ /\ wire[C][1].id \in DOMAIN packets
       /\ wire[C][1].uid \in packets[wire[C][1].id].from

\* A builder that is not full was begun by a part of a packet in two, and is so
\* long that the first part of another such packet cannot fill it up.
UnfinishedAreLong ==
  \A id \in DOMAIN packets :
    ~packets[id].full =>
      \/ /\ packets[id].orig = 2 * Split
         /\ Len(packets[id].data) >= Split
      \/ /\ packets[id].orig = 2 * Split + Len(Proxy[C])
         /\ Len(packets[id].data) >= Split + Len(Proxy[C])

\* Between calls of decode_data no builder is full, and never are two.
OneFull ==
  /\ pc[C] = "decode" => FullIds = {}
  /\ \A i, j \in FullIds : i = j

\* A second part that is about to be decoded led its batch: after its first
\* part nothing is full, and the iteration returns.
SecondLeads ==
  Len(wire[C]) > 0 /\ wire[C][1].offset = Split =>
    /\ rpc # "send"
    /\ rpc = "object" =>
         \/ /\ pc[C] = "decode"
            /\ [uid |-> wire[C][1].uid, offset |-> Split] \in heads
         \/ pc[C] = "query" /\ FullIds = {}

\* A builder with all the bytes of a packet in two got them that way.
WholeMeansLed ==
  \A id \in DOMAIN packets : \A u \in 1 .. Len(sent) :
    packets[id].from = {u} /\ InTwo(sent[u].payload) =>
      \/ Len(packets[id].data) < Len(WholeOf(C, sent[u].payload))
      \/ [uid |-> u, offset |-> Split] \in heads

DeliveredWereSent == \A d \in delivered : d.from \subseteq 1 .. Len(sent)

StreamInv   == SentByClient /\ PartsInFlight /\ Paired /\ Ordered
BuildersInv == /\ BuildersAreOlder /\ BuildersExplained /\ SecondFindsFirst
               /\ UnfinishedAreLong /\ WholeMeansLed
LoopInv ==
  /\ LoopTypeOK /\ CacheNamesFull /\ CacheIsSet /\ OneFull
  /\ StreamInv /\ BuildersInv /\ SecondLeads
  /\ DeliveredWereSent /\ MixedOnlyAfterLoss /\ SecondPartLedItsBatch

----------------------------------------------------------------------------
(* Types *)

\* What a return does to the records of a batch, and a closed connection to
\* all that are in flight: the first k are gone.
Dropped(k) ==
  /\ wire' = [wire EXCEPT ![C] = SubSeq(@, k + 1, Len(@))]
  /\ abandoned' = abandoned \cup {wire[C][i].uid : i \in 1 .. k}
  /\ UNCHANGED <<lastId, packets, cache, pc, ub, sent, delivered, heads>>
  /\ rpc' \in {"recv", "closed"} /\ batch' = 0
  /\ rpc \in {"drop", "send"}
  /\ broken' \in {broken, broken \cup {C}}

\* The streams of the one tunnel.
LEMMA TunnelType ==
  ASSUME TypeOK
  PROVE  /\ C \in Conns
         /\ wire[C] \in Seq(Part) /\ Len(wire[C]) \in Nat
         /\ \A i \in 1 .. Len(wire[C]) : wire[C][i] \in Part
         /\ pc[C] \in {"decode", "query", "pop"}
         /\ Len(sent) \in Nat
<1>1. C \in Conns
  BY OneTunnel
<1>2. wire[C] \in Seq(Part)
  BY <1>1 DEF TypeOK
<1>3. pc[C] \in {"decode", "query", "pop"} /\ Len(sent) \in Nat
  BY <1>1 DEF TypeOK
<1> QED BY <1>1, <1>2, <1>3

\* The kinds of steps there are.
LEMMA StepKinds ==
  ASSUME LoopTypeOK, LoopNext
  PROVE  \/ \E payload \in Payloads : ClientSends(payload)
         \/ Receive \/ BuildObject \/ QueryObject \/ PopObject
         \/ SendPacket \/ SendEndsIteration \/ ReceiveCrosses
         \/ \E k \in 0 .. Len(wire[C]) : Dropped(k)
<1>1. /\ wire[C] \in Seq(Part) /\ Len(wire[C]) \in Nat
      /\ batch \in 0 .. Len(wire[C])
  BY TunnelType DEF LoopTypeOK
<1>2. CASE DropRest
  <2>1. Dropped(batch)
    BY <1>2 DEF DropRest, Dropped
  <2> QED BY <2>1, <1>1
<1>3. CASE NoSocket
  <2>1. SubSeq(wire[C], Len(wire[C]) + 1, Len(wire[C])) = <<>>
    BY <1>1
  <2>2. [wire EXCEPT ![C] = SubSeq(@, Len(wire[C]) + 1, Len(@))]
          = [wire EXCEPT ![C] = <<>>]
    BY <2>1
  <2>3. Dropped(Len(wire[C]))
    BY <1>3, <2>2 DEF NoSocket, Dropped
  <2> QED BY <2>3, <1>1
<1> QED BY <1>2, <1>3 DEF LoopNext, Work

\* Records that are dropped leave the rest of the stream as it was.
LEMMA DroppedStream ==
  ASSUME TypeOK, NEW k \in 0 .. Len(wire[C]), Dropped(k)
  PROVE  /\ wire' \in [Conns -> Seq(Part)]
         /\ Len(wire'[C]) = Len(wire[C]) - k
         /\ \A i \in 1 .. Len(wire'[C]) :
              i + k \in 1 .. Len(wire[C]) /\ wire'[C][i] = wire[C][i + k]
<1> DEFINE w == wire[C]
           t == SubSeq(w, k + 1, Len(w))
<1>1. C \in Conns /\ w \in Seq(Part) /\ Len(w) \in Nat
  BY TunnelType
<1>2. wire' = [wire EXCEPT ![C] = t]
  BY DEF Dropped
<1>3. wire'[C] = t
  BY <1>1, <1>2 DEF TypeOK
<1> HIDE DEF w
<1>4. \A i \in k + 1 .. Len(w) : w[i] \in Part
  BY <1>1
<1>5. t \in Seq(Part) /\ Len(t) = Len(w) - k
  <2>1. k \in Nat /\ k <= Len(w)
    BY <1>1 DEF w
  <2>2. /\ t \in Seq(Part)
        /\ Len(t) = IF k + 1 <= Len(w) THEN Len(w) - (k + 1) + 1 ELSE 0
    BY <1>1, <1>4, <2>1, SubSeqProperties
  <2> QED BY <1>1, <2>1, <2>2
<1>6. \A i \in 1 .. Len(t) : i + k \in 1 .. Len(w) /\ t[i] = w[i + k]
  <2> SUFFICES ASSUME NEW i \in 1 .. Len(t)
               PROVE  i + k \in 1 .. Len(w) /\ t[i] = w[i + k]
    OBVIOUS
  <2>1. k \in Nat /\ k <= Len(w)
    BY <1>1 DEF w
  <2>2. i + k \in 1 .. Len(w) /\ k + 1 + i - 1 = i + k
    BY <1>1, <1>5, <2>1
  <2>3. t[i] = w[k + 1 + i - 1]
    BY <1>1, <1>4, <1>5, <2>1, SubSeqProperties
  <2> QED BY <2>2, <2>3
<1> HIDE DEF t
<1>7. wire' \in [Conns -> Seq(Part)]
  BY <1>1, <1>2, <1>5 DEF TypeOK
<1> QED BY <1>3, <1>5, <1>6, <1>7 DEF w

\* Every step of the loop and its client keeps the types, and a cached packet
\* is there and full.
LEMMA LoopTypeStep ==
  ASSUME LoopTypeOK, CacheNamesFull, [LoopNext]_allVars
  PROVE  LoopTypeOK' /\ CacheNamesFull'
<1>1. /\ TypeOK /\ C \in Conns /\ wire[C] \in Seq(Part) /\ Len(wire[C]) \in Nat
      /\ batch \in 0 .. Len(wire[C])
      /\ rpc \in {"recv", "object", "send", "drop", "closed", "crossed"}
      /\ pc[C] \in {"decode", "query", "pop"}
  BY TunnelType DEF LoopTypeOK
<1>2. ASSUME [Next]_vars
      PROVE  TypeOK' /\ CacheNamesFull' /\ Len(wire'[C]) \in Nat
  <2>1. TypeOK' /\ CacheNamesFull'
    BY <1>1, <1>2, TypeStep, CacheStep
  <2>2. wire'[C] \in Seq(Part)
    BY <1>1, <2>1 DEF TypeOK
  <2> QED BY <2>1, <2>2
<1>3. CASE UNCHANGED allVars
  <2>1. UNCHANGED vars /\ UNCHANGED loopVars
    BY <1>3 DEF allVars
  <2>2. UNCHANGED <<wire, pc>>
    BY <2>1 DEF vars
  <2> QED BY <1>2, <2>1, <2>2 DEF LoopTypeOK, loopVars
<1>4. ASSUME NEW payload \in Payloads, ClientSends(payload)
      PROVE  LoopTypeOK' /\ CacheNamesFull'
  <2>1. Next
    BY <1>1, <1>4 DEF ClientSends, Next
  <2>2. pc' = pc /\ UNCHANGED <<rpc, batch>> /\ batch <= Len(wire'[C])
    BY <1>4 DEF ClientSends, EncodeAndSend, EncodeAndFail, loopVars
  <2>3. batch' \in 0 .. Len(wire'[C])
    BY <1>1, <1>2, <2>1, <2>2
  <2> QED BY <1>1, <1>2, <2>1, <2>2, <2>3 DEF LoopTypeOK
<1>5. CASE Receive
  <2>1. UNCHANGED vars /\ UNCHANGED <<wire, pc>>
    BY <1>5 DEF Receive, vars
  <2> QED BY <1>1, <1>2, <1>5, <2>1 DEF LoopTypeOK, Receive
<1>6. CASE BuildObject
  <2>1. Next
    BY <1>1, <1>6 DEF BuildObject, Next, Decode
  <2>2. /\ wire'[C] = Tail(wire[C]) /\ wire[C] # <<>> /\ pc'[C] = "query"
        /\ batch > 0 /\ batch' = batch - 1 /\ rpc' = rpc /\ rpc = "object"
    BY <1>1, <1>6 DEF BuildObject, Build, LoopTypeOK, TypeOK
  <2>3. Len(wire'[C]) = Len(wire[C]) - 1
    BY <1>1, <2>2
  <2>4. batch' \in 0 .. Len(wire'[C])
    BY <1>1, <2>2, <2>3
  <2> QED BY <1>1, <1>2, <2>1, <2>2, <2>4 DEF LoopTypeOK
<1>7. CASE QueryObject
  <2>1. Next
    BY <1>1, <1>7 DEF QueryObject, Next, Decode
  <2>2. /\ wire' = wire /\ batch' = batch /\ rpc = "object"
        /\ rpc' = IF pc'[C] = "pop" THEN "object" ELSE "drop"
        /\ pc'[C] \in {"pop", "decode"}
    BY <1>1, <1>7 DEF QueryObject, HaveFullPackets, TypeOK
  <2> QED BY <1>1, <1>2, <2>1, <2>2 DEF LoopTypeOK
<1>8. CASE PopObject
  <2>1. Next
    BY <1>1, <1>8 DEF PopObject, Next, Decode
  <2>2. wire' = wire /\ batch' = batch /\ rpc' = "send" /\ pc'[C] = "decode"
    BY <1>1, <1>8 DEF PopObject, GetAndPopPacket, TypeOK
  <2> QED BY <1>1, <1>2, <2>1, <2>2 DEF LoopTypeOK
<1>9. CASE SendPacket \/ SendEndsIteration \/ ReceiveCrosses
  <2>1. /\ UNCHANGED vars /\ UNCHANGED <<wire, pc>> /\ batch' = batch
        /\ rpc \in {"send", "recv"}
    BY <1>9 DEF SendPacket, SendEndsIteration, ReceiveCrosses, vars
  <2>2. \/ rpc' = "recv" \/ rpc' = "drop" \/ rpc' = "crossed"
        \/ rpc' = "object" /\ batch # 0
    BY <1>9 DEF SendPacket, SendEndsIteration, ReceiveCrosses
  <2>3. pc[C] = "decode"
    BY <2>1 DEF LoopTypeOK
  <2> QED BY <1>1, <1>2, <2>1, <2>2, <2>3 DEF LoopTypeOK
<1>10. ASSUME NEW k \in 0 .. Len(wire[C]), Dropped(k)
       PROVE  LoopTypeOK' /\ CacheNamesFull'
  <2>1. /\ wire' \in [Conns -> Seq(Part)] /\ Len(wire'[C]) = Len(wire[C]) - k
    BY <1>1, <1>10, DroppedStream
  <2>2. abandoned' \subseteq Nat
    <3>1. \A i \in 1 .. k : wire[C][i].uid \in Nat
      <4>1. \A i \in 1 .. k : i \in 1 .. Len(wire[C])
        BY <1>1
      <4> QED BY <4>1, <1>1, TunnelType DEF Part
    <3> QED BY <1>1, <1>10, <3>1 DEF Dropped, TypeOK
  <2>3. TypeOK'
    <3>1. broken' \subseteq Conns
      BY <1>1, <1>10 DEF Dropped, TypeOK
    <3> QED BY <1>1, <1>10, <2>1, <2>2, <3>1 DEF Dropped, TypeOK
  <2>4. CacheNamesFull'
    BY <1>10 DEF Dropped, CacheNamesFull
  <2>5. batch' \in 0 .. Len(wire'[C])
    BY <1>1, <1>10, <2>1 DEF Dropped
  <2>6. /\ pc'[C] = "decode" /\ rpc' # "object"
        /\ rpc' \in {"recv", "object", "send", "drop", "closed", "crossed"}
    BY <1>10 DEF Dropped, LoopTypeOK
  <2> QED BY <2>3, <2>4, <2>5, <2>6 DEF LoopTypeOK
<1> QED BY <1>3, <1>4, <1>5, <1>6, <1>7, <1>8, <1>9, <1>10, StepKinds

----------------------------------------------------------------------------
(* Full builders *)

\* The next record, as decode_data takes it.
LEMMA HeadOfStream ==
  ASSUME LoopTypeOK, BuildObject
  PROVE  /\ pc[C] = "decode" /\ pc'[C] = "query" /\ rpc = "object"
         /\ wire[C] # <<>> /\ wire[C][1] \in Part
         /\ Head(wire[C]) = wire[C][1] /\ 1 \in 1 .. Len(wire[C])
         /\ Len(wire'[C]) = Len(wire[C]) - 1
         /\ \A i \in 1 .. Len(wire'[C]) :
              i + 1 \in 1 .. Len(wire[C]) /\ wire'[C][i] = wire[C][i + 1]
         /\ packets' = BuildPacket(wire[C][1])
         /\ UNCHANGED <<rpc, heads, sent, abandoned, delivered, cache, ub>>
<1>1. TypeOK /\ C \in Conns /\ Build(C) /\ rpc = "object" /\ UNCHANGED <<rpc, heads>>
  BY TunnelType DEF LoopTypeOK, BuildObject
<1>2. pc'[C] = "query"
  BY <1>1 DEF Build, TypeOK
<1> QED BY <1>1, <1>2, NextRecord

\* The loop's one thread pops what it finds full, so the cache is there when
\* the pop comes and nothing full is left when it is done.
LEMMA FullStep ==
  ASSUME LoopTypeOK, CacheNamesFull, CacheIsSet, OneFull,
         [LoopNext]_allVars
  PROVE  CacheIsSet' /\ OneFull'
<1>1. TypeOK /\ C \in Conns
  BY TunnelType DEF LoopTypeOK
<1>2. ASSUME [Next]_vars PROVE CacheIsSet'
  <2>1. \A c, d \in Conns : c = d
    BY OneTunnel
  <2> QED BY <1>1, <1>2, <2>1, PopStep
<1>3. ASSUME UNCHANGED <<pc, packets>> PROVE OneFull'
  BY <1>3 DEF OneFull, FullIds
<1>4. CASE UNCHANGED vars
  <2>1. UNCHANGED <<pc, packets>>
    BY <1>4 DEF vars
  <2> QED BY <1>2, <1>3, <1>4, <2>1
<1>5. ASSUME NEW payload \in Payloads, ClientSends(payload)
      PROVE  CacheIsSet' /\ OneFull'
  <2>1. Next
    BY <1>1, <1>5 DEF ClientSends, Next
  <2>2. UNCHANGED <<pc, packets>>
    BY <1>5 DEF ClientSends, EncodeAndSend, EncodeAndFail
  <2> QED BY <1>2, <1>3, <2>1, <2>2
<1>6. CASE BuildObject
  <2>1. Next
    BY <1>1, <1>6 DEF BuildObject, Next, Decode
  <2>2. FullIds = {}
    BY <1>6, HeadOfStream DEF OneFull
  <2> DEFINE x == wire[C][1]
  <2>3. x \in Part /\ packets' = BuildPacket(x) /\ pc'[C] = "query"
    BY <1>6, HeadOfStream
  <2>4. FullIds' \subseteq {x.id}
    <3>1. \A id \in DOMAIN packets' \ {x.id} :
            id \in DOMAIN packets /\ packets'[id] = packets[id]
      BY <1>1, <2>3, BuildPacketType
    <3> QED BY <2>2, <3>1 DEF FullIds
  <2> QED BY <1>2, <2>1, <2>3, <2>4 DEF OneFull
<1>7. CASE QueryObject
  <2>1. Next
    BY <1>1, <1>7 DEF QueryObject, Next, Decode
  <2>2. FullIds' = FullIds /\ (FullIds # {} => pc'[C] = "pop")
    BY <1>1, <1>7 DEF QueryObject, HaveFullPackets, FullIds, TypeOK
  <2> QED BY <1>2, <2>1, <2>2 DEF OneFull
<1>8. CASE PopObject
  <2>1. Next
    BY <1>1, <1>8 DEF PopObject, Next, Decode
  <2>2. cache \in FullIds /\ FullIds' = FullIds \ {cache}
    BY <1>8 DEF PopObject, GetAndPopPacket, CacheNamesFull, FullIds
  <2>3. FullIds' = {}
    BY <2>2 DEF OneFull
  <2> QED BY <1>2, <2>1, <2>3 DEF OneFull
<1>9. ASSUME NEW k \in 0 .. Len(wire[C]), Dropped(k)
      PROVE  CacheIsSet' /\ OneFull'
  <2>1. UNCHANGED <<pc, packets, cache, ub>>
    BY <1>9 DEF Dropped
  <2>2. CacheIsSet'
    BY <2>1, Zenon DEF CacheIsSet
  <2> QED BY <1>3, <2>1, <2>2
<1>10. ASSUME \/ Receive \/ ReceiveCrosses \/ SendPacket \/ SendEndsIteration
              \/ UNCHANGED allVars
       PROVE  UNCHANGED vars
  BY <1>10 DEF Receive, ReceiveCrosses, SendPacket, SendEndsIteration, allVars
<1> QED BY <1>4, <1>5, <1>6, <1>7, <1>8, <1>9, <1>10, StepKinds

----------------------------------------------------------------------------
(* The client sends *)

\* What encode_and_send does to the stream of the tunnel.
LEMMA SendStream ==
  ASSUME LoopTypeOK, NEW payload \in Payloads, ClientSends(payload)
  PROVE  LET new == Len(sent) + 1
         IN  /\ abandoned \subseteq abandoned' /\ Len(wire'[C]) \in Nat
             /\ \A i \in 1 .. Len(wire'[C]) :
                  \/ i <= Len(wire[C]) /\ wire'[C][i] = wire[C][i]
                  \/ /\ i = Len(wire[C]) + 1
                     /\ wire'[C][i] = FirstPart(C, lastId[C], new, payload)
                  \/ /\ i = Len(wire[C]) + 2 /\ InTwo(payload)
                     /\ wire'[C][i] = SecondPart(lastId[C], new, payload)
             /\ \A i \in 1 .. Len(wire[C]) :
                  i > Len(wire'[C]) => wire[C][i].uid \in abandoned'
             /\ InTwo(payload) /\ Len(wire'[C]) < Len(wire[C]) + 2 =>
                  new \in abandoned'
  BY TunnelType, EncodeStream DEF ClientSends, LoopTypeOK

\* What encode_and_send leaves alone.
LEMMA SendFrame ==
  ASSUME LoopTypeOK, NEW payload \in Payloads, ClientSends(payload)
  PROVE  /\ Len(sent) \in Nat /\ Len(sent') = Len(sent) + 1
         /\ \A u \in 1 .. Len(sent) : u \in 1 .. Len(sent') /\ sent'[u] = sent[u]
         /\ \A u \in 1 .. Len(sent') : u \in 1 .. Len(sent) \/ u = Len(sent) + 1
         /\ sent'[Len(sent) + 1].conn = C /\ sent'[Len(sent) + 1].payload = payload
         /\ Len(sent) + 1 \in 1 .. Len(sent')
         /\ UNCHANGED <<packets, pc, delivered, heads, rpc>>
<1>1. sent \in Seq([conn: Conns, payload: Seq(Byte)]) /\ Len(sent) \in Nat
  BY DEF LoopTypeOK, TypeOK
<1>2. /\ sent' = Append(sent, [conn |-> C, payload |-> payload])
      /\ UNCHANGED <<packets, pc, delivered, heads, rpc>>
  BY DEF ClientSends, EncodeAndSend, EncodeAndFail, TakeId, loopVars
<1>3. /\ Len(sent') = Len(sent) + 1
      /\ \A u \in 1 .. Len(sent) : sent'[u] = sent[u]
      /\ sent'[Len(sent) + 1] = [conn |-> C, payload |-> payload]
  BY <1>1, <1>2
<1>4. /\ \A u \in 1 .. Len(sent) : u \in 1 .. Len(sent')
      /\ \A u \in 1 .. Len(sent') : u \in 1 .. Len(sent) \/ u = Len(sent) + 1
      /\ Len(sent) + 1 \in 1 .. Len(sent')
  BY <1>1, <1>3
<1>5. sent'[Len(sent) + 1].conn = C /\ sent'[Len(sent) + 1].payload = payload
  BY <1>3
<1> QED BY <1>1, <1>2, <1>3, <1>4, <1>5

\* The new packet takes its place behind those in flight.
LEMMA SendKeepsStream ==
  ASSUME LoopTypeOK, StreamInv, NEW payload \in Payloads, ClientSends(payload)
  PROVE  StreamInv'
<1> DEFINE new   == Len(sent) + 1
           w     == wire[C]
           v     == wire'[C]
           first == FirstPart(C, lastId[C], new, payload)
           snd   == SecondPart(lastId[C], new, payload)
<1>1. /\ Len(sent) \in Nat /\ Len(sent') = new
      /\ \A u \in 1 .. Len(sent) : u \in 1 .. Len(sent') /\ sent'[u] = sent[u]
      /\ \A u \in 1 .. Len(sent') : u \in 1 .. Len(sent) \/ u = new
      /\ sent'[new].conn = C /\ sent'[new].payload = payload
      /\ new \in 1 .. Len(sent')
  BY SendFrame
<1>2. /\ abandoned \subseteq abandoned'
      /\ \A i \in 1 .. Len(v) :
           \/ i <= Len(w) /\ v[i] = w[i]
           \/ i = Len(w) + 1 /\ v[i] = first
           \/ i = Len(w) + 2 /\ InTwo(payload) /\ v[i] = snd
      /\ \A i \in 1 .. Len(w) : i > Len(v) => w[i].uid \in abandoned'
      /\ InTwo(payload) /\ Len(v) < Len(w) + 2 => new \in abandoned'
  BY SendStream
<1>3. Len(w) \in Nat /\ Len(v) \in Nat
  BY SendStream, TunnelType DEF LoopTypeOK
<1>4. /\ first.offset = 0 /\ snd.offset = Split /\ Split # 0
      /\ first.uid = new /\ snd.uid = new
      /\ first.id = lastId[C] /\ snd.id = lastId[C]
  BY PartFields
<1>5. \A i \in 1 .. Len(v) :
        \/ i \in 1 .. Len(w) /\ v[i] = w[i]
        \/ i = Len(w) + 1 /\ v[i] = first
        \/ i = Len(w) + 2 /\ InTwo(payload) /\ v[i] = snd
  BY <1>2, <1>3
<1>6. \A i \in 1 .. Len(w) : w[i].uid \in 1 .. Len(sent)
  BY DEF StreamInv, PartsInFlight, IsPart
<1>7. SentByClient'
  BY <1>1 DEF StreamInv, SentByClient
<1>8. PartsInFlight'
  <2> SUFFICES ASSUME NEW i \in 1 .. Len(v)
               PROVE  /\ v[i].uid \in 1 .. Len(sent')
                      /\ \/ v[i] = FirstPart(C, v[i].id, v[i].uid,
                                             sent'[v[i].uid].payload)
                         \/ /\ InTwo(sent'[v[i].uid].payload)
                            /\ v[i] = SecondPart(v[i].id, v[i].uid,
                                                 sent'[v[i].uid].payload)
    BY DEF PartsInFlight, IsPart
  <2>1. CASE i \in 1 .. Len(w) /\ v[i] = w[i]
    <3>1. IsPart(w[i])
      BY <2>1 DEF StreamInv, PartsInFlight
    <3> QED BY <1>1, <2>1, <3>1 DEF IsPart
  <2>2. CASE v[i] = first
    BY <1>1, <1>4, <2>2
  <2>3. CASE InTwo(payload) /\ v[i] = snd
    BY <1>1, <1>4, <2>3
  <2> QED BY <1>5, <2>1, <2>2, <2>3
<1> HIDE DEF first, snd
<1>9. Paired'
  <2> SUFFICES ASSUME NEW i \in 1 .. Len(v)
               PROVE  /\ v[i].offset = Split /\ i > 1 => Follows(v[i - 1], v[i])
                      /\ v[i].offset = 0 /\ InTwo(sent'[v[i].uid].payload) =>
                           \/ v[i].uid \in abandoned'
                           \/ i < Len(v) /\ Follows(v[i], v[i + 1])
    BY DEF Paired
  <2>1. CASE i \in 1 .. Len(w) /\ v[i] = w[i]
    <3>1. ASSUME v[i].offset = Split, i > 1 PROVE Follows(v[i - 1], v[i])
      <4>1. i - 1 \in 1 .. Len(v) /\ i - 1 # Len(w) + 1 /\ i - 1 # Len(w) + 2
        BY <1>3, <2>1, <3>1
      <4>2. v[i - 1] = w[i - 1]
        BY <1>5, <4>1
      <4> QED BY <2>1, <3>1, <4>2 DEF StreamInv, Paired
    <3>2. ASSUME v[i].offset = 0, InTwo(sent'[v[i].uid].payload),
                 v[i].uid \notin abandoned'
          PROVE  i < Len(v) /\ Follows(v[i], v[i + 1])
      <4>1. InTwo(sent[w[i].uid].payload) /\ w[i].uid \notin abandoned
        BY <1>1, <1>2, <1>6, <2>1, <3>2
      <4>2. i < Len(w) /\ Follows(w[i], w[i + 1])
        BY <2>1, <3>2, <4>1 DEF StreamInv, Paired
      <4>3. i + 1 \in 1 .. Len(w) /\ w[i + 1].uid = w[i].uid
        BY <1>3, <2>1, <4>2 DEF Follows
      <4>4. i + 1 <= Len(v)
        BY <1>2, <1>3, <2>1, <3>2, <4>3
      <4>5. i + 1 \in 1 .. Len(v) /\ i + 1 # Len(w) + 1 /\ i + 1 # Len(w) + 2
        BY <1>3, <4>2, <4>4
      <4>6. v[i + 1] = w[i + 1]
        BY <1>5, <4>5
      <4> QED BY <1>3, <2>1, <4>2, <4>4, <4>6
    <3> QED BY <3>1, <3>2
  <2>2. CASE i = Len(w) + 1 /\ v[i] = first
    <3>1. v[i].offset # Split
      BY <1>4, <2>2
    <3>2. ASSUME InTwo(payload), new \notin abandoned'
          PROVE  i < Len(v) /\ Follows(v[i], v[i + 1])
      <4>1. Len(v) >= Len(w) + 2
        BY <1>2, <1>3, <3>2
      <4>2. i + 1 \in 1 .. Len(v) /\ i + 1 = Len(w) + 2
        BY <1>3, <2>2, <4>1
      <4>3. i + 1 \notin 1 .. Len(w) /\ i + 1 # Len(w) + 1
        BY <1>3, <4>2
      <4>4. v[i + 1] = snd
        BY <1>5, <4>2, <4>3
      <4>5. Follows(first, snd)
        BY <1>4 DEF Follows
      <4> QED BY <1>3, <2>2, <4>1, <4>4, <4>5
    <3> QED BY <1>1, <1>4, <2>2, <3>1, <3>2
  <2>3. CASE i = Len(w) + 2 /\ v[i] = snd
    <3>1. i - 1 \in 1 .. Len(v) /\ i - 1 = Len(w) + 1
      BY <1>3, <2>3
    <3>2. i - 1 \notin 1 .. Len(w) /\ i - 1 # Len(w) + 2
      BY <1>3, <3>1
    <3>3. v[i - 1] = first
      BY <1>5, <3>1, <3>2
    <3>4. Follows(first, snd)
      BY <1>4 DEF Follows
    <3> QED BY <1>4, <2>3, <3>3, <3>4
  <2> QED BY <1>5, <2>1, <2>2, <2>3
<1>10. Ordered'
  <2> SUFFICES ASSUME NEW i \in 1 .. Len(v), NEW j \in 1 .. Len(v),
                      i < j, v[j].offset = 0
               PROVE  v[i].uid < v[j].uid
    BY DEF Ordered
  <2>1. CASE j \in 1 .. Len(w) /\ v[j] = w[j]
    <3>1. i \in 1 .. Len(w) /\ i # Len(w) + 1 /\ i # Len(w) + 2
      BY <1>3, <2>1
    <3>2. v[i] = w[i]
      BY <1>5, <3>1
    <3> QED BY <2>1, <3>1, <3>2 DEF StreamInv, Ordered
  <2>2. CASE j = Len(w) + 1 /\ v[j] = first
    <3>1. i \in 1 .. Len(w) /\ i # Len(w) + 1 /\ i # Len(w) + 2
      BY <1>3, <2>2
    <3>2. v[i] = w[i]
      BY <1>5, <3>1
    <3> QED BY <1>1, <1>4, <1>6, <2>2, <3>1, <3>2
  <2>3. CASE v[j] = snd
    BY <1>4, <2>3
  <2> QED BY <1>5, <2>1, <2>2, <2>3
<1> QED BY <1>7, <1>8, <1>9, <1>10 DEF StreamInv

\* The bytes of a packet that was sent are there.
LEMMA SentShape ==
  ASSUME LoopTypeOK, SentByClient, NEW u \in 1 .. Len(sent)
  PROVE  /\ C \in Conns /\ sent[u].conn = C /\ sent[u].payload \in Payloads
  BY TunnelType DEF SentByClient, LoopTypeOK

\* What is delivered and what is in the builders has nothing to do with a new
\* packet; a builder whose second part is cut belongs to a packet that is lost.
LEMMA SendKeepsBuilders ==
  ASSUME LoopTypeOK, StreamInv, BuildersInv, SecondLeads, DeliveredWereSent,
         MixedOnlyAfterLoss, SecondPartLedItsBatch,
         NEW payload \in Payloads, ClientSends(payload)
  PROVE  /\ BuildersInv' /\ SecondLeads' /\ DeliveredWereSent'
         /\ MixedOnlyAfterLoss' /\ SecondPartLedItsBatch'
<1> DEFINE new == Len(sent) + 1
           w   == wire[C]
           v   == wire'[C]
<1>1. /\ Len(sent) \in Nat
      /\ \A u \in 1 .. Len(sent) : u \in 1 .. Len(sent') /\ sent'[u] = sent[u]
      /\ \A u \in 1 .. Len(sent') : u \in 1 .. Len(sent) \/ u = new
      /\ UNCHANGED <<packets, pc, delivered, heads, rpc>>
  BY SendFrame
<1>2. /\ abandoned \subseteq abandoned' /\ Len(v) \in Nat /\ Len(w) \in Nat
      /\ \A i \in 1 .. Len(w) : i > Len(v) => w[i].uid \in abandoned'
  BY SendStream, TunnelType DEF LoopTypeOK
<1>3. \A i \in 1 .. Len(v) : \/ i \in 1 .. Len(w) /\ v[i] = w[i]
                             \/ i > Len(w) /\ v[i].uid = new
  BY <1>2, SendStream, PartFields
<1>4. Len(v) > 0 => \/ Len(w) > 0 /\ v[1] = w[1]
                    \/ Len(w) = 0 /\ v[1].offset = 0
  <2> SUFFICES ASSUME Len(v) > 0, Len(w) = 0 PROVE v[1].offset = 0
    <3>1. ASSUME Len(v) > 0, Len(w) > 0 PROVE v[1] = w[1]
      <4>1. 1 \in 1 .. Len(v) /\ ~(1 > Len(w))
        BY <1>2, <3>1
      <4> QED BY <1>3, <4>1
    <3> QED BY <1>2, <3>1
  <2>1. 1 \in 1 .. Len(v) /\ ~(1 <= Len(w)) /\ 1 # Len(w) + 2
    BY <1>2
  <2>2. v[1] = FirstPart(C, lastId[C], new, payload)
    BY <2>1, SendStream
  <2> QED BY <2>2, PartFields
<1> HIDE DEF v, w, new
<1>5. BuildersAreOlder'
  <2> SUFFICES ASSUME NEW id \in DOMAIN packets
               PROVE  /\ packets[id].from # {}
                      /\ packets[id].from \subseteq 1 .. Len(sent')
                      /\ \A x \in packets[id].from : \A i \in 1 .. Len(v) :
                           v[i].offset = 0 => x < v[i].uid
    BY <1>1 DEF BuildersAreOlder, v
  <2>1. /\ packets[id].from # {} /\ packets[id].from \subseteq 1 .. Len(sent)
        /\ \A x \in packets[id].from : \A i \in 1 .. Len(w) :
             w[i].offset = 0 => x < w[i].uid
    BY DEF BuildersInv, BuildersAreOlder, w
  <2>2. \A x \in 1 .. Len(sent) : x < new
    BY <1>1 DEF new
  <2>3. packets[id].from \subseteq 1 .. Len(sent')
    BY <1>1, <2>1
  <2> QED BY <1>3, <2>1, <2>2, <2>3
<1>6. BuildersExplained'
  <2> SUFFICES ASSUME NEW id \in DOMAIN packets PROVE Explained(id)'
    BY <1>1 DEF BuildersExplained
  <2>1. CASE packets[id].from \cap abandoned # {}
    BY <1>1, <1>2, <2>1 DEF Explained
  <2>2. ASSUME NEW u \in 1 .. Len(sent), packets[id].from = {u},
               packets[id].orig = Len(WholeOf(C, sent[u].payload)),
               Complete(packets[id], u) \/ AwaitsSecond(packets[id], id, u)
        PROVE  Explained(id)'
    <3>1. u \in 1 .. Len(sent') /\ sent'[u] = sent[u]
      BY <1>1
    <3>2. CASE Complete(packets[id], u)
      BY <1>1, <2>2, <3>1, <3>2 DEF Explained, Complete
    <3>3. CASE AwaitsSecond(packets[id], id, u)
      <4>1. Len(w) > 0 /\ w[1].uid = u /\ 1 \in 1 .. Len(w)
        BY <1>2, <3>3, PartFields DEF AwaitsSecond, w
      <4>2. CASE Len(v) = 0
        <5>1. u \in abandoned'
          BY <1>2, <4>1, <4>2
        <5> QED BY <1>1, <2>2, <5>1 DEF Explained
      <4>3. CASE Len(v) > 0
        <5>1. v[1] = w[1]
          BY <1>2, <1>4, <4>1, <4>3
        <5> QED BY <1>1, <2>2, <3>1, <3>3, <4>3, <5>1
                DEF Explained, AwaitsSecond, v, w
      <4> QED BY <1>2, <4>2, <4>3
    <3> QED BY <2>2, <3>2, <3>3
  <2> QED BY <2>1, <2>2 DEF BuildersInv, BuildersExplained, Explained
<1>7. SecondFindsFirst'
  BY <1>1, <1>2, <1>4, SizesType DEF BuildersInv, SecondFindsFirst, v, w
<1>8. UnfinishedAreLong'
  BY <1>1 DEF BuildersInv, UnfinishedAreLong
<1>9. WholeMeansLed'
  <2> SUFFICES ASSUME NEW id \in DOMAIN packets, NEW u \in 1 .. Len(sent'),
                      packets[id].from = {u}, InTwo(sent'[u].payload)
               PROVE  \/ Len(packets[id].data) < Len(WholeOf(C, sent'[u].payload))
                      \/ [uid |-> u, offset |-> Split] \in heads
    BY <1>1 DEF WholeMeansLed
  <2>1. u \in 1 .. Len(sent)
    BY DEF BuildersInv, BuildersAreOlder
  <2> QED BY <1>1, <2>1 DEF BuildersInv, WholeMeansLed
<1>10. SecondLeads'
  <2>1. FullIds' = FullIds
    BY <1>1 DEF FullIds
  <2> QED BY <1>1, <1>4, <2>1, SizesType DEF SecondLeads, v, w
<1>11. DeliveredWereSent'
  BY <1>1 DEF DeliveredWereSent
<1>12. ASSUME NEW d \in delivered
       PROVE  Intact(d)' <=> Intact(d)
  <2>1. d.from \subseteq 1 .. Len(sent)
    BY DEF DeliveredWereSent
  <2>2. \A u \in 1 .. Len(sent') : d.from = {u} => u \in 1 .. Len(sent)
    BY <2>1
  <2> QED BY <1>1, <2>2 DEF Intact
<1>13. MixedOnlyAfterLoss'
  BY <1>1, <1>2, <1>12 DEF MixedOnlyAfterLoss
<1>14. SecondPartLedItsBatch'
  <2> SUFFICES ASSUME NEW d \in delivered, NEW u \in d.from, Intact(d)',
                      Len(sent'[u].payload) >= 2 * Split
               PROVE  [uid |-> u, offset |-> Split] \in heads
    BY <1>1 DEF SecondPartLedItsBatch
  <2>1. Intact(d) /\ u \in 1 .. Len(sent)
    BY <1>12 DEF DeliveredWereSent
  <2> QED BY <1>1, <2>1 DEF SecondPartLedItsBatch
<1> QED BY <1>5, <1>6, <1>7, <1>8, <1>9, <1>10, <1>11, <1>13, <1>14
        DEF BuildersInv

----------------------------------------------------------------------------
(* Records are dropped *)

\* What is left of the stream when its first k records are gone is still well
\* formed.
LEMMA SuffixKeepsStream ==
  ASSUME StreamInv, NEW k \in Nat, Len(wire[C]) \in Nat,
         Len(wire'[C]) = Len(wire[C]) - k,
         \A i \in 1 .. Len(wire'[C]) :
           i + k \in 1 .. Len(wire[C]) /\ wire'[C][i] = wire[C][i + k],
         sent' = sent, abandoned \subseteq abandoned'
  PROVE  StreamInv'
<1> DEFINE w == wire[C]
           v == wire'[C]
<1>1. sent' = sent /\ abandoned \subseteq abandoned'
  OBVIOUS
<1>2. /\ Len(w) \in Nat /\ k \in Nat /\ Len(v) = Len(w) - k
      /\ \A i \in 1 .. Len(v) : i + k \in 1 .. Len(w) /\ v[i] = w[i + k]
  OBVIOUS
<1>3. /\ \A i \in 1 .. Len(w) : IsPart(w[i])
      /\ \A i \in 1 .. Len(w) :
           /\ w[i].offset = Split /\ i > 1 => Follows(w[i - 1], w[i])
           /\ w[i].offset = 0 /\ InTwo(sent[w[i].uid].payload) =>
                w[i].uid \in abandoned \/ (i < Len(w) /\ Follows(w[i], w[i + 1]))
      /\ \A i, j \in 1 .. Len(w) :
           i < j /\ w[j].offset = 0 => w[i].uid < w[j].uid
  BY DEF StreamInv, PartsInFlight, Paired, Ordered
<1> HIDE DEF v, w
<1>4. SentByClient' /\ PartsInFlight'
  <2>1. SentByClient'
    BY <1>1 DEF StreamInv, SentByClient
  <2>2. PartsInFlight'
    BY <1>1, <1>2, <1>3 DEF PartsInFlight, IsPart, v
  <2> QED BY <2>1, <2>2
<1>5. Paired'
  <2> SUFFICES ASSUME NEW i \in 1 .. Len(v)
               PROVE  /\ v[i].offset = Split /\ i > 1 => Follows(v[i - 1], v[i])
                      /\ v[i].offset = 0 /\ InTwo(sent[v[i].uid].payload) =>
                           \/ v[i].uid \in abandoned'
                           \/ i < Len(v) /\ Follows(v[i], v[i + 1])
    BY <1>1 DEF Paired, v
  <2>1. i + k \in 1 .. Len(w) /\ v[i] = w[i + k]
    BY <1>2
  <2>2. ASSUME v[i].offset = Split, i > 1 PROVE Follows(v[i - 1], v[i])
    <3>1. i - 1 \in 1 .. Len(v) /\ i + k > 1 /\ i - 1 + k = i + k - 1
      BY <1>2, <2>2
    <3>2. v[i - 1] = w[i + k - 1]
      BY <1>2, <3>1
    <3> QED BY <1>3, <2>1, <2>2, <3>1, <3>2
  <2>3. ASSUME v[i].offset = 0, InTwo(sent[v[i].uid].payload),
               v[i].uid \notin abandoned'
        PROVE  i < Len(v) /\ Follows(v[i], v[i + 1])
    <3>1. i + k < Len(w) /\ Follows(w[i + k], w[i + k + 1])
      BY <1>1, <1>3, <2>1, <2>3
    <3>2. i < Len(v) /\ i + 1 \in 1 .. Len(v) /\ i + 1 + k = i + k + 1
      BY <1>2, <3>1
    <3>3. v[i + 1] = w[i + k + 1]
      BY <1>2, <3>2
    <3> QED BY <2>1, <3>1, <3>2, <3>3
  <2> QED BY <2>2, <2>3
<1>6. Ordered'
  <2> SUFFICES ASSUME NEW i \in 1 .. Len(v), NEW j \in 1 .. Len(v),
                      i < j, v[j].offset = 0
               PROVE  v[i].uid < v[j].uid
    BY DEF Ordered, v
  <2>1. i + k < j + k
    BY <1>2
  <2> QED BY <1>2, <1>3, <2>1
<1> QED BY <1>4, <1>5, <1>6 DEF StreamInv

\* When records are dropped, a second part at the new head has lost its first,
\* and a builder that waits for one that is gone belongs to a lost packet.
LEMMA DropKeeps ==
  ASSUME LoopTypeOK, StreamInv, BuildersInv, DeliveredWereSent,
         MixedOnlyAfterLoss, SecondPartLedItsBatch,
         NEW k \in 0 .. Len(wire[C]), Dropped(k)
  PROVE  /\ StreamInv' /\ BuildersInv' /\ SecondLeads' /\ DeliveredWereSent'
         /\ MixedOnlyAfterLoss' /\ SecondPartLedItsBatch'
<1> DEFINE w == wire[C]
           v == wire'[C]
<1>1. /\ UNCHANGED <<packets, sent, delivered, heads>>
      /\ rpc' \notin {"object", "send"}
      /\ abandoned \subseteq abandoned'
      /\ \A i \in 1 .. k : w[i].uid \in abandoned'
  BY DEF Dropped
<1>2. /\ Len(w) \in Nat /\ k \in Nat /\ k <= Len(w) /\ Len(v) = Len(w) - k
      /\ \A i \in 1 .. Len(v) : i + k \in 1 .. Len(w) /\ v[i] = w[i + k]
  <2>1. TypeOK /\ Len(w) \in Nat
    BY TunnelType DEF LoopTypeOK
  <2>2. /\ Len(v) = Len(w) - k
        /\ \A i \in 1 .. Len(v) : i + k \in 1 .. Len(w) /\ v[i] = w[i + k]
    BY <2>1, DroppedStream
  <2> QED BY <2>1, <2>2
<1>3. \A i \in 1 .. Len(w) :
        w[i].offset = Split /\ i > 1 => Follows(w[i - 1], w[i])
  BY DEF StreamInv, Paired
<1>4. StreamInv'
  BY <1>1, <1>2, SuffixKeepsStream
<1> HIDE DEF v, w
<1>7. BuildersAreOlder'
  <2> SUFFICES ASSUME NEW id \in DOMAIN packets
               PROVE  /\ packets[id].from # {}
                      /\ packets[id].from \subseteq 1 .. Len(sent)
                      /\ \A x \in packets[id].from : \A i \in 1 .. Len(v) :
                           v[i].offset = 0 => x < v[i].uid
    BY <1>1 DEF BuildersAreOlder, v
  <2>1. /\ packets[id].from # {} /\ packets[id].from \subseteq 1 .. Len(sent)
        /\ \A x \in packets[id].from : \A i \in 1 .. Len(w) :
             w[i].offset = 0 => x < w[i].uid
    BY DEF BuildersInv, BuildersAreOlder, w
  <2> QED BY <1>2, <2>1
<1>8. Len(v) > 0 /\ k = 0 => Len(w) > 0 /\ v[1] = w[1]
  <2> SUFFICES ASSUME Len(v) > 0, k = 0 PROVE Len(w) > 0 /\ v[1] = w[1]
    OBVIOUS
  <2>1. 1 \in 1 .. Len(v) /\ 1 + k = 1 /\ Len(w) > 0
    BY <1>2
  <2> QED BY <1>2, <2>1
<1>9. BuildersExplained'
  <2> SUFFICES ASSUME NEW id \in DOMAIN packets PROVE Explained(id)'
    BY <1>1 DEF BuildersExplained
  <2>1. CASE packets[id].from \cap abandoned # {}
    BY <1>1, <2>1 DEF Explained
  <2>2. ASSUME NEW u \in 1 .. Len(sent), packets[id].from = {u},
               packets[id].orig = Len(WholeOf(C, sent[u].payload)),
               Complete(packets[id], u) \/ AwaitsSecond(packets[id], id, u)
        PROVE  Explained(id)'
    <3>1. CASE Complete(packets[id], u)
      BY <1>1, <2>2, <3>1 DEF Explained, Complete
    <3>2. CASE AwaitsSecond(packets[id], id, u)
      <4>1. Len(w) > 0 /\ w[1].uid = u
        BY <3>2, PartFields DEF AwaitsSecond, w
      <4>2. CASE k = 0
        <5>1. Len(v) > 0 /\ v[1] = w[1]
          BY <1>2, <1>8, <4>1, <4>2
        <5> QED BY <1>1, <2>2, <3>2, <5>1 DEF Explained, AwaitsSecond, v, w
      <4>3. CASE k > 0
        <5>1. 1 \in 1 .. k
          BY <1>2, <4>3
        <5>2. u \in abandoned'
          BY <1>1, <4>1, <5>1
        <5> QED BY <1>1, <2>2, <5>2 DEF Explained
      <4> QED BY <1>2, <4>2, <4>3
    <3> QED BY <2>2, <3>1, <3>2
  <2> QED BY <2>1, <2>2 DEF BuildersInv, BuildersExplained, Explained
<1>10. SecondFindsFirst'
  <2> SUFFICES ASSUME Len(v) > 0, v[1].offset = Split
               PROVE  \/ v[1].uid \in abandoned'
                      \/ /\ v[1].id \in DOMAIN packets
                         /\ v[1].uid \in packets[v[1].id].from
    BY <1>1 DEF SecondFindsFirst, v
  <2>1. CASE k = 0
    BY <1>1, <1>8, <2>1 DEF BuildersInv, SecondFindsFirst, w
  <2>2. CASE k > 0
    <3>1. 1 \in 1 .. Len(v) /\ k \in 1 .. k /\ 1 + k > 1 /\ 1 + k - 1 = k
      BY <1>2, <2>2
    <3>2. v[1] = w[1 + k] /\ 1 + k \in 1 .. Len(w)
      BY <1>2, <3>1
    <3>3. Follows(w[k], w[1 + k])
      BY <1>3, <3>1, <3>2
    <3> QED BY <1>1, <3>1, <3>2, <3>3 DEF Follows
  <2> QED BY <1>2, <2>1, <2>2
<1>11. UnfinishedAreLong' /\ WholeMeansLed' /\ DeliveredWereSent'
  BY <1>1 DEF BuildersInv, UnfinishedAreLong, WholeMeansLed, DeliveredWereSent
<1>12. SecondLeads'
  BY <1>1 DEF SecondLeads
<1>13. \A d : Intact(d)' <=> Intact(d)
  BY <1>1 DEF Intact
<1>14. MixedOnlyAfterLoss' /\ SecondPartLedItsBatch'
  BY <1>1, <1>13 DEF MixedOnlyAfterLoss, SecondPartLedItsBatch
<1> QED BY <1>4, <1>7, <1>9, <1>10, <1>11, <1>12, <1>14 DEF BuildersInv

----------------------------------------------------------------------------
(* A record is built in *)

\* A part of a packet that was sent passes the test of build_packet.
LEMMA PartHasData ==
  ASSUME LoopTypeOK, SentByClient, NEW x \in Part, IsPart(x)
  PROVE  HasBuilderData(x)
<1>1. C \in Conns /\ sent[x.uid].payload \in Payloads
  BY TunnelType DEF IsPart, SentByClient, LoopTypeOK
<1>2. \/ x = FirstPart(C, x.id, x.uid, sent[x.uid].payload)
      \/ /\ InTwo(sent[x.uid].payload)
         /\ x = SecondPart(x.id, x.uid, sent[x.uid].payload)
  BY DEF IsPart
<1> QED BY <1>1, <1>2, RecordHasData

\* What build_packet does with the next record: it begins a builder, or adds to
\* one that is not full.
LEMMA BuildResult ==
  ASSUME LoopTypeOK, OneFull, StreamInv, BuildObject
  PROVE  LET x   == wire[C][1]
             old == packets[x.id]
             new == packets'[x.id]
         IN  /\ x \in Part /\ IsPart(x)
             /\ DOMAIN packets' = DOMAIN packets \cup {x.id}
             /\ \A id \in DOMAIN packets :
                  packets[id] \in Builder /\ ~packets[id].full
             /\ \A id \in DOMAIN packets \ {x.id} : packets'[id] = packets[id]
             /\ x.id \in DOMAIN packets =>
                  /\ new = AddData(old, x)
                  /\ Len(new.data) = Len(old.data) + Len(x.data)
                  /\ new.full <=> Len(old.data) + Len(x.data) = old.orig
                  /\ new.orig = old.orig
                  /\ new.from = old.from \cup {x.uid}
             /\ x.id \notin DOMAIN packets =>
                  /\ new.data = x.data /\ new.orig = x.orig
                  /\ new.full <=> Len(x.data) = x.orig
                  /\ new.from = {x.uid}
<1> DEFINE x   == wire[C][1]
           old == packets[x.id]
           new == packets'[x.id]
<1>1. /\ x \in Part /\ packets' = BuildPacket(x) /\ pc[C] = "decode"
      /\ 1 \in 1 .. Len(wire[C])
  BY HeadOfStream
<1>2. IsPart(x) /\ SentByClient
  BY <1>1 DEF StreamInv, PartsInFlight
<1>3. HasBuilderData(x)
  BY <1>1, <1>2, PartHasData
<1> HIDE DEF x
<1>4. TypeOK
  BY DEF LoopTypeOK
<1>5. \A id \in DOMAIN packets : packets[id] \in Builder /\ ~packets[id].full
  BY <1>1, <1>4 DEF OneFull, FullIds, TypeOK
<1>6. /\ DOMAIN packets' = DOMAIN packets \cup {x.id}
      /\ \A id \in DOMAIN packets \ {x.id} : packets'[id] = packets[id]
      /\ x.id \in DOMAIN packets => new = AddData(old, x)
      /\ x.id \notin DOMAIN packets =>
           /\ new.data = x.data /\ new.orig = x.orig
           /\ new.full <=> Len(x.data) = x.orig
           /\ new.from = {x.uid}
  BY <1>1, <1>3, <1>4, BuildsIn
<1>7. ASSUME x.id \in DOMAIN packets
      PROVE  /\ new = AddData(old, x)
             /\ Len(new.data) = Len(old.data) + Len(x.data)
             /\ new.full <=> Len(old.data) + Len(x.data) = old.orig
             /\ new.orig = old.orig
             /\ new.from = old.from \cup {x.uid}
  <2>1. new = AddData(old, x)
    BY <1>6, <1>7
  <2>2. old \in Builder /\ ~old.full
    BY <1>5, <1>7
  <2> HIDE DEF old, new
  <2> QED BY <1>1, <2>1, <2>2, AddDataLength
<1> QED BY <1>1, <1>2, <1>5, <1>6, <1>7 DEF x

\* The record that is built in is older than those behind it.
LEMMA BuildKeepsOlder ==
  ASSUME LoopTypeOK, OneFull, StreamInv, BuildersAreOlder, BuildObject
  PROVE  BuildersAreOlder'
<1> DEFINE x == wire[C][1]
           w == wire[C]
           v == wire'[C]
<1>1. /\ 1 \in 1 .. Len(w) /\ sent' = sent /\ Len(v) = Len(w) - 1
      /\ \A i \in 1 .. Len(v) : i + 1 \in 1 .. Len(w) /\ v[i] = w[i + 1]
      /\ Len(w) \in Nat
  BY HeadOfStream, TunnelType DEF LoopTypeOK
<1>2. /\ IsPart(x) /\ DOMAIN packets' = DOMAIN packets \cup {x.id}
      /\ \A id \in DOMAIN packets \ {x.id} : packets'[id] = packets[id]
      /\ packets'[x.id].from = IF x.id \in DOMAIN packets
                               THEN packets[x.id].from \cup {x.uid} ELSE {x.uid}
  BY BuildResult
<1>3. x.uid \in 1 .. Len(sent)
  BY <1>2 DEF IsPart
<1>4. ASSUME NEW i \in 1 .. Len(v), v[i].offset = 0 PROVE x.uid < v[i].uid
  <2>1. i + 1 \in 1 .. Len(w) /\ v[i] = w[i + 1] /\ 1 < i + 1
    BY <1>1
  <2> QED BY <1>1, <1>4, <2>1 DEF StreamInv, Ordered
<1>5. ASSUME NEW id \in DOMAIN packets
      PROVE  /\ packets[id].from # {} /\ packets[id].from \subseteq 1 .. Len(sent)
             /\ \A u \in packets[id].from : \A i \in 1 .. Len(v) :
                  v[i].offset = 0 => u < v[i].uid
  <2>1. \A u \in packets[id].from : \A i \in 1 .. Len(w) :
          w[i].offset = 0 => u < w[i].uid
    BY DEF BuildersAreOlder
  <2>2. packets[id].from # {} /\ packets[id].from \subseteq 1 .. Len(sent)
    BY DEF BuildersAreOlder
  <2> HIDE DEF v, w, x
  <2> QED BY <1>1, <2>1, <2>2
<1> HIDE DEF x, w
<1> SUFFICES ASSUME NEW id \in DOMAIN packets'
             PROVE  /\ packets'[id].from # {}
                    /\ packets'[id].from \subseteq 1 .. Len(sent)
                    /\ \A u \in packets'[id].from : \A i \in 1 .. Len(v) :
                         v[i].offset = 0 => u < v[i].uid
  BY <1>1 DEF BuildersAreOlder
<1> HIDE DEF v
<1>6. CASE id # x.id
  BY <1>2, <1>5, <1>6
<1>7. CASE id = x.id
  <2>1. CASE x.id \in DOMAIN packets
    <3>1. packets'[id].from = packets[id].from \cup {x.uid}
      BY <1>2, <1>7, <2>1
    <3>2. \A u \in packets'[id].from : u \in packets[id].from \/ u = x.uid
      BY <3>1
    <3> QED BY <1>3, <1>4, <1>5, <1>7, <2>1, <3>1, <3>2
  <2>2. CASE x.id \notin DOMAIN packets
    <3>1. packets'[id].from = {x.uid}
      BY <1>2, <1>7, <2>2
    <3> QED BY <1>3, <1>4, <3>1
  <2> QED BY <2>1, <2>2
<1> QED BY <1>6, <1>7

\* A second part at the new head of the stream follows the record that was
\* built in.
LEMMA BuildKeepsFirst ==
  ASSUME LoopTypeOK, OneFull, StreamInv, BuildObject
  PROVE  /\ Len(wire'[C]) > 0 /\ wire'[C][1].offset = Split =>
              Follows(wire[C][1], wire'[C][1])
         /\ SecondFindsFirst'
<1> DEFINE x == wire[C][1]
           w == wire[C]
           v == wire'[C]
<1>1. /\ Len(v) = Len(w) - 1 /\ Len(w) \in Nat
      /\ \A i \in 1 .. Len(v) : i + 1 \in 1 .. Len(w) /\ v[i] = w[i + 1]
  BY HeadOfStream, TunnelType DEF LoopTypeOK
<1>2. ASSUME Len(v) > 0, v[1].offset = Split PROVE Follows(x, v[1])
  <2>1. 1 \in 1 .. Len(v) /\ 2 > 1 /\ 2 - 1 = 1 /\ 1 + 1 = 2
    BY <1>1, <1>2
  <2>2. 2 \in 1 .. Len(w) /\ v[1] = w[2]
    BY <1>1, <2>1
  <2>3. Follows(w[2 - 1], w[2])
    BY <1>2, <2>1, <2>2 DEF StreamInv, Paired
  <2> QED BY <2>1, <2>2, <2>3
<1>3. x.id \in DOMAIN packets' /\ x.uid \in packets'[x.id].from
  BY BuildResult
<1> HIDE DEF x
<1>4. SecondFindsFirst'
  <2> SUFFICES ASSUME Len(v) > 0, v[1].offset = Split
               PROVE  v[1].id \in DOMAIN packets' /\ v[1].uid \in packets'[v[1].id].from
    BY DEF SecondFindsFirst
  <2>1. x.uid = v[1].uid /\ x.id = v[1].id
    BY <1>2 DEF Follows
  <2> HIDE DEF v
  <2> QED BY <1>3, <2>1
<1> QED BY <1>2, <1>4 DEF x

\* What explains a builder after the step.
LEMMA ExplainedNext ==
  ASSUME NEW id, NEW u \in 1 .. Len(sent), sent' = sent,
         packets'[id].from = {u},
         packets'[id].orig = Len(WholeOf(C, sent[u].payload)),
         \/ /\ packets'[id].full
            /\ packets'[id].data = WholeOf(C, sent[u].payload)
         \/ /\ ~packets'[id].full
            /\ InTwo(sent[u].payload)
            /\ packets'[id].data = FirstOf(C, sent[u].payload)
            /\ Len(wire'[C]) > 0
            /\ wire'[C][1] = SecondPart(id, u, sent[u].payload)
  PROVE  Explained(id)'
<1>1. u \in 1 .. Len(sent')
  OBVIOUS
<1>2. \/ Complete(packets[id], u)'
      \/ AwaitsSecond(packets[id], id, u)'
  BY DEF Complete, AwaitsSecond
<1> QED BY <1>1, <1>2 DEF Explained

\* The builder of a first part that is not lost: complete if it is the only
\* part, else the second part is the next record.
LEMMA BuildFirst ==
  ASSUME LoopTypeOK, OneFull, StreamInv, BuildersInv, BuildObject,
         NEW u, NEW id, u = wire[C][1].uid, id = wire[C][1].id,
         u \notin abandoned, id \notin DOMAIN packets
  PROVE  Explained(id)'
<1> DEFINE x   == wire[C][1]
           p   == sent[u].payload
           new == packets'[id]
           w   == wire[C]
           v   == wire'[C]
<1>1. /\ 1 \in 1 .. Len(w) /\ sent' = sent /\ Len(v) = Len(w) - 1
      /\ \A i \in 1 .. Len(v) : i + 1 \in 1 .. Len(w) /\ v[i] = w[i + 1]
      /\ Len(w) \in Nat /\ Len(v) \in Int
  BY HeadOfStream, TunnelType DEF LoopTypeOK
<1>2. /\ IsPart(x) /\ new.data = x.data /\ new.orig = x.orig
      /\ new.full <=> Len(x.data) = x.orig
      /\ new.from = {u}
  BY BuildResult
<1>3. u \in 1 .. Len(sent) /\ C \in Conns /\ p \in Payloads
  BY <1>2, SentShape DEF IsPart, StreamInv
<1>4. x.offset # Split
  BY <1>1 DEF BuildersInv, SecondFindsFirst
<1>5. x = FirstPart(C, id, u, p)
  <2>1. InTwo(p) => x # SecondPart(id, u, p)
    BY <1>4, PartFields
  <2> QED BY <1>2, <2>1 DEF IsPart
<1>6. /\ x.offset = 0 /\ x.data = FirstOf(C, p) /\ x.orig = Len(WholeOf(C, p))
  <2> HIDE DEF p
  <2> QED BY <1>5 DEF FirstPart
<1>7. CASE ~InTwo(p)
  <2>1. FirstOf(C, p) = WholeOf(C, p)
    BY <1>3, <1>7, DataShape
  <2>2. new.full /\ new.data = WholeOf(C, p)
    BY <1>2, <1>6, <2>1
  <2> QED BY <1>1, <1>2, <1>3, <1>6, <2>2, ExplainedNext
<1>8. CASE InTwo(p)
  <2>1. 1 < Len(w) /\ Follows(w[1], w[1 + 1])
    BY <1>1, <1>6, <1>8 DEF StreamInv, Paired
  <2>2. 1 \in 1 .. Len(v) /\ 1 + 1 \in 1 .. Len(w) /\ v[1] = w[1 + 1]
    BY <1>1, <2>1
  <2>3. v[1].offset = Split /\ v[1].uid = u /\ v[1].id = id /\ IsPart(v[1])
    BY <2>1, <2>2 DEF Follows, StreamInv, PartsInFlight
  <2>4. v[1] = SecondPart(id, u, p)
    <3> HIDE DEF v, x
    <3>1. v[1] # FirstPart(C, v[1].id, v[1].uid, sent[v[1].uid].payload)
      BY <2>3, PartFields
    <3> QED BY <2>3, <3>1 DEF IsPart
  <2>5. ~new.full
    <3> DEFINE z == Len(Proxy[C])
               m == Len(FirstOf(C, p))
               n == Len(WholeOf(C, p))
    <3>1. m = Split + z /\ n = 2 * Split + z /\ z \in Nat
      BY <1>3, <1>8, DataShape
    <3> HIDE DEF z, m, n
    <3>2. m # n
      BY <3>1, SizesType
    <3> QED BY <1>2, <1>6, <3>2 DEF m, n
  <2>6. Len(v) > 0
    BY <1>1, <2>2
  <2> QED BY <1>1, <1>2, <1>3, <1>6, <1>8, <2>4, <2>5, <2>6, ExplainedNext
<1> QED BY <1>7, <1>8

\* The second part completes the builder that waits for it.
LEMMA BuildSecond ==
  ASSUME LoopTypeOK, OneFull, StreamInv, BuildersInv, BuildObject,
         NEW id \in DOMAIN packets, NEW u \in 1 .. Len(sent),
         packets[id].from = {u},
         packets[id].orig = Len(WholeOf(C, sent[u].payload)),
         AwaitsSecond(packets[id], id, u)
  PROVE  Explained(id)'
<1> DEFINE x   == wire[C][1]
           p   == sent[u].payload
           old == packets[id]
           new == packets'[id]
<1>1. C \in Conns /\ p \in Payloads /\ sent' = sent
  BY SentShape, HeadOfStream DEF StreamInv
<1>2. /\ x = SecondPart(id, u, p) /\ InTwo(p) /\ old.data = FirstOf(C, p)
      /\ old.orig = Len(WholeOf(C, p)) /\ old.from = {u}
  BY DEF AwaitsSecond
<1>3. x.id = id /\ x.uid = u /\ x.offset = Split /\ x.data = RestOf(p)
  BY <1>2 DEF SecondPart
<1>4. /\ x \in Part /\ old \in Builder /\ new = AddData(old, x)
      /\ new.orig = old.orig /\ new.from = old.from \cup {u}
  BY <1>3, BuildResult
<1>5. new.full /\ new.data = WholeOf(C, p)
  <2> HIDE DEF x, p, old, new
  <2> QED BY <1>1, <1>2, <1>3, <1>4, AddSecond
<1> QED BY <1>1, <1>2, <1>4, <1>5, ExplainedNext

\* Building in a record leaves every builder explained.
LEMMA BuildKeepsExplained ==
  ASSUME LoopTypeOK, OneFull, StreamInv, BuildersInv, BuildObject
  PROVE  BuildersExplained'
<1> SUFFICES ASSUME NEW id \in DOMAIN packets' PROVE Explained(id)'
  BY DEF BuildersExplained
<1>1. abandoned' = abandoned
  BY HeadOfStream
<1>2. ASSUME packets'[id].from \cap abandoned # {} PROVE Explained(id)'
  BY <1>1, <1>2 DEF Explained
<1>3. ASSUME id \in DOMAIN packets
      PROVE  \/ packets[id].from \cap abandoned # {}
             \/ \E u \in 1 .. Len(sent) :
                  /\ packets[id].from = {u}
                  /\ packets[id].orig = Len(WholeOf(C, sent[u].payload))
                  /\ AwaitsSecond(packets[id], id, u)
  <2>1. ~packets[id].full
    BY <1>3, BuildResult
  <2> QED BY <1>3, <2>1 DEF BuildersInv, BuildersExplained, Explained, Complete
<1>4. CASE id # wire[C][1].id
  <2>1. id \in DOMAIN packets /\ packets'[id] = packets[id]
    BY <1>4, BuildResult
  <2>2. \A u \in 1 .. Len(sent) : ~AwaitsSecond(packets[id], id, u)
    BY <1>4, PartFields DEF AwaitsSecond
  <2> QED BY <1>2, <1>3, <2>1, <2>2
<1>5. CASE id = wire[C][1].id /\ id \in DOMAIN packets
  <2>1. packets'[id].from = packets[id].from \cup {wire[C][1].uid}
    BY <1>5, BuildResult
  <2> QED BY <1>2, <1>3, <1>5, <2>1, BuildSecond
<1>6. CASE id = wire[C][1].id /\ id \notin DOMAIN packets
  <2>1. packets'[id].from = {wire[C][1].uid}
    BY <1>6, BuildResult
  <2> QED BY <1>2, <1>6, <2>1, BuildFirst
<1> QED BY <1>4, <1>5, <1>6

\* A builder that is not full after the step is as long as before, or longer;
\* one that is begun and not full holds a part of a packet in two.
LEMMA BuildKeepsLong ==
  ASSUME LoopTypeOK, OneFull, StreamInv, BuildersInv, BuildObject
  PROVE  UnfinishedAreLong'
<1> SUFFICES ASSUME NEW id \in DOMAIN packets', ~packets'[id].full
             PROVE  \/ /\ packets'[id].orig = 2 * Split
                       /\ Len(packets'[id].data) >= Split
                    \/ /\ packets'[id].orig = 2 * Split + Len(Proxy[C])
                       /\ Len(packets'[id].data) >= Split + Len(Proxy[C])
  BY DEF UnfinishedAreLong
<1> DEFINE x == wire[C][1]
           p == sent[x.uid].payload
           z == Len(Proxy[C])
<1>1. /\ x \in Part /\ IsPart(x) /\ x.uid \in 1 .. Len(sent)
  BY BuildResult DEF IsPart
<1>2. C \in Conns /\ p \in Payloads
  BY <1>1, SentShape DEF StreamInv
<1>3. ASSUME id \in DOMAIN packets
      PROVE  /\ \/ packets[id].orig = 2 * Split /\ Len(packets[id].data) >= Split
                \/ packets[id].orig = 2 * Split + z /\ Len(packets[id].data) >= Split + z
             /\ Len(packets[id].data) \in Nat /\ z \in Nat
  <2>1. packets[id] \in Builder /\ ~packets[id].full
    BY <1>3, BuildResult
  <2>2. Len(packets[id].data) \in Nat
    BY <2>1 DEF Builder
  <2>3. z \in Nat
    BY <1>2, DataShape
  <2> QED BY <1>3, <2>1, <2>2, <2>3 DEF BuildersInv, UnfinishedAreLong
<1>4. CASE id # x.id
  <2>1. id \in DOMAIN packets /\ packets'[id] = packets[id]
    BY <1>4, BuildResult
  <2> QED BY <1>3, <2>1
<1>5. CASE id = x.id /\ id \in DOMAIN packets
  <2> DEFINE old == packets[id]
             new == packets'[id]
             m == Len(old.data)
             n == Len(new.data)
             k == Len(x.data)
  <2>1. new.orig = old.orig /\ n = m + k
    BY <1>5, BuildResult
  <2>2. k \in Nat
    BY <1>1 DEF Part
  <2>3. \/ old.orig = 2 * Split /\ m >= Split
        \/ old.orig = 2 * Split + z /\ m >= Split + z
    BY <1>3, <1>5
  <2>4. m \in Nat /\ z \in Nat
    BY <1>3, <1>5
  <2> HIDE DEF m, n, k, z, new, old
  <2>5. m >= Split => n >= Split
    BY <2>1, <2>2, <2>4, SizesType
  <2>6. m >= Split + z => n >= Split + z
    BY <2>1, <2>2, <2>4, SizesType
  <2>7. \/ new.orig = 2 * Split /\ n >= Split
        \/ new.orig = 2 * Split + z /\ n >= Split + z
    BY <2>1, <2>3, <2>5, <2>6
  <2> QED BY <2>7 DEF n, new, z
<1>6. CASE id = x.id /\ id \notin DOMAIN packets
  <2>1. /\ packets'[id].data = x.data /\ packets'[id].orig = x.orig
        /\ Len(x.data) # x.orig
    BY <1>6, BuildResult
  <2>2. CASE x = FirstPart(C, x.id, x.uid, p)
    <3> HIDE DEF p
    <3>1. x.data = FirstOf(C, p) /\ x.orig = Len(WholeOf(C, p))
      BY <2>2 DEF FirstPart
    <3>2. InTwo(p)
      BY <1>2, <2>1, <3>1, DataShape
    <3>3. Len(FirstOf(C, p)) = Split + z /\ Len(WholeOf(C, p)) = 2 * Split + z /\ z \in Nat
      BY <1>2, <3>2, DataShape
    <3>4. Split + z >= Split + z
      BY <3>3, SizesType
    <3> QED BY <2>1, <3>1, <3>3, <3>4
  <2>3. CASE InTwo(p) /\ x = SecondPart(x.id, x.uid, p)
    <3> HIDE DEF p
    <3>1. x.data = RestOf(p) /\ x.orig = 2 * Split
      BY <2>3 DEF SecondPart
    <3>2. Len(RestOf(p)) = Split
      BY <1>2, <2>3, DataShape
    <3>3. Split >= Split
      BY SizesType
    <3> QED BY <2>1, <3>1, <3>2, <3>3
  <2> QED BY <1>1, <2>2, <2>3 DEF IsPart
<1> QED BY <1>4, <1>5, <1>6

\* The first part of a packet in two fills no builder, so that the iteration
\* returns before the second part.
LEMMA BuildKeepsLeads ==
  ASSUME LoopTypeOK, OneFull, StreamInv, BuildersInv, BuildObject
  PROVE  SecondLeads'
<1> DEFINE x == wire[C][1]
           w == wire[C]
           v == wire'[C]
           p == sent[x.uid].payload
           z == Len(Proxy[C])
<1>1. pc'[C] = "query" /\ rpc' = "object"
  BY HeadOfStream
<1>2. /\ Len(v) = Len(w) - 1 /\ Len(w) \in Nat
      /\ \A i \in 1 .. Len(v) : i + 1 \in 1 .. Len(w) /\ v[i] = w[i + 1]
  BY HeadOfStream, TunnelType DEF LoopTypeOK
<1>3. IsPart(x) /\ x.uid \in 1 .. Len(sent)
  BY BuildResult DEF IsPart
<1> SUFFICES ASSUME Len(v) > 0, v[1].offset = Split PROVE FullIds' = {}
  BY <1>1 DEF SecondLeads
<1>4. Follows(x, v[1])
  BY BuildKeepsFirst
<1>5. C \in Conns /\ p \in Payloads
  BY <1>3, SentShape DEF StreamInv
<1>6. InTwo(p)
  <2>1. 1 \in 1 .. Len(v)
    BY <1>2
  <2>2. IsPart(v[1])
    BY <1>2, <2>1 DEF StreamInv, PartsInFlight
  <2>3. v[1].uid = x.uid
    BY <1>4 DEF Follows
  <2> HIDE DEF v, x
  <2>4. v[1] # FirstPart(C, v[1].id, v[1].uid, sent[v[1].uid].payload)
    BY PartFields
  <2> QED BY <2>2, <2>3, <2>4 DEF IsPart
<1>7. x.data = FirstOf(C, p) /\ x.orig = Len(WholeOf(C, p))
  <2>1. x.offset = 0
    BY <1>4 DEF Follows
  <2> HIDE DEF x
  <2>2. x # SecondPart(x.id, x.uid, p)
    BY <2>1, PartFields
  <2>3. x = FirstPart(C, x.id, x.uid, p)
    BY <1>3, <2>2 DEF IsPart
  <2> HIDE DEF p
  <2> QED BY <2>3 DEF FirstPart
<1>8. Len(x.data) = Split + z /\ x.orig = 2 * Split + z /\ z \in Nat /\ z > 0
  BY <1>5, <1>6, <1>7, DataShape
<1>9. ~packets'[x.id].full
  <2>1. CASE x.id \notin DOMAIN packets
    <3>1. packets'[x.id].full <=> Len(x.data) = x.orig
      BY <2>1, BuildResult
    <3> HIDE DEF z
    <3>2. Split + z # 2 * Split + z
      BY <1>8, SizesType
    <3> QED BY <1>8, <3>1, <3>2
  <2>2. CASE x.id \in DOMAIN packets
    <3> DEFINE old == packets[x.id]
               m == Len(old.data)
    <3>1. packets'[x.id].full <=> m + Len(x.data) = old.orig
      BY <2>2, BuildResult
    <3>2. old \in Builder /\ ~old.full
      BY <2>2, BuildResult
    <3>3. \/ old.orig = 2 * Split /\ m >= Split
          \/ old.orig = 2 * Split + z /\ m >= Split + z
      BY <2>2, <3>2 DEF BuildersInv, UnfinishedAreLong
    <3>4. m \in Nat
      BY <3>2 DEF Builder
    <3> HIDE DEF m, z, old
    <3>5. m >= Split => m + (Split + z) # 2 * Split
      BY <1>8, <3>4, SizesType
    <3>6. m >= Split + z => m + (Split + z) # 2 * Split + z
      BY <1>8, <3>4, SizesType
    <3> QED BY <1>8, <3>1, <3>3, <3>5, <3>6
  <2> QED BY <2>1, <2>2
<1>10. \A id \in DOMAIN packets' : ~packets'[id].full
  BY <1>9, BuildResult
<1> QED BY <1>10 DEF FullIds

\* All the bytes of a packet in two come together only with a second part that
\* led its batch.
LEMMA BuildKeepsLed ==
  ASSUME LoopTypeOK, OneFull, StreamInv, BuildersInv, SecondLeads, BuildObject
  PROVE  WholeMeansLed'
<1> DEFINE x == wire[C][1]
<1>1. /\ sent' = sent /\ heads' = heads /\ rpc = "object" /\ pc[C] = "decode"
      /\ 1 \in 1 .. Len(wire[C]) /\ Len(wire[C]) \in Nat
  BY HeadOfStream, TunnelType DEF LoopTypeOK
<1> SUFFICES ASSUME NEW id \in DOMAIN packets', NEW u \in 1 .. Len(sent),
                    packets'[id].from = {u}, InTwo(sent[u].payload)
             PROVE  \/ Len(packets'[id].data) < Len(WholeOf(C, sent[u].payload))
                    \/ [uid |-> u, offset |-> Split] \in heads
  BY <1>1 DEF WholeMeansLed
<1> DEFINE p == sent[u].payload
           z == Len(Proxy[C])
<1>2. C \in Conns /\ p \in Payloads
  BY SentShape DEF StreamInv
<1>3. /\ Len(FirstOf(C, p)) = Split + z /\ Len(WholeOf(C, p)) = 2 * Split + z
      /\ Len(RestOf(p)) = Split /\ z \in Nat
  BY <1>2, DataShape
<1>4. CASE id # x.id
  <2>1. id \in DOMAIN packets /\ packets'[id] = packets[id]
    BY <1>4, BuildResult
  <2> QED BY <2>1 DEF BuildersInv, WholeMeansLed
<1>5. CASE id = x.id /\ id \in DOMAIN packets
  <2>1. packets'[id].from = packets[id].from \cup {x.uid}
    BY <1>5, BuildResult
  <2>2. packets[id].from # {}
    BY <1>5 DEF BuildersInv, BuildersAreOlder
  <2>3. x.uid = u /\ u \in packets[id].from
    BY <2>1, <2>2
  <2>4. x.offset # 0
    <3> SUFFICES ASSUME x.offset = 0 PROVE FALSE
      OBVIOUS
    <3>1. u < x.uid
      BY <1>1, <1>5, <2>3 DEF BuildersInv, BuildersAreOlder
    <3> QED BY <2>3, <3>1
  <2>5. x.offset = Split
    <3>1. IsPart(x)
      BY BuildResult
    <3> HIDE DEF x
    <3> QED BY <2>4, <3>1, PartFields DEF IsPart
  <2>6. [uid |-> x.uid, offset |-> Split] \in heads
    BY <1>1, <2>5 DEF SecondLeads
  <2> QED BY <2>3, <2>6
<1>6. CASE id = x.id /\ id \notin DOMAIN packets
  <2>1. packets'[id].from = {x.uid} /\ packets'[id].data = x.data /\ IsPart(x)
    BY <1>6, BuildResult
  <2>2. x.uid = u
    BY <2>1
  <2> HIDE DEF x, p
  <2>3. x = FirstPart(C, x.id, u, p) \/ x = SecondPart(x.id, u, p)
    BY <2>1, <2>2 DEF IsPart, p
  <2>4. x.data = FirstOf(C, p) \/ x.data = RestOf(p)
    BY <2>3 DEF FirstPart, SecondPart
  <2>5. Split + z < 2 * Split + z /\ Split < 2 * Split + z
    <3> HIDE DEF z
    <3> QED BY <1>3, SizesType
  <2>6. Len(packets'[id].data) < Len(WholeOf(C, p))
    BY <1>3, <2>1, <2>4, <2>5
  <2> QED BY <2>6 DEF p
<1> QED BY <1>4, <1>5, <1>6

\* Building in the next record keeps the invariant.
LEMMA BuildKeeps ==
  ASSUME LoopTypeOK, OneFull, StreamInv, BuildersInv, SecondLeads,
         DeliveredWereSent, MixedOnlyAfterLoss, SecondPartLedItsBatch,
         BuildObject
  PROVE  /\ StreamInv' /\ BuildersInv' /\ SecondLeads' /\ DeliveredWereSent'
         /\ MixedOnlyAfterLoss' /\ SecondPartLedItsBatch'
<1>1. /\ Len(wire[C]) \in Nat /\ Len(wire'[C]) = Len(wire[C]) - 1
      /\ \A i \in 1 .. Len(wire'[C]) :
           i + 1 \in 1 .. Len(wire[C]) /\ wire'[C][i] = wire[C][i + 1]
      /\ UNCHANGED <<sent, abandoned, delivered, heads>>
  BY HeadOfStream, TunnelType DEF LoopTypeOK
<1>2. StreamInv'
  BY <1>1, SuffixKeepsStream
<1>3. BuildersInv'
  BY BuildKeepsOlder, BuildKeepsExplained, BuildKeepsFirst, BuildKeepsLong,
     BuildKeepsLed DEF BuildersInv
<1>4. \A d : Intact(d)' <=> Intact(d)
  BY <1>1 DEF Intact
<1>5. DeliveredWereSent' /\ MixedOnlyAfterLoss' /\ SecondPartLedItsBatch'
  BY <1>1, <1>4 DEF DeliveredWereSent, MixedOnlyAfterLoss, SecondPartLedItsBatch
<1> QED BY <1>2, <1>3, <1>5, BuildKeepsLeads

----------------------------------------------------------------------------
(* A packet comes out *)

\* What the pop does.
LEMMA PopResult ==
  ASSUME LoopTypeOK, CacheNamesFull, SecondLeads, PopObject
  PROVE  /\ cache \in DOMAIN packets /\ packets[cache].full
         /\ delivered' = delivered \cup {[conn |-> C, from |-> packets[cache].from,
                                          data |-> packets[cache].data]}
         /\ DOMAIN packets' = DOMAIN packets \ {cache}
         /\ \A id \in DOMAIN packets' : packets'[id] = packets[id]
         /\ UNCHANGED <<wire, sent, abandoned, heads>>
         /\ ~(Len(wire[C]) > 0 /\ wire[C][1].offset = Split)
<1>1. GetAndPopPacket(C) /\ rpc = "object" /\ heads' = heads
  BY DEF PopObject
<1>2. cache # NoId /\ pc[C] = "pop"
  BY <1>1 DEF GetAndPopPacket
<1>3. cache \in DOMAIN packets /\ packets[cache].full
  BY <1>2 DEF CacheNamesFull
<1>4. packets' = [id \in DOMAIN packets \ {cache} |-> packets[id]]
  BY <1>1 DEF GetAndPopPacket
<1>5. ~(Len(wire[C]) > 0 /\ wire[C][1].offset = Split)
  BY <1>1, <1>2 DEF SecondLeads
<1>6. /\ delivered' = delivered \cup {[conn |-> C, from |-> packets[cache].from,
                                       data |-> packets[cache].data]}
      /\ UNCHANGED <<wire, sent, abandoned>>
  BY <1>1 DEF GetAndPopPacket
<1> QED BY <1>1, <1>3, <1>4, <1>5, <1>6

\* The builders that are left are as they were.
LEMMA PopKeepsBuilders ==
  ASSUME LoopTypeOK, CacheNamesFull, StreamInv, BuildersInv, SecondLeads,
         PopObject
  PROVE  StreamInv' /\ BuildersInv' /\ SecondLeads'
<1>1. /\ \A id \in DOMAIN packets' : id \in DOMAIN packets /\ packets'[id] = packets[id]
      /\ UNCHANGED <<wire, sent, abandoned, heads>>
      /\ ~(Len(wire[C]) > 0 /\ wire[C][1].offset = Split)
  BY PopResult
<1>2. StreamInv'
  BY <1>1 DEF StreamInv, SentByClient, PartsInFlight, IsPart, Paired, Ordered
<1>3. BuildersAreOlder' /\ UnfinishedAreLong' /\ WholeMeansLed'
  BY <1>1 DEF BuildersInv, BuildersAreOlder, UnfinishedAreLong, WholeMeansLed
<1>4. SecondFindsFirst' /\ SecondLeads'
  BY <1>1 DEF SecondFindsFirst, SecondLeads
<1>5. BuildersExplained'
  <2> SUFFICES ASSUME NEW id \in DOMAIN packets' PROVE Explained(id)'
    BY DEF BuildersExplained
  <2>1. id \in DOMAIN packets /\ packets'[id] = packets[id]
    BY <1>1
  <2>2. Explained(id)
    BY <2>1 DEF BuildersInv, BuildersExplained
  <2> QED BY <1>1, <2>1, <2>2 DEF Explained, Complete, AwaitsSecond
<1> QED BY <1>2, <1>3, <1>4, <1>5 DEF BuildersInv

\* The packet that comes out was fed by one that lost a part, or is one packet
\* as it was sent; if that came in two parts, the second led its batch.
LEMMA PopDelivers ==
  ASSUME LoopTypeOK, CacheNamesFull, StreamInv, BuildersInv, SecondLeads,
         DeliveredWereSent, MixedOnlyAfterLoss, SecondPartLedItsBatch, PopObject
  PROVE  DeliveredWereSent' /\ MixedOnlyAfterLoss' /\ SecondPartLedItsBatch'
<1> DEFINE b == packets[cache]
           d == [conn |-> C, from |-> b.from, data |-> b.data]
<1>1. /\ cache \in DOMAIN packets /\ b.full /\ delivered' = delivered \cup {d}
      /\ UNCHANGED <<sent, abandoned, heads>>
  BY PopResult
<1>2. \A e : Intact(e)' <=> Intact(e)
  BY <1>1 DEF Intact
<1>3. d.from = b.from /\ d.data = b.data
  OBVIOUS
<1>4. b.from \subseteq 1 .. Len(sent)
  BY <1>1 DEF BuildersInv, BuildersAreOlder
<1>5. Intact(d) \/ d.from \cap abandoned # {}
  <2> SUFFICES ASSUME ~(b.from \cap abandoned # {}) PROVE Intact(d)
    BY <1>3
  <2>1. Explained(cache)
    BY <1>1 DEF BuildersInv, BuildersExplained
  <2>2. PICK u \in 1 .. Len(sent) : b.from = {u} /\ b.data = WholeOf(C, sent[u].payload)
    BY <1>1, <2>1 DEF Explained, Complete, AwaitsSecond
  <2>3. sent[u].conn = C
    BY SentShape DEF StreamInv
  <2> HIDE DEF b
  <2> QED BY <1>3, <2>2, <2>3 DEF Intact, WholeOf
<1>6. ASSUME NEW u \in d.from, Intact(d), Len(sent[u].payload) >= 2 * Split
      PROVE  [uid |-> u, offset |-> Split] \in heads
  <2>1. PICK t \in 1 .. Len(sent) :
          /\ d.from = {t}
          /\ d.data = Proxy[sent[t].conn] \o
                SubSeq(sent[t].payload, 1, CarriedSize(Len(sent[t].payload)))
    BY <1>6 DEF Intact
  <2>2. t = u
    BY <2>1, <1>6
  <2>3. sent[u].conn = C /\ C \in Conns /\ sent[u].payload \in Payloads
    BY <2>1, <2>2, SentShape DEF StreamInv
  <2>4. b.data = WholeOf(C, sent[u].payload) /\ b.from = {u} /\ u \in 1 .. Len(sent)
    BY <1>3, <2>1, <2>2, <2>3 DEF WholeOf
  <2>5. InTwo(sent[u].payload)
    <3>1. Len(sent[u].payload) \in Nat
      BY <2>3, DataAssumption
    <3> QED BY <1>6, <3>1, SizesType DEF InTwo
  <2>6. Len(b.data) \in Nat
    BY <2>3, <2>4, DataShape
  <2> QED BY <1>1, <2>4, <2>5, <2>6 DEF BuildersInv, WholeMeansLed
<1> HIDE DEF d, b
<1>7. DeliveredWereSent'
  BY <1>1, <1>3, <1>4 DEF DeliveredWereSent
<1>8. MixedOnlyAfterLoss'
  BY <1>1, <1>2, <1>5 DEF MixedOnlyAfterLoss
<1>9. SecondPartLedItsBatch'
  BY <1>1, <1>2, <1>6 DEF SecondPartLedItsBatch
<1> QED BY <1>7, <1>8, <1>9

----------------------------------------------------------------------------
(* The other steps *)

\* A step that touches neither the stream nor the builders keeps what is said
\* about them.
LEMMA QuietStep ==
  ASSUME StreamInv, BuildersInv, DeliveredWereSent, MixedOnlyAfterLoss,
         SecondPartLedItsBatch, heads \subseteq heads',
         UNCHANGED <<wire, packets, sent, abandoned, delivered>>
  PROVE  /\ StreamInv' /\ BuildersInv' /\ DeliveredWereSent'
         /\ MixedOnlyAfterLoss' /\ SecondPartLedItsBatch'
<1>1. StreamInv'
  BY DEF StreamInv, SentByClient, PartsInFlight, IsPart, Paired, Ordered
<1>2. BuildersAreOlder' /\ UnfinishedAreLong' /\ WholeMeansLed' /\ SecondFindsFirst'
  BY DEF BuildersInv, BuildersAreOlder, UnfinishedAreLong, WholeMeansLed,
         SecondFindsFirst
<1>3. BuildersExplained'
  BY DEF BuildersInv, BuildersExplained, Explained, Complete, AwaitsSecond
<1>4. \A d : Intact(d)' <=> Intact(d)
  BY DEF Intact
<1>5. DeliveredWereSent' /\ MixedOnlyAfterLoss' /\ SecondPartLedItsBatch'
  BY <1>4 DEF DeliveredWereSent, MixedOnlyAfterLoss, SecondPartLedItsBatch
<1> QED BY <1>1, <1>2, <1>3, <1>5 DEF BuildersInv

\* A batch that is received, and a query that finds nothing full, keep what is
\* said of a second part at the head of the stream.
LEMMA LeadsStep ==
  ASSUME LoopTypeOK, SecondLeads,
         \/ Receive \/ ReceiveCrosses \/ QueryObject \/ SendPacket \/ SendEndsIteration
         \/ UNCHANGED allVars
  PROVE  /\ SecondLeads' /\ heads \subseteq heads'
         /\ UNCHANGED <<wire, packets, sent, abandoned, delivered>>
<1>1. C \in Conns /\ wire[C] \in Seq(Part) /\ pc[C] \in {"decode", "query", "pop"}
  BY TunnelType DEF LoopTypeOK
<1>2. CASE Receive
  <2>1. /\ UNCHANGED <<wire, packets, sent, abandoned, delivered, pc>>
        /\ wire[C] # <<>> /\ rpc = "recv" /\ rpc' = "object"
        /\ heads' = heads \cup {[uid |-> Head(wire[C]).uid,
                                 offset |-> Head(wire[C]).offset]}
    BY <1>2 DEF Receive, vars
  <2>2. Head(wire[C]) = wire[C][1] /\ pc[C] = "decode"
    BY <1>1, <2>1 DEF LoopTypeOK
  <2>3. SecondLeads'
    BY <2>1, <2>2 DEF SecondLeads
  <2> QED BY <2>1, <2>3
<1>3. CASE QueryObject
  <2>1. /\ UNCHANGED <<wire, packets, sent, abandoned, delivered, heads>>
        /\ rpc = "object" /\ pc[C] = "query"
    BY <1>3 DEF QueryObject, HaveFullPackets
  <2>2. CASE FullIds = {}
    <3>1. pc'[C] = "decode" /\ rpc' = "drop"
      BY <1>1, <1>3, <2>2 DEF QueryObject, HaveFullPackets, LoopTypeOK, TypeOK
    <3>2. SecondLeads'
      BY <3>1 DEF SecondLeads
    <3> QED BY <2>1, <3>2
  <2>3. CASE FullIds # {}
    <3>1. ~(Len(wire[C]) > 0 /\ wire[C][1].offset = Split)
      BY <2>1, <2>3 DEF SecondLeads
    <3>2. SecondLeads'
      BY <2>1, <3>1 DEF SecondLeads
    <3> QED BY <2>1, <3>2
  <2> QED BY <2>2, <2>3
<1>4. CASE SendPacket \/ SendEndsIteration \/ ReceiveCrosses
  <2>1. /\ UNCHANGED <<wire, packets, sent, abandoned, delivered, heads>>
        /\ rpc = "send" \/ rpc' = "crossed"
    BY <1>4 DEF SendPacket, SendEndsIteration, ReceiveCrosses, vars
  <2> QED BY <2>1 DEF SecondLeads
<1>5. CASE UNCHANGED allVars
  <2>1. UNCHANGED <<wire, packets, sent, abandoned, delivered, heads, rpc, pc>>
    BY <1>5 DEF allVars, vars, loopVars
  <2> QED BY <2>1 DEF SecondLeads, FullIds
<1> QED BY <1>2, <1>3, <1>4, <1>5

\* With nothing sent there is nothing to explain.
LEMMA LoopInitial == LoopInit => LoopInv
<1> SUFFICES ASSUME LoopInit PROVE LoopInv
  OBVIOUS
<1>1. Init /\ rpc = "recv" /\ batch = 0 /\ heads = {}
  BY DEF LoopInit
<1>2. TypeOK /\ CacheNamesFull
  BY <1>1, InitType
<1>3. /\ wire[C] = <<>> /\ packets = [id \in {} |-> NoId] /\ ~ub /\ sent = <<>>
      /\ delivered = {} /\ pc = [c \in Conns |-> "decode"] /\ C \in Conns
  BY <1>1, OneTunnel DEF Init
<1>4. Len(wire[C]) = 0 /\ Len(sent) = 0 /\ DOMAIN packets = {}
  BY <1>3
<1>5. LoopTypeOK
  BY <1>1, <1>2, <1>3, <1>4 DEF LoopTypeOK
<1>6. CacheIsSet /\ OneFull
  BY <1>3, <1>4 DEF CacheIsSet, OneFull, FullIds
<1>7. StreamInv
  BY <1>4 DEF StreamInv, SentByClient, PartsInFlight, Paired, Ordered
<1>8. BuildersInv /\ SecondLeads
  BY <1>4 DEF BuildersInv, BuildersAreOlder, BuildersExplained,
              SecondFindsFirst, UnfinishedAreLong, WholeMeansLed, SecondLeads
<1>9. DeliveredWereSent /\ MixedOnlyAfterLoss /\ SecondPartLedItsBatch
  BY <1>3 DEF DeliveredWereSent, MixedOnlyAfterLoss, SecondPartLedItsBatch
<1> QED BY <1>2, <1>5, <1>6, <1>7, <1>8, <1>9 DEF LoopInv

\* Every step keeps the invariant, one lemma for each kind of step.
LEMMA LoopStep == LoopInv /\ [LoopNext]_allVars => LoopInv'
<1> SUFFICES ASSUME LoopInv, [LoopNext]_allVars PROVE LoopInv'
  OBVIOUS
<1> USE DEF LoopInv
<1>1. LoopTypeOK' /\ CacheNamesFull' /\ CacheIsSet' /\ OneFull'
  BY LoopTypeStep, FullStep
<1>2. ASSUME NEW payload \in Payloads, ClientSends(payload)
      PROVE  /\ StreamInv' /\ BuildersInv' /\ SecondLeads' /\ DeliveredWereSent'
             /\ MixedOnlyAfterLoss' /\ SecondPartLedItsBatch'
  BY <1>2, SendKeepsStream, SendKeepsBuilders
<1>3. ASSUME NEW k \in 0 .. Len(wire[C]), Dropped(k)
      PROVE  /\ StreamInv' /\ BuildersInv' /\ SecondLeads' /\ DeliveredWereSent'
             /\ MixedOnlyAfterLoss' /\ SecondPartLedItsBatch'
  BY <1>3, DropKeeps
<1>4. ASSUME BuildObject
      PROVE  /\ StreamInv' /\ BuildersInv' /\ SecondLeads' /\ DeliveredWereSent'
             /\ MixedOnlyAfterLoss' /\ SecondPartLedItsBatch'
  BY <1>4, BuildKeeps
<1>5. ASSUME PopObject
      PROVE  /\ StreamInv' /\ BuildersInv' /\ SecondLeads' /\ DeliveredWereSent'
             /\ MixedOnlyAfterLoss' /\ SecondPartLedItsBatch'
  BY <1>5, PopKeepsBuilders, PopDelivers
<1>6. ASSUME \/ Receive \/ ReceiveCrosses \/ QueryObject \/ SendPacket \/ SendEndsIteration
             \/ UNCHANGED allVars
      PROVE  /\ StreamInv' /\ BuildersInv' /\ SecondLeads' /\ DeliveredWereSent'
             /\ MixedOnlyAfterLoss' /\ SecondPartLedItsBatch'
  BY <1>6, LeadsStep, QuietStep
<1>7. /\ StreamInv' /\ BuildersInv' /\ SecondLeads' /\ DeliveredWereSent'
      /\ MixedOnlyAfterLoss' /\ SecondPartLedItsBatch'
  BY <1>2, <1>3, <1>4, <1>5, <1>6, StepKinds
<1> QED BY <1>1, <1>7

\* Between two batches a builder is not full, so it was fed by a packet that
\* lost a part, or waits for the next record.
LEMMA LeftoversExplained == LoopInv => LeftoversLostAPart
<1> SUFFICES ASSUME LoopInv, rpc = "recv", NEW id \in DOMAIN packets
             PROVE  \/ packets[id].from \cap abandoned # {}
                    \/ \E i \in 1 .. Len(wire[C]) :
                         wire[C][i].uid \in packets[id].from
  BY DEF LeftoversLostAPart
<1>1. ~packets[id].full
  BY DEF LoopInv, LoopTypeOK, OneFull, FullIds
<1>2. Explained(id) /\ Len(wire[C]) \in Nat
  BY TunnelType DEF LoopInv, LoopTypeOK, BuildersInv, BuildersExplained
<1>3. ASSUME NEW u \in 1 .. Len(sent), packets[id].from = {u},
             AwaitsSecond(packets[id], id, u)
      PROVE  \E i \in 1 .. Len(wire[C]) : wire[C][i].uid \in packets[id].from
  <2>1. Len(wire[C]) > 0 /\ wire[C][1].uid = u
    BY <1>3, PartFields DEF AwaitsSecond
  <2>2. 1 \in 1 .. Len(wire[C])
    BY <1>2, <2>1
  <2> QED BY <1>3, <2>1, <2>2
<1> QED BY <1>1, <1>2, <1>3 DEF Explained, Complete

----------------------------------------------------------------------------
(* No packet vanishes *)

\* Packet u was handed to the loop or lost a part, or something of it is in a
\* builder or in flight.
Traced(u) ==
  \/ u \in abandoned
  \/ \E d \in delivered : u \in d.from
  \/ \E id \in DOMAIN packets : u \in packets[id].from
  \/ \E i \in 1 .. Len(wire[C]) : wire[C][i].uid = u

AllTraced == \A u \in 1 .. Len(sent) : Traced(u)

\* The new packet has a part in flight unless the send was refused.
LEMMA SendTraced ==
  ASSUME LoopTypeOK, AllTraced, NEW payload \in Payloads, ClientSends(payload)
  PROVE  AllTraced'
<1> DEFINE w == wire[C]
           v == wire'[C]
<1>0. PICK new : new = Len(sent) + 1
  OBVIOUS
<1>1. C \in Conns /\ TypeOK /\ w \in Seq(Part) /\ Len(w) \in Nat
  BY TunnelType DEF LoopTypeOK
<1>2. /\ \A u \in 1 .. Len(sent') : u \in 1 .. Len(sent) \/ u = new
      /\ UNCHANGED <<packets, delivered>> /\ Len(sent) \in Nat
  BY <1>0, SendFrame
<1>3. /\ abandoned \subseteq abandoned' /\ Len(v) \in Nat
      /\ \A i \in 1 .. Len(w) : i > Len(v) => w[i].uid \in abandoned'
      /\ \A i \in 1 .. Len(v) :
           \/ i <= Len(w) /\ v[i] = w[i]
           \/ i = Len(w) + 1
           \/ i = Len(w) + 2
  BY SendStream
<1>4. ASSUME NEW u \in 1 .. Len(sent) PROVE Traced(u)'
  <2>1. CASE \E i \in 1 .. Len(w) : w[i].uid = u
    <3>1. PICK i \in 1 .. Len(w) : w[i].uid = u
      BY <2>1
    <3>2. CASE i > Len(v)
      BY <1>3, <3>1, <3>2 DEF Traced
    <3>3. CASE i <= Len(v)
      <4>1. i \in 1 .. Len(v) /\ i # Len(w) + 1 /\ i # Len(w) + 2
        BY <1>1, <1>3, <3>3
      <4>2. v[i] = w[i]
        BY <1>3, <4>1
      <4> QED BY <3>1, <4>1, <4>2 DEF Traced
    <3> QED BY <1>1, <1>3, <3>2, <3>3
  <2>2. Traced(u)
    BY DEF AllTraced
  <2> QED BY <1>2, <1>3, <2>1, <2>2 DEF Traced
<1>5. Traced(new)'
  <2>1. CASE EncodeAndFail(C, payload)
    <3>1. new \in abandoned'
      BY <1>0, <2>1 DEF EncodeAndFail
    <3> QED BY <3>1 DEF Traced
  <2>2. CASE EncodeAndSend(C, payload)
    <3> DEFINE parts == Parts(C, lastId[C], new, payload)
    <3>1. lastId[C] \in Byte /\ new \in Nat
      BY <1>0, <1>1, <1>2 DEF TypeOK
    <3>2. parts \in Seq(Part)
      BY <1>1, <3>1, PartsType
    <3>3. Len(parts) \in {1, 2} /\ parts[1].uid = new
      <4>1. /\ Len(parts) = IF InTwo(payload) THEN 2 ELSE 1
            /\ parts[1] = FirstPart(C, lastId[C], new, payload)
        BY <1>1, PartsValue
      <4> HIDE DEF parts
      <4> QED BY <4>1, PartFields
    <3>4. v = w \o parts
      BY <1>0, <1>1, <2>2 DEF EncodeAndSend, TypeOK
    <3> HIDE DEF parts, w, v
    <3>5. Len(w) + 1 \in 1 .. Len(v) /\ v[Len(w) + 1] = parts[1]
      BY <1>1, <3>2, <3>3, <3>4
    <3> QED BY <3>3, <3>5 DEF Traced, v
  <2> QED BY <2>1, <2>2 DEF ClientSends
<1> QED BY <1>2, <1>4, <1>5 DEF AllTraced

\* A record that leaves the stream is built in, one that is dropped is counted
\* as lost, and a builder that leaves the table is handed on.
LEMMA TracedStep ==
  ASSUME LoopInv, AllTraced, [LoopNext]_allVars
  PROVE  AllTraced'
<1> USE DEF LoopInv
<1>1. ASSUME NEW payload \in Payloads, ClientSends(payload) PROVE AllTraced'
  BY <1>1, SendTraced
<1>2. CASE BuildObject
  <2> DEFINE x == wire[C][1]
  <2>1. /\ UNCHANGED <<sent, abandoned, delivered>>
        /\ Len(wire'[C]) = Len(wire[C]) - 1
        /\ wire[C] \in Seq(Part) /\ Len(wire[C]) \in Nat
        /\ wire' = [wire EXCEPT ![C] = Tail(@)] /\ wire[C] # <<>>
        /\ C \in Conns /\ TypeOK
    BY <1>2, HeadOfStream, TunnelType DEF BuildObject, Build, LoopTypeOK
  <2>2. /\ \A id \in DOMAIN packets :
             id \in DOMAIN packets' /\ packets[id].from \subseteq packets'[id].from
        /\ x.id \in DOMAIN packets' /\ x.uid \in packets'[x.id].from
    <3>1. /\ DOMAIN packets' = DOMAIN packets \cup {x.id}
          /\ \A id \in DOMAIN packets \ {x.id} : packets'[id] = packets[id]
          /\ x.id \in DOMAIN packets =>
               packets'[x.id].from = packets[x.id].from \cup {x.uid}
          /\ x.id \notin DOMAIN packets => packets'[x.id].from = {x.uid}
      BY <1>2, BuildResult
    <3> HIDE DEF x
    <3> QED BY <3>1
  <2>3. \A i \in 1 .. Len(wire[C]) :
          i = 1 \/ (i - 1 \in 1 .. Len(wire'[C]) /\ wire'[C][i - 1] = wire[C][i])
    <3>1. wire'[C] = Tail(wire[C])
      BY <2>1 DEF TypeOK
    <3> QED BY <2>1, <3>1
  <2> SUFFICES ASSUME NEW u \in 1 .. Len(sent) PROVE Traced(u)'
    BY <2>1 DEF AllTraced
  <2>4. Traced(u)
    BY DEF AllTraced
  <2>5. CASE \E i \in 1 .. Len(wire[C]) : wire[C][i].uid = u
    BY <2>2, <2>3, <2>5 DEF Traced
  <2>6. CASE \E id \in DOMAIN packets : u \in packets[id].from
    BY <2>2, <2>6 DEF Traced
  <2> QED BY <2>1, <2>4, <2>5, <2>6 DEF Traced
<1>3. CASE PopObject
  <2> DEFINE d == [conn |-> C, from |-> packets[cache].from,
                   data |-> packets[cache].data]
  <2>1. /\ delivered' = delivered \cup {d}
        /\ \A id \in DOMAIN packets :
             id = cache \/ (id \in DOMAIN packets' /\ packets'[id] = packets[id])
        /\ UNCHANGED <<wire, sent, abandoned>>
    BY <1>3, PopResult
  <2>2. d.from = packets[cache].from
    OBVIOUS
  <2> HIDE DEF d
  <2> SUFFICES ASSUME NEW u \in 1 .. Len(sent) PROVE Traced(u)'
    BY <2>1 DEF AllTraced
  <2>3. Traced(u)
    BY DEF AllTraced
  <2> QED BY <2>1, <2>2, <2>3 DEF Traced
<1>4. ASSUME NEW k \in 0 .. Len(wire[C]), Dropped(k) PROVE AllTraced'
  <2>1. /\ UNCHANGED <<packets, sent, delivered>>
        /\ abandoned \subseteq abandoned'
        /\ \A i \in 1 .. k : wire[C][i].uid \in abandoned'
    BY <1>4 DEF Dropped
  <2>2. /\ Len(wire'[C]) = Len(wire[C]) - k
        /\ \A i \in 1 .. Len(wire'[C]) : wire'[C][i] = wire[C][i + k]
        /\ Len(wire[C]) \in Nat
    BY <1>4, DroppedStream, TunnelType DEF LoopTypeOK
  <2>3. \A i \in 1 .. Len(wire[C]) :
          \/ i \in 1 .. k
          \/ i - k \in 1 .. Len(wire'[C]) /\ wire'[C][i - k] = wire[C][i]
    <3> SUFFICES ASSUME NEW i \in 1 .. Len(wire[C]), i \notin 1 .. k
                 PROVE  /\ i - k \in 1 .. Len(wire'[C])
                        /\ wire'[C][i - k] = wire[C][i]
      OBVIOUS
    <3>1. i - k \in 1 .. Len(wire'[C]) /\ i - k + k = i
      BY <2>2
    <3> QED BY <2>2, <3>1
  <2> SUFFICES ASSUME NEW u \in 1 .. Len(sent) PROVE Traced(u)'
    BY <2>1 DEF AllTraced
  <2>4. Traced(u)
    BY DEF AllTraced
  <2> QED BY <2>1, <2>3, <2>4 DEF Traced
<1>5. ASSUME \/ Receive \/ ReceiveCrosses \/ QueryObject \/ SendPacket \/ SendEndsIteration
             \/ UNCHANGED allVars
      PROVE  AllTraced'
  <2>1. UNCHANGED <<wire, packets, sent, abandoned, delivered>>
    BY <1>5, LeadsStep
  <2> QED BY <2>1 DEF AllTraced, Traced
<1> QED BY <1>1, <1>2, <1>3, <1>4, <1>5, StepKinds

\* With nothing in flight and no decode_data under way no builder is full and
\* none waits for a record: what is in one shares it with a lost packet.
LEMMA DrainedExplained == LoopInv /\ AllTraced => DrainedLosesNothing
<1> SUFFICES ASSUME LoopInv, AllTraced, wire[C] = <<>>, pc[C] = "decode",
                    NEW u \in 1 .. Len(sent)
             PROVE  \/ u \in abandoned
                    \/ \E d \in delivered : u \in d.from
                    \/ \E id \in DOMAIN packets :
                         /\ u \in packets[id].from
                         /\ packets[id].from \cap abandoned # {}
  BY DEF DrainedLosesNothing
<1>1. Len(wire[C]) = 0
  OBVIOUS
<1>2. \A id \in DOMAIN packets : packets[id].from \cap abandoned # {}
  <2> SUFFICES ASSUME NEW id \in DOMAIN packets
               PROVE  packets[id].from \cap abandoned # {}
    OBVIOUS
  <2>1. ~packets[id].full
    BY DEF LoopInv, OneFull, FullIds
  <2>2. Explained(id)
    BY DEF LoopInv, BuildersInv, BuildersExplained
  <2> QED BY <1>1, <2>1, <2>2 DEF Explained, Complete, AwaitsSecond
<1>3. Traced(u)
  BY DEF AllTraced
<1> QED BY <1>1, <1>2, <1>3 DEF Traced

----------------------------------------------------------------------------
(* What holds of the loop *)

\* The invariant holds of every run of the loop.
THEOREM LoopInvariant == LoopSpec => []LoopInv
  BY LoopInitial, LoopStep, PTL DEF LoopSpec

\* Every variable of vpn_request_loop_iteration keeps its type, and the loop
\* takes an object only from a batch that has some left, however the records
\* are cut into batches and wherever an iteration returns.
THEOREM LoopTypeCorrect == LoopSpec => []LoopTypeOK
<1>1. LoopInv => LoopTypeOK
  BY DEF LoopInv
<1> QED BY <1>1, LoopInvariant, PTL

\* What decode_data returns to the loop is one packet as it was sent, unless a
\* packet that lost a part with its batch or its connection is mixed into it.
THEOREM MixedCorrect == LoopSpec => []MixedOnlyAfterLoss
<1>1. LoopInv => MixedOnlyAfterLoss
  BY DEF LoopInv
<1> QED BY <1>1, LoopInvariant, PTL

\* Between two batches packets_ holds nothing but packets that lost a part and
\* those whose other part is still to come.
THEOREM LeftoversCorrect == LoopSpec => []LeftoversLostAPart
  BY LeftoversExplained, LoopInvariant, PTL

\* A packet in two parts is forwarded only if its second part was the first
\* object of a batch, for every size of the parts.
THEOREM SecondPartCorrect == LoopSpec => []SecondPartLedItsBatch
<1>1. LoopInv => SecondPartLedItsBatch
  BY DEF LoopInv
<1> QED BY <1>1, LoopInvariant, PTL

\* Once nothing is in flight and no decode_data is under way, every packet that
\* the client sent was handed to the loop, lost a part, or is stuck in the
\* builder of a packet that did: none vanishes, wherever an iteration returns.
THEOREM DrainedCorrect == LoopSpec => []DrainedLosesNothing
<1>1. LoopInit => AllTraced
  <2>1. LoopInit => Len(sent) = 0
    BY DEF LoopInit, Init
  <2> QED BY <2>1 DEF AllTraced
<1>2. LoopInv /\ AllTraced /\ [LoopNext]_allVars => AllTraced'
  BY TracedStep
<1>3. LoopSpec => []AllTraced
  BY <1>1, <1>2, LoopInvariant, PTL DEF LoopSpec
<1> QED BY <1>3, LoopInvariant, DrainedExplained, PTL
=============================================================================
