------------------------- MODULE SocketFilterProofs -------------------------
(***************************************************************************)
(* Proofs about SocketFilter for any flows, hosts, ports and packets and   *)
(* any length of the queues: strangers come out of a raw socket before the *)
(* responses do, and what becomes of a response.                           *)
(***************************************************************************)
EXTENDS SocketFilter, SequenceTheorems, TLAPS

----------------------------------------------------------------------------
(* The inductive invariant *)

\* A packet that may pass the filter of flow f.
MayPass(p, f) == BelongsTo(p, f) \/ (p.opts /\ p.raddr = f.raddr)

\* The client of f has been given a packet that passed the filter.
GivenFiltered(f) == \E c \in carried : c.flow = f /\ c.item.came = "filtered"

\* While the response thread waits in a send, the packet it sends is still
\* the first of its socket.
SendHasPacket == \A f \in blocked : queue[f] # <<>>

\* A packet came through the filter only if the filter is on, and the filter
\* is never taken off again.
FilterStaysOn ==
  \A f \in Flows :
    /\ GivenFiltered(f) => phase[f] = "filtered"
    /\ \A i \in 1 .. Len(queue[f]) :
         queue[f][i].came = "filtered" => phase[f] = "filtered"

\* In the queue, behind a packet that came through the filter there are only
\* such packets, and so there are once one of them was carried back; and each
\* of them is one that may pass.
StrangersFirst ==
  \A f \in Flows :
    /\ \A i, j \in 1 .. Len(queue[f]) :
         i < j /\ queue[f][i].came = "filtered" => queue[f][j].came = "filtered"
    /\ GivenFiltered(f) =>
         \A i \in 1 .. Len(queue[f]) : queue[f][i].came = "filtered"
    /\ \A i \in 1 .. Len(queue[f]) :
         queue[f][i].came = "filtered" => MayPass(queue[f][i].pkt, f)

FilterInv == TypeOK /\ SendHasPacket /\ FilterStaysOn /\ StrangersFirst

----------------------------------------------------------------------------
(* What the socket and its program let in *)

\* The program reads the true ports of a packet without IP options, so what a
\* socket with its filter on accepts is one that may pass.
LEMMA AcceptedMayPass ==
  ASSUME TypeOK, NEW f \in Flows, NEW p \in Packets, NEW key \in KeysRead(p),
         Accepts(f, p, key)
  PROVE  /\ [pkt |-> p, came |-> phase[f]] \in Item
         /\ phase[f] = "filtered" => MayPass(p, f)
<1>1. phase[f] \in Phases
  BY DEF TypeOK
<1>2. phase[f] \notin {"none", "shut"}
  BY DEF Accepts
<1>3. ASSUME phase[f] = "filtered"
      PROVE  MayPass(p, f)
  <2>1. p.raddr = f.raddr /\ key = FilterKey(f)
    BY <1>3 DEF Accepts
  <2>2. CASE p.opts
    BY <2>1, <2>2 DEF MayPass
  <2>3. CASE ~p.opts
    <3>1. p.rport = f.rport /\ p.lport = f.lport
      BY <2>1, <2>3 DEF KeysRead, FilterKey
    <3> QED BY <2>1, <3>1 DEF MayPass, BelongsTo
  <2> QED BY <2>2, <2>3
<1> QED BY <1>1, <1>2, <1>3 DEF Item

\* A packet reaches the host: a queue grows by one packet at its end or stays.
LEMMA ArriveKeepsInv ==
  ASSUME FilterInv, NEW p \in Packets, Arrive(p)
  PROVE  FilterInv'
<1> USE DEF FilterInv
<1>1. PICK key \in KeysRead(p) :
        queue' = [f \in Flows |->
                    IF Accepts(f, p, key) /\ Len(queue[f]) < QueueLen
                    THEN Append(queue[f], [pkt |-> p, came |-> phase[f]])
                    ELSE queue[f]]
  BY DEF Arrive
<1>2. UNCHANGED <<phase, table, blocked, carried, faults>>
  BY DEF Arrive
<1>3. ASSUME NEW f \in Flows
      PROVE  /\ queue'[f] \in Seq(Item)
             /\ queue[f] # <<>> => queue'[f] # <<>>
             /\ \A i \in 1 .. Len(queue'[f]) :
                  queue'[f][i].came = "filtered" => /\ phase[f] = "filtered"
                                                    /\ MayPass(queue'[f][i].pkt, f)
             /\ \A i, j \in 1 .. Len(queue'[f]) :
                  i < j /\ queue'[f][i].came = "filtered" =>
                    queue'[f][j].came = "filtered"
             /\ GivenFiltered(f) =>
                  \A i \in 1 .. Len(queue'[f]) : queue'[f][i].came = "filtered"
  <2>1. queue[f] \in Seq(Item)
    BY DEF TypeOK
  <2>2. /\ \A i \in 1 .. Len(queue[f]) :
             queue[f][i].came = "filtered" => /\ phase[f] = "filtered"
                                              /\ MayPass(queue[f][i].pkt, f)
        /\ \A i, j \in 1 .. Len(queue[f]) :
             i < j /\ queue[f][i].came = "filtered" => queue[f][j].came = "filtered"
        /\ GivenFiltered(f) =>
             /\ phase[f] = "filtered"
             /\ \A i \in 1 .. Len(queue[f]) : queue[f][i].came = "filtered"
    BY DEF FilterStaysOn, StrangersFirst
  <2>3. CASE queue'[f] = queue[f]
    BY <2>1, <2>2, <2>3
  <2>4. CASE queue'[f] # queue[f]
    <3> DEFINE x == [pkt |-> p, came |-> phase[f]]
    <3>1. Accepts(f, p, key) /\ queue'[f] = Append(queue[f], x)
      BY <1>1, <2>4
    <3>2. x \in Item /\ (phase[f] = "filtered" => MayPass(x.pkt, f))
          /\ x.came = phase[f]
      BY <3>1, AcceptedMayPass
    <3> HIDE DEF x
    <3>3. /\ queue'[f] \in Seq(Item) /\ Len(queue'[f]) = Len(queue[f]) + 1
          /\ \A i \in 1 .. Len(queue[f]) : queue'[f][i] = queue[f][i]
          /\ queue'[f][Len(queue[f]) + 1] = x
          /\ Len(queue[f]) \in Nat
      BY <2>1, <3>1, <3>2
    <3>4. queue'[f] # <<>>
      BY <3>3
    <3>5. ASSUME NEW i \in 1 .. Len(queue'[f])
          PROVE  i \in 1 .. Len(queue[f]) \/ i = Len(queue[f]) + 1
      BY <3>3
    <3>6. ASSUME NEW i \in 1 .. Len(queue'[f]), queue'[f][i].came = "filtered"
          PROVE  phase[f] = "filtered" /\ MayPass(queue'[f][i].pkt, f)
      BY <2>2, <3>2, <3>3, <3>5, <3>6
    <3>7. ASSUME NEW i \in 1 .. Len(queue'[f]), NEW j \in 1 .. Len(queue'[f]),
                 i < j, queue'[f][i].came = "filtered"
          PROVE  queue'[f][j].came = "filtered"
      <4>1. CASE j = Len(queue[f]) + 1
        BY <3>2, <3>3, <3>6, <3>7, <4>1
      <4>2. CASE j \in 1 .. Len(queue[f])
        BY <2>2, <3>3, <3>7, <4>2
      <4> QED BY <3>5, <4>1, <4>2
    <3>8. ASSUME GivenFiltered(f), NEW i \in 1 .. Len(queue'[f])
          PROVE  queue'[f][i].came = "filtered"
      BY <2>2, <3>2, <3>3, <3>5, <3>8
    <3> QED BY <3>3, <3>4, <3>6, <3>7, <3>8
  <2> QED BY <2>3, <2>4
<1>4. queue' \in [Flows -> Seq(Item)]
  BY <1>1, <1>3
<1>5. ASSUME NEW S \in SUBSET Flows
      PROVE  {[flow |-> f, item |-> [pkt |-> p, came |-> "filtered"]] : f \in S}
               \subseteq [flow: Flows, item: Item]
  BY DEF Item, Phases
<1>6. owed' \subseteq [flow: Flows, item: Item]
  BY <1>5 DEF Arrive, TypeOK, OwedTo
<1>7. lost' \subseteq [flow: Flows, item: Item]
  BY <1>5 DEF Arrive, TypeOK, OwedTo
<1>8. TypeOK'
  BY <1>2, <1>4, <1>6, <1>7, FilterAssumption DEF Arrive, TypeOK
<1>9. SendHasPacket'
  BY <1>2, <1>3 DEF SendHasPacket, TypeOK
<1>10. FilterStaysOn'
  BY <1>2, <1>3 DEF FilterStaysOn, GivenFiltered
<1>11. StrangersFirst'
  BY <1>2, <1>3 DEF StrangersFirst, GivenFiltered
<1> QED BY <1>8, <1>9, <1>10, <1>11

\* The response thread takes the oldest packet of a queue and carries it back.
LEMMA CarryKeepsInv ==
  ASSUME FilterInv, NEW f \in Flows, queue[f] # <<>>, CarryBack(f),
         blocked' \subseteq blocked \ {f}, UNCHANGED <<phase, arrived, owed, lost, faults>>
  PROVE  FilterInv'
<1> USE DEF FilterInv
<1>1. queue[f] \in Seq(Item)
  BY DEF TypeOK
<1>2. Head(queue[f]) \in Item /\ Head(queue[f]) = queue[f][1]
      /\ 1 \in 1 .. Len(queue[f])
  BY <1>1
<1>3. /\ Tail(queue[f]) \in Seq(Item)
      /\ \A i \in 1 .. Len(Tail(queue[f])) :
           i + 1 \in 1 .. Len(queue[f]) /\ Tail(queue[f])[i] = queue[f][i + 1]
  BY <1>1
<1>4. /\ queue' = [queue EXCEPT ![f] = Tail(queue[f])]
      /\ carried' = carried \cup {[flow |-> f, item |-> Head(queue[f])]}
      /\ table' \subseteq table
  BY DEF CarryBack
<1>5. /\ queue'[f] = Tail(queue[f])
      /\ \A g \in Flows \ {f} : queue'[g] = queue[g]
  BY <1>4 DEF TypeOK
<1>6. TypeOK'
  BY <1>2, <1>3, <1>4 DEF TypeOK
<1>7. SendHasPacket'
  BY <1>5 DEF SendHasPacket, TypeOK
<1>8. ASSUME NEW g \in Flows, GivenFiltered(g)'
      PROVE  GivenFiltered(g) \/ (g = f /\ queue[f][1].came = "filtered")
  BY <1>2, <1>4, <1>8 DEF GivenFiltered
<1>9. FilterStaysOn'
  <2> SUFFICES ASSUME NEW g \in Flows
               PROVE  /\ GivenFiltered(g)' => phase[g] = "filtered"
                      /\ \A i \in 1 .. Len(queue'[g]) :
                           queue'[g][i].came = "filtered" => phase[g] = "filtered"
    BY DEF FilterStaysOn
  <2>1. GivenFiltered(g)' => phase[g] = "filtered"
    BY <1>2, <1>8 DEF FilterStaysOn
  <2>2. ASSUME NEW i \in 1 .. Len(queue'[g]), queue'[g][i].came = "filtered"
        PROVE  phase[g] = "filtered"
    <3>1. CASE g # f
      BY <1>5, <2>2, <3>1 DEF FilterStaysOn
    <3>2. CASE g = f
      BY <1>3, <1>5, <2>2, <3>2 DEF FilterStaysOn
    <3> QED BY <3>1, <3>2
  <2> QED BY <2>1, <2>2
<1>10. StrangersFirst'
  <2> SUFFICES ASSUME NEW g \in Flows
               PROVE  /\ \A i, j \in 1 .. Len(queue'[g]) :
                           i < j /\ queue'[g][i].came = "filtered" =>
                             queue'[g][j].came = "filtered"
                      /\ GivenFiltered(g)' =>
                           \A i \in 1 .. Len(queue'[g]) : queue'[g][i].came = "filtered"
                      /\ \A i \in 1 .. Len(queue'[g]) :
                           queue'[g][i].came = "filtered" => MayPass(queue'[g][i].pkt, g)
    BY DEF StrangersFirst
  <2>1. CASE g # f
    BY <1>5, <1>8, <2>1 DEF StrangersFirst
  <2>2. CASE g = f
    <3>1. \A i, j \in 1 .. Len(queue'[f]) :
            i < j /\ queue'[f][i].came = "filtered" => queue'[f][j].came = "filtered"
      BY <1>3, <1>5 DEF StrangersFirst
    <3>2. ASSUME GivenFiltered(f)', NEW i \in 1 .. Len(queue'[f])
          PROVE  queue'[f][i].came = "filtered"
      <4>1. i + 1 \in 1 .. Len(queue[f]) /\ queue'[f][i] = queue[f][i + 1]
        BY <1>3, <1>5
      <4>2. CASE GivenFiltered(f)
        BY <4>1, <4>2 DEF StrangersFirst
      <4>3. CASE queue[f][1].came = "filtered"
        <5>1. 1 < i + 1
          OBVIOUS
        <5> QED BY <1>2, <4>1, <4>3, <5>1 DEF StrangersFirst
      <4> QED BY <1>8, <3>2, <4>2, <4>3
    <3>3. \A i \in 1 .. Len(queue'[f]) :
            queue'[f][i].came = "filtered" => MayPass(queue'[f][i].pkt, f)
      BY <1>3, <1>5 DEF StrangersFirst
    <3> QED BY <2>2, <3>1, <3>2, <3>3
  <2> QED BY <2>1, <2>2
<1> QED BY <1>6, <1>7, <1>9, <1>10

----------------------------------------------------------------------------
(* The theorems *)

\* In every behaviour of the flows' sockets the types hold, and the queues are
\* in the order the steps of connect_to_server_impl_ give them.
THEOREM FilterInvariant == Spec => []FilterInv
<1>1. Init => FilterInv
  <2> SUFFICES ASSUME Init PROVE FilterInv
    OBVIOUS
  <2>1. TypeOK
    BY FilterAssumption DEF Init, TypeOK, Phases
  <2> QED BY <2>1 DEF Init, FilterInv, SendHasPacket, FilterStaysOn,
                      StrangersFirst, GivenFiltered
<1>2. FilterInv /\ [Next]_vars => FilterInv'
  <2> SUFFICES ASSUME FilterInv, [Next]_vars PROVE FilterInv'
    OBVIOUS
  <2> USE DEF FilterInv, history
  <2>1. CASE UNCHANGED vars
    BY <2>1 DEF vars, TypeOK, SendHasPacket, FilterStaysOn, StrangersFirst,
                GivenFiltered
  <2>2. ASSUME NEW f \in Flows,
               CreateRaw(f) \/ ConnectRaw(f) \/ AttachFilter(f) \/ AttachFails(f)
        PROVE  FilterInv'
    <3>1. PICK l \in Phases :
            phase[f] # "filtered" /\ phase' = [phase EXCEPT ![f] = l]
      BY <2>2 DEF CreateRaw, ConnectRaw, AttachFilter, AttachFails, Phases
    <3>2. /\ table' \subseteq Flows /\ faults' \in 0 .. MaxFaults
          /\ UNCHANGED <<queue, blocked, arrived, carried, owed, lost>>
      BY <2>2, FilterAssumption
         DEF CreateRaw, ConnectRaw, AttachFilter, AttachFails, TypeOK
    <3>3. /\ phase' \in [Flows -> Phases]
          /\ \A g \in Flows \ {f} : phase'[g] = phase[g]
      BY <3>1 DEF TypeOK
    <3>4. TypeOK' /\ SendHasPacket'
      BY <3>2, <3>3 DEF TypeOK, SendHasPacket
    <3>5. FilterStaysOn'
      BY <3>1, <3>2, <3>3 DEF FilterStaysOn, GivenFiltered
    <3>6. StrangersFirst'
      BY <3>2 DEF StrangersFirst, GivenFiltered
    <3> QED BY <3>4, <3>5, <3>6
  <2>3. ASSUME NEW f \in Flows, ClientResets(f) \/ SendBlocks(f)
        PROVE  FilterInv'
    BY <2>3 DEF ClientResets, SendBlocks, TypeOK, SendHasPacket, FilterStaysOn,
                StrangersFirst, GivenFiltered
  <2>4. ASSUME NEW f \in Flows, HandleResponse(f)
        PROVE  FilterInv'
    BY <2>4, CarryKeepsInv DEF HandleResponse
  <2>5. ASSUME NEW f \in Flows, SendReturns(f)
        PROVE  FilterInv'
    BY <2>5, CarryKeepsInv DEF SendReturns, SendHasPacket
  <2>6. ASSUME NEW p \in Packets, Arrive(p)
        PROVE  FilterInv'
    BY <2>6, ArriveKeepsInv
  <2> QED BY <2>1, <2>2, <2>3, <2>4, <2>5, <2>6 DEF Next, Turn
<1> QED BY <1>1, <1>2, PTL DEF Spec

\* The phases, queues and histories keep their types.
THEOREM FilterTypeCorrect == Spec => []TypeOK
<1>1. FilterInv => TypeOK
  BY DEF FilterInv
<1> QED BY <1>1, FilterInvariant, PTL

\* Whatever arrived before the filter of a raw socket was on, it is out of the
\* way by the time the first response that passed the filter has been carried
\* back: strangers and responses never alternate.
THEOREM CleanCorrect == Spec => []CleanOnceFiltered
<1>1. FilterInv => CleanOnceFiltered
  BY DEF FilterInv, StrangersFirst, GivenFiltered, MayPass, CleanOnceFiltered
<1> QED BY <1>1, FilterInvariant, PTL

----------------------------------------------------------------------------
(* What a flow is owed *)

\* A response waits in the queue of its flow.
Waits(o) == \E i \in 1 .. Len(queue[o.flow]) : queue[o.flow][i] = o.item

\* What arrived for a flow with its filter on was carried back, waits, or found
\* the queue full.
OwedKept ==
  \A o \in owed : o.flow \in Flows /\ (o \in carried \cup lost \/ Waits(o))

\* What waits in a queue stays in it when a packet arrives.
LEMMA ArriveKeepsWaiting ==
  ASSUME TypeOK, NEW p \in Packets, Arrive(p), NEW o, o.flow \in Flows,
         Waits(o)
  PROVE  Waits(o)'
<1> DEFINE f == o.flow
<1>1. PICK i \in 1 .. Len(queue[f]) : queue[f][i] = o.item
  BY DEF Waits
<1>2. PICK key \in KeysRead(p) :
        queue' = [g \in Flows |->
                    IF Accepts(g, p, key) /\ Len(queue[g]) < QueueLen
                    THEN Append(queue[g], [pkt |-> p, came |-> phase[g]])
                    ELSE queue[g]]
  BY DEF Arrive
<1>3. queue[f] \in Seq(Item)
  BY DEF TypeOK
<1>4. \/ queue'[f] = queue[f]
      \/ queue'[f] = Append(queue[f], [pkt |-> p, came |-> phase[f]])
  BY <1>2
<1>5. i \in 1 .. Len(queue'[f]) /\ queue'[f][i] = queue[f][i]
  BY <1>1, <1>3, <1>4
<1> QED BY <1>1, <1>5 DEF Waits

\* The filter lets the packets of its own flow pass, for their key is its own,
\* so they are queued wherever there is room.
LEMMA OwnPacketIsQueued ==
  ASSUME TypeOK, NEW p \in Packets, Arrive(p), NEW f \in OwedTo(p),
         Len(queue[f]) < QueueLen
  PROVE  Waits([flow |-> f, item |-> [pkt |-> p, came |-> "filtered"]])'
<1>1. PICK key \in KeysRead(p) :
        queue' = [g \in Flows |->
                    IF Accepts(g, p, key) /\ Len(queue[g]) < QueueLen
                    THEN Append(queue[g], [pkt |-> p, came |-> phase[g]])
                    ELSE queue[g]]
  BY DEF Arrive
<1>2. f \in Flows /\ phase[f] = "filtered" /\ key = FilterKey(f)
  BY DEF OwedTo, KeysRead, FilterKey, BelongsTo
<1>3. Accepts(f, p, key)
  BY <1>2 DEF Accepts, OwedTo, BelongsTo
<1> DEFINE x == [pkt |-> p, came |-> "filtered"]
<1>4. queue'[f] = Append(queue[f], x)
  BY <1>1, <1>2, <1>3
<1>5. queue[f] \in Seq(Item) /\ x \in Item
  BY <1>2 DEF TypeOK, Item, Phases
<1> HIDE DEF x
<1>6. Len(queue[f]) + 1 \in 1 .. Len(queue'[f])
      /\ queue'[f][Len(queue[f]) + 1] = x
  BY <1>4, <1>5
<1>7. \E i \in 1 .. Len(queue'[f]) : queue'[f][i] = x
  BY <1>6
<1> QED BY <1>7 DEF Waits, x

\* Carrying the oldest packet of f back leaves every response carried back or
\* waiting.
LEMMA CarryKeepsOwed ==
  ASSUME TypeOK, OwedKept, NEW f \in Flows, queue[f] # <<>>, CarryBack(f),
         UNCHANGED <<owed, lost>>
  PROVE  OwedKept'
<1> SUFFICES ASSUME NEW o \in owed
             PROVE  o.flow \in Flows /\ (o \in carried' \cup lost \/ Waits(o)')
  BY DEF OwedKept
<1>1. o.flow \in Flows /\ o \in [flow: Flows, item: Item]
  BY DEF OwedKept, TypeOK
<1>2. CASE o \in carried \cup lost
  BY <1>1, <1>2 DEF CarryBack
<1>3. CASE o.flow # f /\ Waits(o)
  BY <1>1, <1>3 DEF CarryBack, Waits, TypeOK
<1>4. CASE o.flow = f /\ Waits(o)
  <2>1. queue[f] \in Seq(Item) /\ queue'[f] = Tail(queue[f])
    BY DEF CarryBack, TypeOK
  <2>2. PICK i \in 1 .. Len(queue[f]) : queue[f][i] = o.item
    BY <1>4 DEF Waits
  <2>3. CASE i = 1
    <3>1. o = [flow |-> f, item |-> Head(queue[f])]
      BY <1>1, <1>4, <2>1, <2>2, <2>3
    <3> QED BY <1>1, <3>1 DEF CarryBack
  <2>4. CASE i # 1
    <3>1. i - 1 \in 1 .. Len(queue'[f]) /\ queue'[f][i - 1] = o.item
      BY <2>1, <2>2, <2>4
    <3> QED BY <1>1, <1>4, <3>1 DEF Waits
  <2> QED BY <2>3, <2>4
<1> QED BY <1>2, <1>3, <1>4 DEF OwedKept

\* A packet of a flow that arrives after its filter was attached, and carries
\* no IP options, is in its socket or was carried back, through all resets of
\* the flow and all blocked sends: only a full queue loses it.  In the socket
\* it may stay for ever if the flow has left the table (that the response
\* thread gets to it otherwise is ResponsesPass).
THEOREM OwedOnlyOverflows == Spec => []OwedKept
<1>1. Init => OwedKept
  BY DEF Init, OwedKept
<1>2. FilterInv /\ OwedKept /\ [Next]_vars => OwedKept'
  <2> SUFFICES ASSUME FilterInv, OwedKept, [Next]_vars PROVE OwedKept'
    OBVIOUS
  <2> USE DEF history
  <2>1. CASE UNCHANGED <<queue, carried, owed, lost>>
    BY <2>1 DEF OwedKept, Waits
  <2>2. ASSUME NEW f \in Flows, HandleResponse(f) \/ SendReturns(f)
        PROVE  OwedKept'
    BY <2>2, CarryKeepsOwed DEF FilterInv, SendHasPacket, HandleResponse,
                                SendReturns
  <2>3. ASSUME NEW p \in Packets, Arrive(p)
        PROVE  OwedKept'
    <3> SUFFICES ASSUME NEW o \in owed'
                 PROVE  o.flow \in Flows /\ (o \in carried \cup lost' \/ Waits(o)')
      BY <2>3 DEF Arrive, OwedKept
    <3>1. CASE o \in owed
      <4>1. lost \subseteq lost'
        BY <2>3 DEF Arrive
      <4> QED BY <2>3, <3>1, <4>1, ArriveKeepsWaiting DEF OwedKept, FilterInv
    <3>2. CASE o \notin owed
      <4>1. PICK f \in OwedTo(p) :
              o = [flow |-> f, item |-> [pkt |-> p, came |-> "filtered"]]
        BY <2>3, <3>2 DEF Arrive
      <4>2. f \in Flows /\ Len(queue[f]) \in Nat
        BY <4>1 DEF OwedTo, FilterInv, TypeOK
      <4>3. CASE Len(queue[f]) < QueueLen
        BY <2>3, <4>1, <4>2, <4>3, OwnPacketIsQueued DEF FilterInv
      <4>4. CASE Len(queue[f]) >= QueueLen
        <5>1. o \in lost'
          BY <2>3, <4>1, <4>4 DEF Arrive
        <5> QED BY <4>1, <4>2, <5>1
      <4> QED BY <4>2, <4>3, <4>4, FilterAssumption
    <3> QED BY <3>1, <3>2
  <2> QED BY <2>1, <2>2, <2>3
          DEF Next, Turn, vars, CreateRaw, ConnectRaw, AttachFilter, AttachFails,
              ClientResets, SendBlocks
<1> QED BY <1>1, <1>2, FilterInvariant, PTL DEF Spec
=============================================================================
