------------------------- MODULE ServerDriverProofs -------------------------
(***************************************************************************)
(* Proofs about ServerDriver for every number of tunnels, flows and        *)
(* descriptors: the tables of the tunnel threads, the table they share     *)
(* with the response thread, and where that thread's iterator is.          *)
(***************************************************************************)
EXTENDS ServerDriver, NaturalsInduction,
        WellFoundedInduction, SequenceTheorems, TLAPS

----------------------------------------------------------------------------
(* What a CHOOSE of a smallest element rests on *)

\* A nonempty set of naturals has a least element.
LEMMA Least ==
  ASSUME NEW S \in SUBSET Nat, S # {}
  PROVE  \E i \in S : \A j \in S : i <= j
<1>1. \E i \in S : \A j \in S : ~(<<j, i>> \in OpToRel(<, Nat))
  BY WFMin, NatLessThanWellFounded
<1>2. ASSUME NEW i \in Nat, NEW j \in Nat, j < i
      PROVE  <<j, i>> \in OpToRel(<, Nat)
  <2> DEFINE p == <<j, i>>
  <2>1. p \in Nat \X Nat /\ p[1] = j /\ p[2] = i
    OBVIOUS
  <2> HIDE DEF p
  <2>2. p[1] < p[2]
    BY <2>1, <1>2
  <2>3. p \in OpToRel(<, Nat)
    BY <2>1, <2>2, Zenon DEF OpToRel
  <2> QED BY <2>3 DEF p
<1>3. \A i \in Nat, j \in Nat : j < i => <<j, i>> \in OpToRel(<, Nat)
  BY <1>2
<1>4. PICK i \in S : \A j \in S : ~(<<j, i>> \in OpToRel(<, Nat))
  BY <1>1
<1>5. \A j \in S : ~(j < i)
  BY <1>3, <1>4
<1>6. \A j \in S : i <= j
  BY <1>5
<1> QED BY <1>6

----------------------------------------------------------------------------
(* Descriptors *)

\* The kernel's choice is a free descriptor whenever there is one.
LEMMA LowestFreeIsFree ==
  ASSUME FreeFds # {}
  PROVE  LowestFree \in FreeFds
<1>1. FreeFds \in SUBSET Nat
  BY ServerAssumption DEF FreeFds, Fds
<1>2. \E f \in FreeFds : \A g \in FreeFds : f <= g
  BY <1>1, Least
<1> QED BY <1>2 DEF LowestFree

\* create_raw_socket and create_socket take free descriptors and no other.
LEMMA SocketsTakeFree ==
  ASSUME fds \in [Fds -> Tunnels \cup {None, "raw"}]
  PROVE  /\ FdsWithSockets \in [Fds -> Tunnels \cup {None, "raw"}]
         /\ \A f \in Fds : fds[f] # None => FdsWithSockets[f] = fds[f]
<1> DEFINE one  == LowestFree
           rest == FreeFds \ {one}
           two  == CHOOSE f \in rest : \A g \in rest : f <= g
<1>1. CASE FreeFds = {}
  BY <1>1 DEF FdsWithSockets
<1>2. CASE FreeFds # {} /\ rest = {}
  <2>1. one \in FreeFds
    BY <1>2, LowestFreeIsFree
  <2>2. FdsWithSockets = [fds EXCEPT ![one] = "raw"]
    BY <1>2 DEF FdsWithSockets
  <2> HIDE DEF one
  <2> QED BY <2>1, <2>2 DEF FreeFds
<1>3. CASE FreeFds # {} /\ rest # {}
  <2>1. one \in FreeFds
    BY <1>3, LowestFreeIsFree
  <2>2. two \in rest
    <3>1. rest \in SUBSET Nat
      BY ServerAssumption DEF FreeFds, Fds
    <3> HIDE DEF rest
    <3>2. \E f \in rest : \A g \in rest : f <= g
      BY <1>3, <3>1, Least
    <3> QED BY <3>2
  <2>3. FdsWithSockets = [fds EXCEPT ![one] = "raw", ![two] = "raw"]
    BY <1>3 DEF FdsWithSockets
  <2>4. two \in FreeFds
    BY <2>2
  <2> HIDE DEF one, two
  <2> QED BY <2>1, <2>3, <2>4 DEF FreeFds
<1> QED BY <1>1, <1>2, <1>3

----------------------------------------------------------------------------
(* Types *)

\* The flow of an object in hand that is not a part.
LEMMA HeadIsPacket ==
  ASSUME TypeOK, BatchInHand, NEW t \in Tunnels,
         pc[t] # "recv", pc[t] = "object" => Head(batch[t]) # PartObject
  PROVE  Head(batch[t]) \in Packet /\ Head(batch[t]).key \in Keys
<1>1. batch[t] \in Seq(Object) /\ batch[t] # <<>>
  BY DEF TypeOK, BatchInHand
<1>2. Head(batch[t]) \in Object
  BY <1>1
<1>3. Head(batch[t]) \in Packet
  BY <1>2 DEF Object, BatchInHand, TypeOK
<1> QED BY <1>3 DEF Packet

\* Where ++it and begin() leave the iterator: at one of the flows that were
\* left, which is then no longer left, or at the end.
LEMMA AdvanceType ==
  ASSUME NEW left, left \subseteq Keys, Advance(left)
  PROVE  /\ todo' \subseteq left
         /\ cur' \in Keys \cup {None} /\ alive' \in BOOLEAN
         /\ rpc' \in {"pass", "at"}
         /\ rpc' # "pass" => alive' /\ cur' \in left \ todo'
  BY DEF Advance

\* What connect_to_server_impl_ makes of the table: the flow is in it, with
\* this tunnel's socket unless it was there, and all else is as before.
LEMMA AddedEntry ==
  ASSUME TypeOK, NEW t \in Tunnels, sockFd[t] \in Fds, NEW k \in Keys,
         resp' = AddToResponseSocketMap(t, k)
  PROVE  /\ DOMAIN resp' = DOMAIN resp \cup {k}
         /\ resp' \in [DOMAIN resp' -> Entry]
         /\ \A j \in DOMAIN resp : resp'[j] = resp[j]
         /\ k \notin DOMAIN resp => resp'[k] = [tunnel |-> t, fd |-> sockFd[t]]
<1>1. [tunnel |-> t, fd |-> sockFd[t]] \in Entry
  BY DEF Entry
<1>2. \A j \in DOMAIN resp : resp[j] \in Entry
  BY DEF TypeOK
<1> QED BY <1>1, <1>2 DEF AddToResponseSocketMap

\* Every action keeps the types.
LEMMA TypeStep ==
  ASSUME TablesAgree, [Next]_vars
  PROVE  TypeOK'
<1> USE DEF TablesAgree, responseVars, iterVars, tunnelVars
<1>1. CASE UNCHANGED vars
  BY <1>1 DEF TypeOK, vars
<1>2. ASSUME NEW t \in Tunnels, StartTunnel(t)
      PROVE  TypeOK'
  <2>1. LowestFree \in Fds
    BY <1>2, LowestFreeIsFree DEF StartTunnel, FreeFds
  <2> QED BY <1>2, <2>1 DEF StartTunnel, TypeOK
<1>3. ASSUME NEW t \in Tunnels, ReceiveBatch(t)
      PROVE  TypeOK'
  <2>1. PICK n \in 1 .. MaxBatch : \E objs \in [1 .. n -> Object] :
          received' = received + n /\ batch' = [batch EXCEPT ![t] = objs]
    BY <1>3 DEF ReceiveBatch
  <2>2. PICK objs \in [1 .. n -> Object] :
          received' = received + n /\ batch' = [batch EXCEPT ![t] = objs]
    BY <2>1
  <2>3. n \in Nat
    BY <2>1, ServerAssumption
  <2>4. objs \in Seq(Object)
    BY <2>2, <2>3, IsASeq
  <2>5. batch' \in [Tunnels -> Seq(Object)] /\ received' \in Nat
    BY <2>2, <2>3, <2>4 DEF TypeOK
  <2> QED BY <1>3, <2>5 DEF ReceiveBatch, TypeOK
<1>4. ASSUME NEW t \in Tunnels, DecodeNothing(t)
      PROVE  TypeOK'
  BY <1>4 DEF DecodeNothing, TypeOK
<1>5. ASSUME NEW t \in Tunnels, Connect(t)
      PROVE  TypeOK'
  <2> DEFINE k == Head(batch[t]).key
  <2>1. k \in Keys /\ sockFd[t] \in Fds
    BY <1>5, HeadIsPacket DEF Connect, TunnelsHold
  <2>2. fds' \in [Fds -> Tunnels \cup {None, "raw"}]
    BY <1>5, SocketsTakeFree DEF Connect, TypeOK
  <2>3. pc' \in [Tunnels -> {"recv", "object", "send", "drop"}]
    BY <1>5 DEF Connect, TypeOK
  <2>4. CASE k \in sockMap[t]
    BY <1>5, <2>2, <2>3, <2>4 DEF Connect, TypeOK
  <2>5. CASE k \notin sockMap[t]
    <3>1. /\ resp' = AddToResponseSocketMap(t, k)
          /\ sockMap' = [sockMap EXCEPT ![t] = @ \cup {k}]
          /\ opened' = [opened EXCEPT ![t] = @ \cup {k}]
          /\ todo' = todo \/ todo' \subseteq DOMAIN resp'
          /\ alive' = alive \/ alive' = FALSE
          /\ pending' = pending \/ pending' = [pending EXCEPT ![k] = None]
      BY <1>5, <2>5 DEF Connect
    <3> HIDE DEF k
    <3>2. DOMAIN resp' = DOMAIN resp \cup {k} /\ resp' \in [DOMAIN resp' -> Entry]
      BY <2>1, <3>1, AddedEntry
    <3>3. sockMap' \in [Tunnels -> SUBSET Keys] /\ opened' \in [Tunnels -> SUBSET Keys]
      BY <2>1, <3>1 DEF TypeOK
    <3>4. todo' \subseteq DOMAIN resp' /\ DOMAIN resp' \subseteq Keys
      BY <2>1, <3>1, <3>2 DEF TypeOK
    <3>5. alive' \in BOOLEAN /\ pending' \in [Keys -> {None, "data", "rst"}]
      BY <2>1, <3>1 DEF TypeOK
    <3>6. UNCHANGED <<open, closed, sockFd, batch, cur, curVal, rpc, replies,
                      responses, ub, received, reset>>
      BY <1>5 DEF Connect
    <3> QED BY <2>2, <2>3, <3>2, <3>3, <3>4, <3>5, <3>6 DEF TypeOK
  <2> QED BY <2>4, <2>5
<1>6. ASSUME NEW t \in Tunnels, ConnectFails(t)
      PROVE  TypeOK'
  <2>1. fds' \in [Fds -> Tunnels \cup {None, "raw"}]
    BY <1>6, SocketsTakeFree DEF ConnectFails, TypeOK
  <2> QED BY <1>6, <2>1 DEF ConnectFails, TypeOK
<1>7. ASSUME NEW t \in Tunnels, Send(t)
      PROVE  TypeOK'
  <2>1. batch[t] \in Seq(Object) /\ batch[t] # <<>>
    BY <1>7 DEF Send, TypeOK, BatchInHand
  <2>2. Tail(batch[t]) \in Seq(Object)
    BY <2>1
  <2>3. batch' \in [Tunnels -> Seq(Object)]
    BY <1>7, <2>2 DEF Send, TypeOK
  <2> QED BY <1>7, <2>3 DEF Send, TypeOK
<1>8. ASSUME NEW t \in Tunnels, SendFails(t)
      PROVE  TypeOK'
  BY <1>8 DEF SendFails, TypeOK
<1>9. ASSUME NEW t \in Tunnels, DropResponseSocket(t)
      PROVE  TypeOK'
  <2> DEFINE k == Head(batch[t]).key
  <2>1. k \in Keys
    BY <1>9, HeadIsPacket DEF DropResponseSocket
  <2>2. /\ resp' = [j \in DOMAIN resp \ {k} |-> resp[j]]
        /\ todo' = todo \ {k}
        /\ reset' = reset \cup {k}
        /\ alive' = (alive /\ cur # k)
    BY <1>9 DEF DropResponseSocket
  <2> HIDE DEF k
  <2>3. DOMAIN resp' \subseteq Keys /\ resp' \in [DOMAIN resp' -> Entry]
        /\ todo' \subseteq DOMAIN resp'
    BY <2>2 DEF TypeOK
  <2>4. reset' \subseteq Keys /\ alive' \in BOOLEAN
    BY <2>1, <2>2 DEF TypeOK
  <2> QED BY <1>9, <2>3, <2>4 DEF DropResponseSocket, TypeOK
<1>10. ASSUME NEW k \in Keys, ServerResponds(k)
       PROVE  TypeOK'
  BY <1>10 DEF ServerResponds, TypeOK
<1>11. CASE StartPass
  BY <1>11, AdvanceType DEF StartPass, TypeOK
<1>12. CASE CopyElement
  <2>1. alive => resp[cur] \in Entry
    BY <1>12 DEF CopyElement, IteratorPlaced, TypeOK
  <2> QED BY <1>12, <2>1 DEF CopyElement, TypeOK
<1>13. CASE ReceiveTimesOut
  <2>1. todo' \subseteq todo /\ cur' \in Keys \cup {None} /\ alive' \in BOOLEAN
        /\ rpc' \in {"pass", "at", "recv", "blocked"} /\ ub' \in BOOLEAN
    BY <1>13, AdvanceType DEF ReceiveTimesOut, TypeOK
  <2> QED BY <1>13, <2>1 DEF ReceiveTimesOut, TypeOK
<1>14. CASE HandleResponse
  <2>1. todo' \subseteq todo /\ cur' \in Keys \cup {None} /\ alive' \in BOOLEAN
        /\ rpc' \in {"pass", "at", "recv", "blocked"} /\ ub' \in BOOLEAN
    BY <1>14, AdvanceType DEF HandleResponse, TypeOK
  <2>2. cur \in Keys \ todo /\ curVal \in Entry
    BY <1>14 DEF HandleResponse, IteratorPlaced
  <2>3. DOMAIN resp' \subseteq Keys /\ resp' \in [DOMAIN resp' -> Entry]
        /\ todo' \subseteq DOMAIN resp' /\ reset' \subseteq Keys
    BY <1>14, <2>1, <2>2 DEF HandleResponse, TypeOK
  <2>4. pending' \in [Keys -> {None, "data", "rst"}]
    BY <1>14 DEF HandleResponse, TypeOK
  <2>5. \A r \in replies' : r.key \in Keys /\ r.opener \in Tunnels
                              /\ r.to \in Tunnels \cup {None, "raw"}
    BY <1>14, <2>2 DEF HandleResponse, TypeOK, Entry
  <2> QED BY <1>14, <2>1, <2>3, <2>4, <2>5 DEF HandleResponse, TypeOK
<1>15. CASE SendBlocks
  <2>1. cur \in Keys /\ curVal \in Entry
    BY <1>15 DEF SendBlocks, IteratorPlaced
  <2>2. \A r \in replies' : r.key \in Keys /\ r.opener \in Tunnels
                              /\ r.to \in Tunnels \cup {None, "raw"}
    BY <1>15, <2>1 DEF SendBlocks, TypeOK, Entry
  <2> QED BY <1>15, <2>2 DEF SendBlocks, TypeOK
<1>16. CASE SendReturns
  <2>1. todo' \subseteq todo /\ cur' \in Keys \cup {None} /\ alive' \in BOOLEAN
        /\ rpc' \in {"pass", "at", "recv", "blocked"} /\ ub' \in BOOLEAN
    BY <1>16, AdvanceType DEF SendReturns, TypeOK
  <2>2. cur \in Keys \ todo
    BY <1>16 DEF SendReturns, IteratorPlaced
  <2>3. DOMAIN resp' \subseteq Keys /\ resp' \in [DOMAIN resp' -> Entry]
        /\ todo' \subseteq DOMAIN resp' /\ reset' \subseteq Keys
    BY <1>16, <2>1, <2>2 DEF SendReturns, TypeOK
  <2>4. pending' \in [Keys -> {None, "data", "rst"}]
    BY <1>16 DEF SendReturns, TypeOK
  <2> QED BY <1>16, <2>1, <2>3, <2>4 DEF SendReturns, TypeOK
<1> QED BY <1>1, <1>2, <1>3, <1>4, <1>5, <1>6, <1>7, <1>8, <1>9, <1>10, <1>11,
           <1>12, <1>13, <1>14, <1>15, <1>16
        DEF Next, TunnelThread, ResponseThread

----------------------------------------------------------------------------
(* The parts of the inductive invariant *)

\* Every action leaves a thread with the object its position needs.
LEMMA BatchStep ==
  ASSUME TablesAgree, [Next]_vars
  PROVE  BatchInHand'
<1> USE DEF TablesAgree, responseVars, iterVars, tunnelVars
<1>1. CASE UNCHANGED <<pc, batch>>
  BY <1>1 DEF BatchInHand
<1>2. ASSUME NEW t \in Tunnels, ReceiveBatch(t)
      PROVE  BatchInHand'
  <2>1. PICK n \in 1 .. MaxBatch : \E objs \in [1 .. n -> Object] :
          batch' = [batch EXCEPT ![t] = objs]
    BY <1>2 DEF ReceiveBatch
  <2>2. PICK objs \in [1 .. n -> Object] : batch' = [batch EXCEPT ![t] = objs]
    BY <2>1
  <2>3. n \in Nat /\ 1 \in 1 .. n
    BY <2>1, ServerAssumption
  <2>4. objs # <<>>
    BY <2>2, <2>3
  <2> QED BY <1>2, <2>2, <2>4 DEF ReceiveBatch, BatchInHand, TypeOK
<1>3. ASSUME NEW t \in Tunnels, DecodeNothing(t) \/ ConnectFails(t) \/ SendFails(t)
                                \/ DropResponseSocket(t)
      PROVE  BatchInHand'
  BY <1>3 DEF DecodeNothing, ConnectFails, SendFails, DropResponseSocket,
              BatchInHand, TypeOK
<1>4. ASSUME NEW t \in Tunnels, Connect(t)
      PROVE  BatchInHand'
  <2>1. Head(batch[t]) \in Packet
    BY <1>4, HeadIsPacket DEF Connect
  <2> QED BY <1>4, <2>1 DEF Connect, BatchInHand, TypeOK
<1>5. ASSUME NEW t \in Tunnels, Send(t)
      PROVE  BatchInHand'
  <2>1. batch[t] \in Seq(Object) /\ batch[t] # <<>> /\ Head(batch[t]) \in Packet
    BY <1>5 DEF Send, BatchInHand, TypeOK
  <2>2. CASE Head(batch[t]).rst
    BY <1>5, <2>1, <2>2 DEF Send, BatchInHand, TypeOK
  <2>3. CASE ~Head(batch[t]).rst
    <3>1. Len(Tail(batch[t])) = Len(batch[t]) - 1 /\ Len(batch[t]) \in Nat
      BY <2>1, HeadTailProperties, LenProperties
    <3>2. Tail(batch[t]) = <<>> => Len(Tail(batch[t])) = 0
      BY <2>1, HeadTailProperties, EmptySeq
    <3>3. Len(batch[t]) # 1 => Tail(batch[t]) # <<>>
      BY <3>1, <3>2
    <3> QED BY <1>5, <2>3, <3>3 DEF Send, BatchInHand, TypeOK
  <2> QED BY <2>2, <2>3
<1> QED BY <1>1, <1>2, <1>3, <1>4, <1>5
        DEF Next, TunnelThread, ResponseThread, vars, StartTunnel, ServerResponds,
            StartPass, CopyElement, ReceiveTimesOut, HandleResponse, SendBlocks,
            SendReturns

\* Every action leaves the iterator where a valid one can be.
LEMMA IteratorStep ==
  ASSUME TablesAgree, [Next]_vars
  PROVE  IteratorPlaced'
<1> USE DEF TablesAgree, responseVars, iterVars, tunnelVars
<1>1. CASE UNCHANGED <<resp, todo, cur, curVal, alive, rpc, ub>>
  BY <1>1 DEF IteratorPlaced
<1>2. ASSUME NEW t \in Tunnels, Connect(t)
      PROVE  IteratorPlaced'
  <2>1. UNCHANGED <<cur, curVal, rpc, ub>> /\ (alive' => alive)
    BY <1>2 DEF Connect
  <2>2. DOMAIN resp \subseteq DOMAIN resp'
    BY <1>2 DEF Connect, AddToResponseSocketMap
  <2>3. rpc # "pass" => todo' = todo \/ cur \notin todo'
    BY <1>2 DEF Connect
  <2> QED BY <2>1, <2>2, <2>3 DEF IteratorPlaced
<1>3. ASSUME NEW t \in Tunnels, DropResponseSocket(t)
      PROVE  IteratorPlaced'
  BY <1>3 DEF DropResponseSocket, IteratorPlaced
<1>4. CASE StartPass
  BY <1>4, AdvanceType DEF StartPass, IteratorPlaced, TypeOK
<1>5. CASE CopyElement
  BY <1>5 DEF CopyElement, IteratorPlaced, TypeOK
<1>6. CASE ReceiveTimesOut
  <2>1. CASE alive
    <3>1. todo \subseteq Keys /\ Advance(todo) /\ UNCHANGED resp
      BY <1>6, <2>1 DEF ReceiveTimesOut, TypeOK
    <3>2. rpc' # "pass" => rpc' = "at" /\ cur' \in todo \ todo'
      BY <3>1, AdvanceType
    <3> QED BY <3>1, <3>2 DEF IteratorPlaced, TypeOK
  <2>2. CASE ~alive
    BY <1>6, <2>2 DEF ReceiveTimesOut, IteratorPlaced
  <2> QED BY <2>1, <2>2
<1>7. CASE HandleResponse
  <2>1. CASE alive
    <3>1. todo \subseteq Keys /\ Advance(todo) /\ DOMAIN resp \ {cur} \subseteq DOMAIN resp'
      BY <1>7, <2>1 DEF HandleResponse, TypeOK
    <3>2. rpc' # "pass" => rpc' = "at" /\ cur' \in todo \ todo'
      BY <3>1, AdvanceType
    <3>3. cur \notin todo
      BY <1>7 DEF HandleResponse, IteratorPlaced
    <3> QED BY <3>1, <3>2, <3>3 DEF IteratorPlaced, TypeOK
  <2>2. CASE ~alive
    BY <1>7, <2>2 DEF HandleResponse, IteratorPlaced
  <2> QED BY <2>1, <2>2
<1>8. CASE SendBlocks
  BY <1>8 DEF SendBlocks, IteratorPlaced
<1>9. CASE SendReturns
  <2>1. CASE alive
    <3>1. todo \subseteq Keys /\ Advance(todo) /\ DOMAIN resp \ {cur} \subseteq DOMAIN resp'
      BY <1>9, <2>1 DEF SendReturns, TypeOK
    <3>2. rpc' # "pass" => rpc' = "at" /\ cur' \in todo \ todo'
      BY <3>1, AdvanceType
    <3>3. cur \notin todo
      BY <1>9 DEF SendReturns, IteratorPlaced
    <3> QED BY <3>1, <3>2, <3>3 DEF IteratorPlaced, TypeOK
  <2>2. CASE ~alive
    BY <1>9, <2>2 DEF SendReturns, IteratorPlaced
  <2> QED BY <2>1, <2>2
<1> QED BY <1>1, <1>2, <1>3, <1>4, <1>5, <1>6, <1>7, <1>8, <1>9
        DEF Next, TunnelThread, ResponseThread, vars, StartTunnel, ServerResponds,
            ReceiveBatch, DecodeNothing, ConnectFails, Send, SendFails

\* Every action leaves the running tunnels their descriptors and the copies
\* of their sockets good.
LEMMA HoldStep ==
  ASSUME TablesAgree, [Next]_vars
  PROVE  TunnelsHold'
<1> USE DEF TablesAgree, responseVars, iterVars, tunnelVars
<1>1. CASE /\ UNCHANGED <<open, closed, sockFd, fds, sockMap>>
           /\ \A k \in DOMAIN resp' : k \in DOMAIN resp /\ resp'[k] = resp[k]
           /\ rpc' = "recv" /\ ~ub' => rpc = "recv" /\ ~ub /\ curVal' = curVal
  BY <1>1 DEF TunnelsHold, CopyOf
<1>2. ASSUME NEW t \in Tunnels, StartTunnel(t)
      PROVE  TunnelsHold'
  <2>1. LowestFree \in Fds /\ fds[LowestFree] = None
    BY <1>2, LowestFreeIsFree DEF StartTunnel, FreeFds
  <2>2. /\ open' = open \cup {t} /\ t \notin open \cup closed
        /\ sockFd' = [sockFd EXCEPT ![t] = LowestFree]
        /\ fds' = [fds EXCEPT ![LowestFree] = t]
        /\ UNCHANGED <<closed, sockMap, resp, rpc, ub, curVal>>
    BY <1>2 DEF StartTunnel
  <2>3. \A u \in open : u # t /\ u # None
    BY <2>2, ServerAssumption DEF TypeOK
  <2>4. \A u \in open' : sockFd'[u] \in Fds /\ fds'[sockFd'[u]] = u
    BY <2>1, <2>2, <2>3 DEF TunnelsHold, TypeOK
  <2>5. ASSUME NEW e, CopyOf(e)
        PROVE  CopyOf(e)'
    BY <2>2, <2>3, <2>5 DEF CopyOf, TypeOK
  <2> QED BY <2>2, <2>4, <2>5 DEF TunnelsHold, TypeOK, CopyOf
<1>3. ASSUME NEW t \in Tunnels, Connect(t)
      PROVE  TunnelsHold'
  <2> DEFINE k == Head(batch[t]).key
  <2>1. k \in Keys /\ t \in open /\ sockFd[t] \in Fds
    BY <1>3, HeadIsPacket DEF Connect, TunnelsHold
  <2>2. UNCHANGED <<open, closed, sockFd, rpc, ub, curVal>>
    BY <1>3 DEF Connect
  <2>3. \A u \in open : sockFd[u] \in Fds /\ fds'[sockFd[u]] = u
    <3>1. \A u \in open : u # None
      BY ServerAssumption DEF TypeOK
    <3>2. fds' = FdsWithSockets /\ fds \in [Fds -> Tunnels \cup {None, "raw"}]
      BY <1>3 DEF Connect, TypeOK
    <3>3. \A f \in Fds : fds[f] # None => FdsWithSockets[f] = fds[f]
      BY <3>2, SocketsTakeFree
    <3>4. \A u \in open : sockFd[u] \in Fds /\ fds[sockFd[u]] = u
      BY DEF TunnelsHold
    <3> SUFFICES ASSUME NEW u \in open
                 PROVE  sockFd[u] \in Fds /\ fds'[sockFd[u]] = u
      OBVIOUS
    <3>5. FdsWithSockets[sockFd[u]] = fds[sockFd[u]]
      BY <3>1, <3>3, <3>4
    <3> QED BY <3>2, <3>4, <3>5
  <2>4. \A u \in Tunnels \ open : sockMap'[u] = {}
    <3>1. sockMap' = sockMap \/ sockMap' = [sockMap EXCEPT ![t] = @ \cup {k}]
      BY <1>3 DEF Connect
    <3>2. \A u \in Tunnels \ open : sockMap[u] = {} /\ u # t
      BY <2>1 DEF TunnelsHold
    <3> QED BY <3>1, <3>2 DEF TypeOK
  <2>5. resp' = resp \/ resp' = AddToResponseSocketMap(t, k)
    BY <1>3 DEF Connect
  <2> HIDE DEF k
  <2>6. \A j \in DOMAIN resp' : CopyOf(resp'[j])
    <3>1. CASE resp' = resp
      BY <3>1 DEF TunnelsHold
    <3>2. CASE resp' = AddToResponseSocketMap(t, k)
      <4>1. /\ DOMAIN resp' = DOMAIN resp \cup {k}
            /\ \A j \in DOMAIN resp : resp'[j] = resp[j]
            /\ k \notin DOMAIN resp => resp'[k] = [tunnel |-> t, fd |-> sockFd[t]]
        BY <2>1, <3>2, AddedEntry
      <4>2. CopyOf([tunnel |-> t, fd |-> sockFd[t]])
        BY <2>1 DEF CopyOf
      <4>3. \A j \in DOMAIN resp : CopyOf(resp[j])
        BY DEF TunnelsHold
      <4> QED BY <4>1, <4>2, <4>3
    <3> QED BY <2>5, <3>1, <3>2
  <2> QED BY <2>2, <2>3, <2>4, <2>6 DEF TunnelsHold, CopyOf
<1>4. ASSUME NEW t \in Tunnels, ConnectFails(t)
      PROVE  TunnelsHold'
  <2>1. /\ open' = open \ {t} /\ closed' = closed \cup {t} /\ t \in open
        /\ sockMap' = [sockMap EXCEPT ![t] = {}]
        /\ fds' = [FdsWithSockets EXCEPT ![sockFd[t]] = None]
        /\ UNCHANGED <<sockFd, resp, rpc, ub, curVal>>
    BY <1>4 DEF ConnectFails
  <2>2. \A u \in open' : sockFd[u] \in Fds /\ fds'[sockFd[u]] = u
    <3>1. \A u \in open : /\ u # None /\ sockFd[u] \in Fds /\ fds[sockFd[u]] = u
                          /\ FdsWithSockets[sockFd[u]] = u
      BY ServerAssumption, SocketsTakeFree DEF TypeOK, TunnelsHold
    <3>2. FdsWithSockets \in [Fds -> Tunnels \cup {None, "raw"}]
      BY SocketsTakeFree DEF TypeOK
    <3>3. \A u \in open' : sockFd[u] # sockFd[t]
      BY <2>1, <3>1
    <3> QED BY <2>1, <3>1, <3>2, <3>3
  <2>3. ASSUME NEW e, CopyOf(e)
        PROVE  CopyOf(e)'
    BY <2>1, <2>3 DEF CopyOf
  <2> QED BY <2>1, <2>2, <2>3 DEF TunnelsHold, TypeOK, CopyOf
<1>5. CASE CopyElement
  <2>1. CASE alive
    <3>1. CopyOf(resp[cur])
      BY <1>5, <2>1 DEF CopyElement, TunnelsHold, IteratorPlaced
    <3> QED BY <1>5, <2>1, <3>1 DEF CopyElement, TunnelsHold, CopyOf
  <2>2. CASE ~alive
    BY <1>5, <2>2 DEF CopyElement, TunnelsHold, CopyOf
  <2> QED BY <2>1, <2>2
<1>6. CASE StartPass \/ ReceiveTimesOut \/ HandleResponse \/ SendReturns
  <2>1. rpc' = "recv" => ub'
    <3>1. todo \subseteq Keys /\ DOMAIN resp \subseteq Keys
      BY DEF TypeOK
    <3> QED BY <1>6, <3>1, AdvanceType
            DEF StartPass, ReceiveTimesOut, HandleResponse, SendReturns
  <2> QED BY <1>1, <1>6, <2>1
          DEF StartPass, ReceiveTimesOut, HandleResponse, SendReturns
<1>7. ASSUME NEW t \in Tunnels, DropResponseSocket(t)
      PROVE  TunnelsHold'
  BY <1>1, <1>7 DEF DropResponseSocket
<1> QED BY <1>1, <1>2, <1>3, <1>4, <1>5, <1>6, <1>7
        DEF Next, TunnelThread, ResponseThread, vars, ServerResponds,
            ReceiveBatch, DecodeNothing, Send, SendFails, SendBlocks

\* Every action leaves the entries of the table with those that opened them.
LEMMA EntriesStep ==
  ASSUME TablesAgree, [Next]_vars
  PROVE  EntriesBelong'
<1> USE DEF TablesAgree, responseVars, iterVars, tunnelVars
<1>1. TunnelsHold'
  BY HoldStep
<1>2. SUFFICES ASSUME NEW k \in DOMAIN resp'
               PROVE  /\ k \in opened'[resp'[k].tunnel]
                      /\ resp'[k].tunnel \in open' => k \in sockMap'[resp'[k].tunnel]
  BY <1>1, <1>2 DEF EntriesBelong, TunnelsHold, CopyOf
<1>3. CASE /\ k \in DOMAIN resp /\ resp'[k] = resp[k]
           /\ open' \subseteq open /\ UNCHANGED <<sockMap, opened>>
  BY <1>3 DEF EntriesBelong
<1>4. ASSUME NEW t \in Tunnels, StartTunnel(t)
      PROVE  /\ k \in opened'[resp'[k].tunnel]
             /\ resp'[k].tunnel \in open' => k \in sockMap'[resp'[k].tunnel]
  <2>1. resp[k].tunnel \in open \cup closed /\ resp[k].tunnel # t
    BY <1>4 DEF StartTunnel, TunnelsHold, CopyOf
  <2> QED BY <1>4, <2>1 DEF StartTunnel, EntriesBelong
<1>5. ASSUME NEW t \in Tunnels, Connect(t)
      PROVE  /\ k \in opened'[resp'[k].tunnel]
             /\ resp'[k].tunnel \in open' => k \in sockMap'[resp'[k].tunnel]
  <2> DEFINE h == Head(batch[t]).key
  <2>1. h \in Keys /\ t \in open /\ sockFd[t] \in Fds
    BY <1>5, HeadIsPacket DEF Connect, TunnelsHold
  <2>2. CASE h \in sockMap[t]
    BY <1>3, <1>5, <2>2 DEF Connect
  <2>3. CASE h \notin sockMap[t]
    <3>1. /\ resp' = AddToResponseSocketMap(t, h)
          /\ sockMap' = [sockMap EXCEPT ![t] = @ \cup {h}]
          /\ opened' = [opened EXCEPT ![t] = @ \cup {h}]
          /\ open' = open
      BY <1>5, <2>3 DEF Connect
    <3> HIDE DEF h
    <3>2. /\ DOMAIN resp' = DOMAIN resp \cup {h}
          /\ \A j \in DOMAIN resp : resp'[j] = resp[j]
          /\ h \notin DOMAIN resp => resp'[h] = [tunnel |-> t, fd |-> sockFd[t]]
      BY <2>1, <3>1, AddedEntry
    <3>3. CASE k \in DOMAIN resp
      <4>1. resp[k].tunnel \in Tunnels
        BY <3>3 DEF TypeOK, Entry
      <4>2. k \in opened[resp[k].tunnel]
            /\ (resp[k].tunnel \in open => k \in sockMap[resp[k].tunnel])
        BY <3>3 DEF EntriesBelong
      <4> QED BY <3>1, <3>2, <3>3, <4>1, <4>2 DEF TypeOK
    <3>4. CASE k \notin DOMAIN resp
      <4>1. k = h /\ resp'[k].tunnel = t
        BY <3>2, <3>4
      <4> QED BY <3>1, <4>1 DEF TypeOK
    <3> QED BY <3>3, <3>4
  <2> QED BY <2>2, <2>3
<1>6. ASSUME NEW t \in Tunnels, ConnectFails(t)
      PROVE  /\ k \in opened'[resp'[k].tunnel]
             /\ resp'[k].tunnel \in open' => k \in sockMap'[resp'[k].tunnel]
  BY <1>6 DEF ConnectFails, EntriesBelong, TypeOK
<1>7. ASSUME NEW t \in Tunnels, DropResponseSocket(t)
      PROVE  /\ k \in opened'[resp'[k].tunnel]
             /\ resp'[k].tunnel \in open' => k \in sockMap'[resp'[k].tunnel]
  BY <1>3, <1>7 DEF DropResponseSocket
<1>8. CASE HandleResponse \/ SendReturns
  BY <1>3, <1>8 DEF HandleResponse, SendReturns
<1> QED BY <1>3, <1>4, <1>5, <1>6, <1>7, <1>8
        DEF Next, TunnelThread, ResponseThread, vars, ServerResponds, ReceiveBatch,
            DecodeNothing, Send, SendFails, StartPass, CopyElement, ReceiveTimesOut,
            SendBlocks

----------------------------------------------------------------------------
(* The theorems *)

\* A server that has just started.
LEMMA InitAgree == Init => TablesAgree
<1> SUFFICES ASSUME Init PROVE TablesAgree
  OBVIOUS
<1>1. TypeOK
  <2>1. DOMAIN resp = {} /\ resp \in [DOMAIN resp -> Entry]
    BY DEF Init
  <2>2. batch \in [Tunnels -> Seq(Object)]
    BY DEF Init
  <2>3. /\ pending \in [Keys -> {None, "data", "rst"}]
        /\ sockMap \in [Tunnels -> SUBSET Keys]
        /\ opened \in [Tunnels -> SUBSET Keys]
        /\ fds \in [Fds -> Tunnels \cup {None, "raw"}]
        /\ sockFd \in [Tunnels -> Fds \cup {None}]
        /\ pc \in [Tunnels -> {"recv", "object", "send", "drop"}]
    BY DEF Init
  <2> QED BY <2>1, <2>2, <2>3 DEF Init, TypeOK
<1>2. BatchInHand /\ IteratorPlaced
  BY DEF Init, BatchInHand, IteratorPlaced
<1>3. TunnelsHold /\ EntriesBelong
  BY DEF Init, TunnelsHold, EntriesBelong
<1> QED BY <1>1, <1>2, <1>3 DEF TablesAgree

\* The shared table, the iterator of the response thread, the maps of the
\* tunnel threads and the descriptors agree, however the threads interleave.
THEOREM TablesCorrect == Spec => []TablesAgree
<1>1. TablesAgree /\ [Next]_vars => TablesAgree'
  BY TypeStep, BatchStep, IteratorStep, HoldStep, EntriesStep DEF TablesAgree
<1> QED BY <1>1, InitAgree, PTL DEF Spec

\* An entry of response_sockets_ belongs to a tunnel that opened its flow and,
\* while that tunnel runs, holds its descriptor.
THEOREM EntriesCorrect == Spec => []EntriesBelong
<1>1. TablesAgree => EntriesBelong
  BY DEF TablesAgree
<1> QED BY <1>1, TablesCorrect, PTL

\* A response goes to the tunnel that opened its flow, or that tunnel has
\* closed, though the response thread works with a copy of the socket.
THEOREM RepliesCorrect == Spec => []RepliesReachOpener
<1>1. Init => RepliesReachOpener
  BY DEF Init, RepliesReachOpener
<1>2. ASSUME TablesAgree, RepliesReachOpener, [Next]_vars
      PROVE  RepliesReachOpener'
  <2> USE DEF responseVars, iterVars, tunnelVars
  <2>1. CASE UNCHANGED replies /\ closed \subseteq closed'
    BY <1>2, <2>1 DEF RepliesReachOpener
  <2>2. CASE HandleResponse \/ SendBlocks
    <3>1. CopyOf(curVal)
      BY <1>2, <2>2 DEF TablesAgree, TunnelsHold, HandleResponse, SendBlocks
    <3>2. curVal.tunnel \in open => fds[curVal.fd] = curVal.tunnel
      BY <1>2, <3>1 DEF TablesAgree, TunnelsHold, CopyOf
    <3> QED BY <1>2, <2>2, <3>1, <3>2 DEF HandleResponse, SendBlocks,
                                          RepliesReachOpener, CopyOf
  <2> QED BY <1>2, <2>1, <2>2
          DEF Next, TunnelThread, ResponseThread, vars, StartTunnel, ServerResponds,
              ReceiveBatch, DecodeNothing, Connect, ConnectFails, Send, SendFails,
              DropResponseSocket, StartPass, CopyElement, ReceiveTimesOut,
              SendReturns
<1> QED BY <1>1, <1>2, TablesCorrect, PTL DEF Spec

\* A flow a running tunnel has a socket for keeps its way back to this tunnel,
\* unless a reset took it away or another tunnel uses the same flow.
THEOREM ReturnPathCorrect == Spec => []ReturnPathKept
<1>1. Init => ReturnPathKept
  BY DEF Init, ReturnPathKept
<1>2. ASSUME TablesAgree, TablesAgree', ReturnPathKept, [Next]_vars
      PROVE  ReturnPathKept'
  <2> USE DEF responseVars, iterVars, tunnelVars
  <2> SUFFICES ASSUME NEW t \in open', NEW k \in sockMap'[t]
               PROVE  \/ k \in DOMAIN resp' /\ resp'[k].tunnel = t
                      \/ k \in reset'
                      \/ \E u \in Tunnels \ {t} : k \in opened'[u]
    BY DEF ReturnPathKept
  <2> DEFINE Goal == \/ k \in DOMAIN resp' /\ resp'[k].tunnel = t
                     \/ k \in reset'
                     \/ \E u \in Tunnels \ {t} : k \in opened'[u]
  <2>1. CASE UNCHANGED <<open, sockMap, opened, resp, reset>>
    BY <1>2, <2>1 DEF ReturnPathKept
  <2>2. ASSUME NEW s \in Tunnels, StartTunnel(s) PROVE Goal
    <3>1. t # s
      BY <1>2, <2>2 DEF StartTunnel, TablesAgree, TunnelsHold
    <3> QED BY <1>2, <2>2, <3>1 DEF StartTunnel, ReturnPathKept
  <2>3. ASSUME NEW s \in Tunnels, Connect(s) PROVE Goal
    <3> DEFINE h == Head(batch[s]).key
    <3>1. h \in Keys /\ sockFd[s] \in Fds /\ open' = open /\ reset' = reset
      BY <1>2, <2>3, HeadIsPacket DEF Connect, TablesAgree, TunnelsHold
    <3>2. CASE h \in sockMap[s]
      BY <1>2, <2>1, <2>3, <3>2 DEF Connect
    <3>3. CASE h \notin sockMap[s]
      <4>1. /\ resp' = AddToResponseSocketMap(s, h)
            /\ sockMap' = [sockMap EXCEPT ![s] = @ \cup {h}]
            /\ opened' = [opened EXCEPT ![s] = @ \cup {h}]
        BY <2>3, <3>3 DEF Connect
      <4> HIDE DEF h
      <4>2. DOMAIN resp' = DOMAIN resp \cup {h} /\ \A j \in DOMAIN resp : resp'[j] = resp[j]
        BY <1>2, <3>1, <4>1, AddedEntry DEF TablesAgree
      <4>3. CASE k \in sockMap[t]
        <5>1. \A u \in Tunnels : opened[u] \subseteq opened'[u]
          BY <1>2, <4>1 DEF TablesAgree, TypeOK
        <5> QED BY <1>2, <3>1, <4>2, <4>3, <5>1 DEF ReturnPathKept
      <4>4. CASE k \notin sockMap[t]
        <5>1. k = h /\ t = s /\ k \in DOMAIN resp'
          BY <1>2, <3>1, <4>1, <4>2, <4>4 DEF TablesAgree, TypeOK
        <5>2. resp'[k].tunnel \in Tunnels /\ k \in opened'[resp'[k].tunnel]
          BY <1>2, <5>1 DEF TablesAgree, TypeOK, Entry, EntriesBelong
        <5> QED BY <5>1, <5>2
      <4> QED BY <4>3, <4>4
    <3> QED BY <3>2, <3>3
  <2>4. ASSUME NEW s \in Tunnels, ConnectFails(s) PROVE Goal
    <3>1. t \in open /\ t # s /\ sockMap'[t] = sockMap[t]
          /\ UNCHANGED <<resp, reset, opened>>
      BY <1>2, <2>4 DEF ConnectFails, TablesAgree, TypeOK
    <3> QED BY <1>2, <3>1 DEF ReturnPathKept
  <2>5. ASSUME NEW s \in Tunnels, DropResponseSocket(s) PROVE Goal
    BY <1>2, <2>5 DEF DropResponseSocket, ReturnPathKept
  <2>6. CASE HandleResponse \/ SendReturns
    BY <1>2, <2>6 DEF HandleResponse, SendReturns, ReturnPathKept
  <2> QED BY <1>2, <2>1, <2>2, <2>3, <2>4, <2>5, <2>6
          DEF Next, TunnelThread, ResponseThread, vars, ServerResponds, ReceiveBatch,
              DecodeNothing, Send, SendFails, StartPass, CopyElement, ReceiveTimesOut,
              SendBlocks
<1> QED BY <1>1, <1>2, TablesCorrect, PTL DEF Spec
=============================================================================
