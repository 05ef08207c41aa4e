---------------------------- MODULE ServerDriver ----------------------------
(***************************************************************************)
(* QVPNServerDriver: the threads that serve the tunnels, the thread that   *)
(* carries responses back, and the table response_sockets_ between them    *)
(* (qvpn_driver.hpp).                                                      *)
(*                                                                         *)
(* A tunnel is one process_socket_ thread.  It takes a batch of objects    *)
(* from safe_recv and handles them one by one; decode_data makes of each   *)
(* either nothing ("part") or a packet of some flow.  A flow is a          *)
(* QVPNServerSocketData: it names addresses and ports of the two ends and  *)
(* not the tunnel, so two tunnels may use the same one.                    *)
(*                                                                         *)
(* Socket objects are plain descriptors: copying one shares it, destroying *)
(* one does not close it, and the kernel hands out the lowest free one.    *)
(***************************************************************************)
EXTENDS Integers, Sequences, FiniteSets

CONSTANTS
  Tunnels,       \* authorised connections that reach process_socket_
  Keys,          \* flows: QVPNServerSocketData values
  MaxFd,         \* descriptors the process may have open
  MaxBatch,      \* objects safe_recv may return at once
  MaxObjects,    \* bound on the objects received
  MaxResponses,  \* bound on the packets servers send back
  None

ASSUME ServerAssumption ==
  /\ MaxFd \in Nat /\ MaxBatch \in Nat /\ MaxObjects \in Nat
  /\ MaxResponses \in Nat
  /\ None \notin Tunnels \cup Keys
  /\ "raw" \notin Tunnels

Fds    == 0 .. MaxFd - 1
Packet == [key: Keys, rst: BOOLEAN]
PartObject == [key |-> None, rst |-> FALSE]
Object == Packet \cup {PartObject}

VARIABLES
  fds,        \* who holds each descriptor: a tunnel, "raw", or None
  open,       \* tunnels whose thread runs
  closed,     \* tunnels whose thread has ended
  sockFd,     \* descriptor of each tunnel's client socket
  pc,         \* where each tunnel thread is
  batch,      \* objects left of the batch in hand
  sockMap,    \* socket_map of each thread: the flows it has a socket for
  resp,       \* response_sockets_: flow -> copy of the client socket
  todo,       \* flows the response thread has still to visit in this pass
  cur,        \* element its iterator points at
  curVal,     \* the copy it took of that element
  alive,      \* FALSE once the iterator is no longer a valid one
  rpc,        \* where the response thread is
  pending,    \* what has come back for a flow and was not yet read
  ub,         \* TRUE once an invalid iterator has been used
  received,   \* count of objects received, bounded by MaxObjects
  responses,  \* count of responses, bounded by MaxResponses
  reset,      \* history: flows some reset packet took out of the table
  opened,     \* history: flows each tunnel ever had a socket for
  replies     \* history: where responses were written to

tunnelVars   == <<open, closed, sockFd, pc, batch, sockMap>>
iterVars     == <<cur, curVal, alive, rpc>>
responseVars == <<todo, iterVars, responses, replies>>
vars == <<fds, tunnelVars, resp, responseVars, pending, ub, received, reset,
          opened>>

----------------------------------------------------------------------------
(* Descriptors *)

FreeFds == {f \in Fds : fds[f] = None}

LowestFree == CHOOSE f \in FreeFds : \A g \in FreeFds : f <= g

\* create_raw_socket and then create_socket: both descriptors stay in use,
\* for nothing closes a raw or a shadow socket again.
FdsWithSockets ==
  LET one  == LowestFree
      rest == FreeFds \ {one}
      two  == CHOOSE f \in rest : \A g \in rest : f <= g
  IN  IF FreeFds = {} THEN fds
      ELSE IF rest = {} THEN [fds EXCEPT ![one] = "raw"]
      ELSE [fds EXCEPT ![one] = "raw", ![two] = "raw"]

----------------------------------------------------------------------------
(* Tunnel threads *)

Init ==
  /\ fds = [f \in Fds |-> None]
  /\ open = {} /\ closed = {}
  /\ sockFd = [t \in Tunnels |-> None]
  /\ pc = [t \in Tunnels |-> "recv"]
  /\ batch = [t \in Tunnels |-> <<>>]
  /\ sockMap = [t \in Tunnels |-> {}]
  /\ resp = [k \in {} |-> None]
  /\ todo = {} /\ cur = None /\ curVal = None /\ alive = FALSE
  /\ rpc = "pass"
  /\ pending = [k \in Keys |-> None]
  /\ ub = FALSE
  /\ received = 0 /\ responses = 0
  /\ reset = {}
  /\ opened = [t \in Tunnels |-> {}]
  /\ replies = {}

\* listen_and_connect_socket_ has authorised a client and starts its thread.
StartTunnel(t) ==
  /\ ~ub
  /\ t \notin open \cup closed
  /\ FreeFds # {}
  /\ open' = open \cup {t}
  /\ sockFd' = [sockFd EXCEPT ![t] = LowestFree]
  /\ fds' = [fds EXCEPT ![LowestFree] = t]
  /\ UNCHANGED <<closed, pc, batch, sockMap, resp, responseVars,
                 pending, ub, received, reset, opened>>

\* safe_recv returns a batch of objects.
ReceiveBatch(t) ==
  /\ ~ub
  /\ t \in open /\ pc[t] = "recv"
  /\ \E n \in 1 .. MaxBatch : \E objs \in [1 .. n -> Object] :
       /\ received + n <= MaxObjects
       /\ received' = received + n
       /\ batch' = [batch EXCEPT ![t] = objs]
  /\ pc' = [pc EXCEPT ![t] = "object"]
  /\ UNCHANGED <<fds, open, closed, sockFd, sockMap, resp, responseVars,
                 pending, ub, reset, opened>>

\* decode_data has no packet to give: the iteration returns at once, and the
\* objects behind this one are gone with the batch.
DecodeNothing(t) ==
  /\ ~ub
  /\ t \in open /\ pc[t] = "object"
  /\ Head(batch[t]) = PartObject
  /\ pc' = [pc EXCEPT ![t] = "recv"]
  /\ batch' = [batch EXCEPT ![t] = <<>>]
  /\ UNCHANGED <<fds, open, closed, sockFd, sockMap, resp, responseVars,
                 pending, ub, received, reset, opened>>

\* Mutant of AddToResponseSocketMap: the raw socket is taken for the client's.
AddToResponseSocketMapSwapped(t, k) ==
  [j \in DOMAIN resp \cup {k} |->
     IF j \in DOMAIN resp THEN resp[j] ELSE [tunnel |-> t, fd |-> LowestFree]]

\* add_to_response_socket_map: an entry that is there is left as it is.
AddToResponseSocketMap(t, k) ==
  [j \in DOMAIN resp \cup {k} |->
     IF j \in DOMAIN resp THEN resp[j] ELSE [tunnel |-> t, fd |-> sockFd[t]]]

\* Mutant of Connect: the flow enters socket_map but not response_sockets_.
ConnectNoReturnPath(t) ==
  LET k == Head(batch[t]).key
  IN  /\ ~ub
      /\ t \in open /\ pc[t] = "object"
      /\ Head(batch[t]) # PartObject
      /\ FreeFds # {}
      /\ fds' = FdsWithSockets
      /\ pc' = [pc EXCEPT ![t] = "send"]
      /\ sockMap' = [sockMap EXCEPT ![t] = @ \cup {k}]
      /\ opened' = [opened EXCEPT ![t] = @ \cup {k}]
      /\ UNCHANGED <<open, closed, sockFd, batch, resp, responseVars, pending,
                     ub, received, reset>>

\* connect_to_server_impl_, everything succeeds.  New sockets are made for
\* every packet; those of a flow that already has one are never used.  A
\* new entry holds a new raw socket, in which nothing waits (a response thread
\* that copied the erased entry still reads the old one).  The insertion may
\* rehash the table under the response thread's iterator: the iterator goes
\* on and meets any of the other elements, or it is invalid.
Connect(t) ==
  LET k == Head(batch[t]).key
  IN  /\ ~ub
      /\ t \in open /\ pc[t] = "object"
      /\ Head(batch[t]) # PartObject
      /\ FreeFds # {}
      /\ fds' = FdsWithSockets
      /\ pc' = [pc EXCEPT ![t] = "send"]
      /\ IF k \in sockMap[t]
         THEN UNCHANGED <<sockMap, opened, resp, todo, alive, pending>>
         ELSE /\ sockMap' = [sockMap EXCEPT ![t] = @ \cup {k}]
              /\ opened' = [opened EXCEPT ![t] = @ \cup {k}]
              /\ resp' = AddToResponseSocketMap(t, k)
              /\ IF k \in DOMAIN resp \/ (cur = k /\ rpc \in {"recv", "blocked"})
                 THEN UNCHANGED pending
                 ELSE pending' = [pending EXCEPT ![k] = None]
              /\ IF k \in DOMAIN resp \/ rpc = "pass"
                 THEN UNCHANGED <<todo, alive>>
                 ELSE \/ todo' \in SUBSET (DOMAIN resp' \ {cur}) /\ UNCHANGED alive
                      \/ alive' = FALSE /\ UNCHANGED todo
      /\ UNCHANGED <<open, closed, sockFd, batch, cur, curVal, rpc, responses,
                     replies, ub, received, reset>>

\* Mutant of ConnectFails: the socket is closed and the thread goes on.
ConnectFailsGoesOn(t) ==
  /\ ~ub
  /\ t \in open /\ pc[t] = "object"
  /\ Head(batch[t]) # PartObject
  /\ fds' = [FdsWithSockets EXCEPT ![sockFd[t]] = None]
  /\ batch' = [batch EXCEPT ![t] = <<>>]
  /\ pc' = [pc EXCEPT ![t] = "recv"]
  /\ UNCHANGED <<open, closed, sockFd, sockMap, resp, responseVars, pending, ub,
                 received, reset, opened>>

\* connect_to_server_impl_ fails to create, bind or connect the raw socket.
\* The key then lacks the server's address and is not found in socket_map,
\* even for a flow that is in it, so the tunnel is closed: its descriptor is
\* free again, but the entries of response_sockets_ keep a copy of it.
ConnectFails(t) ==
  /\ ~ub
  /\ t \in open /\ pc[t] = "object"
  /\ Head(batch[t]) # PartObject
  /\ fds' = [FdsWithSockets EXCEPT ![sockFd[t]] = None]
  /\ open' = open \ {t}
  /\ closed' = closed \cup {t}
  /\ sockMap' = [sockMap EXCEPT ![t] = {}]
  /\ batch' = [batch EXCEPT ![t] = <<>>]
  /\ pc' = [pc EXCEPT ![t] = "recv"]
  /\ UNCHANGED <<sockFd, resp, responseVars, pending, ub, received,
                 reset, opened>>

\* The packet is handed to the raw socket: on to the next object, or, for a
\* reset packet, to the table.
Send(t) ==
  /\ ~ub
  /\ t \in open /\ pc[t] = "send"
  /\ IF Head(batch[t]).rst
     THEN pc' = [pc EXCEPT ![t] = "drop"] /\ UNCHANGED batch
     ELSE /\ batch' = [batch EXCEPT ![t] = Tail(@)]
          /\ pc' = [pc EXCEPT ![t] = IF Len(batch[t]) = 1 THEN "recv"
                                                         ELSE "object"]
  /\ UNCHANGED <<fds, open, closed, sockFd, sockMap, resp, responseVars,
                 pending, ub, received, reset, opened>>

\* The raw send fails: the rest of the batch is given up.
SendFails(t) ==
  /\ ~ub
  /\ t \in open /\ pc[t] = "send"
  /\ batch' = [batch EXCEPT ![t] = <<>>]
  /\ pc' = [pc EXCEPT ![t] = "recv"]
  /\ UNCHANGED <<fds, open, closed, sockFd, sockMap, resp, responseVars,
                 pending, ub, received, reset, opened>>

\* drop_response_socket_(key): the flow loses its return path, but stays in
\* socket_map.  The iterator of the response thread may point at it.  A
\* response that waited in the raw socket stays there: nobody reads it any
\* more, but for a response thread that had copied the entry.
DropResponseSocket(t) ==
  LET k == Head(batch[t]).key
  IN  /\ ~ub
      /\ t \in open /\ pc[t] = "drop"
      /\ resp' = [j \in DOMAIN resp \ {k} |-> resp[j]]
      /\ todo' = todo \ {k}
      /\ alive' = (alive /\ cur # k)
      /\ reset' = reset \cup {k}
      /\ batch' = [batch EXCEPT ![t] = <<>>]
      /\ pc' = [pc EXCEPT ![t] = "recv"]
      /\ UNCHANGED <<fds, open, closed, sockFd, sockMap, cur, curVal, rpc,
                     responses, replies, pending, ub, received, opened>>

----------------------------------------------------------------------------
(* Responses *)

\* A server answers: its packet waits in the raw socket of the flow's entry.
ServerResponds(k) ==
  /\ ~ub
  /\ responses < MaxResponses
  /\ k \in DOMAIN resp /\ pending[k] = None
  /\ \E kind \in {"data", "rst"} : pending' = [pending EXCEPT ![k] = kind]
  /\ responses' = responses + 1
  /\ UNCHANGED <<fds, tunnelVars, resp, todo, iterVars, replies, ub, received,
                 reset, opened>>

\* The iterator moves on: to one of the elements of left, or to end().
Advance(left) ==
  \/ \E k \in left : /\ cur' = k /\ alive' = TRUE /\ rpc' = "at"
                     /\ todo' = left \ {k}
  \/ /\ left = {}
     /\ cur' = None /\ alive' = FALSE /\ rpc' = "pass"
     /\ todo' = {}

\* for (it = begin(); ...): a new pass over the table.
StartPass ==
  /\ ~ub
  /\ rpc = "pass"
  /\ DOMAIN resp # {}
  /\ Advance(DOMAIN resp)
  /\ UNCHANGED <<fds, tunnelVars, resp, curVal, responses, replies, pending, ub,
                 received, reset, opened>>

\* auto [key, val] = *it: copy the element, which must still be there.
CopyElement ==
  /\ ~ub
  /\ rpc = "at"
  /\ IF alive THEN curVal' = resp[cur] /\ rpc' = "recv" /\ UNCHANGED ub
              ELSE ub' = TRUE /\ UNCHANGED <<curVal, rpc>>
  /\ UNCHANGED <<fds, tunnelVars, resp, todo, cur, alive, responses, replies,
                 pending, received, reset, opened>>

\* Mutant of ReceiveTimesOut: the iterator is not advanced.
ReceiveTimesOutStays ==
  /\ ~ub
  /\ rpc = "recv" /\ pending[cur] = None
  /\ UNCHANGED vars

\* The raw receive times out and ++it follows.
ReceiveTimesOut ==
  /\ ~ub
  /\ rpc = "recv" /\ pending[cur] = None
  /\ IF alive THEN Advance(todo) /\ UNCHANGED ub
              ELSE ub' = TRUE /\ UNCHANGED <<cur, alive, rpc, todo>>
  /\ curVal' = None
  /\ UNCHANGED <<fds, tunnelVars, resp, responses, replies, pending, received,
                 reset, opened>>

\* Mutant of HandleResponse: the reply goes to any tunnel that is open.
HandleResponseAny ==
  /\ ~ub
  /\ rpc = "recv" /\ pending[cur] # None /\ alive
  /\ \E t \in open :
       replies' = replies \cup {[key |-> cur, opener |-> curVal.tunnel, to |-> t]}
  /\ pending' = [pending EXCEPT ![cur] = None]
  /\ Advance(todo)
  /\ curVal' = None
  /\ UNCHANGED <<fds, tunnelVars, resp, responses, ub, received, reset, opened>>

\* vpn_response_loop_iteration: encode_and_send to the copied client socket,
\* whose descriptor may by now be free or someone else's; then erase(it) for
\* a reset packet, ++it for any other.
HandleResponse ==
  /\ ~ub
  /\ rpc = "recv" /\ pending[cur] # None
  /\ replies' = replies \cup {[key |-> cur, opener |-> curVal.tunnel,
                               to |-> fds[curVal.fd]]}
  /\ pending' = [pending EXCEPT ![cur] = None]
  /\ IF alive THEN Advance(todo) /\ UNCHANGED ub
              ELSE ub' = TRUE /\ UNCHANGED <<cur, alive, rpc, todo>>
  /\ IF alive /\ pending[cur] = "rst"
     THEN /\ resp' = [j \in DOMAIN resp \ {cur} |-> resp[j]]
          /\ reset' = reset \cup {cur}
     ELSE UNCHANGED <<resp, reset>>
  /\ curVal' = None
  /\ UNCHANGED <<fds, tunnelVars, responses, received, opened>>

\* The send of encode_and_send has no time limit: to a client that has
\* stopped reading it does not return once the buffers of the connection
\* are full, and the one thread waits in it on behalf of all clients.
SendBlocks ==
  /\ ~ub
  /\ rpc = "recv" /\ pending[cur] # None
  /\ fds[curVal.fd] \in Tunnels
  /\ replies' = replies \cup {[key |-> cur, opener |-> curVal.tunnel,
                               to |-> fds[curVal.fd]]}
  /\ rpc' = "blocked"
  /\ UNCHANGED <<fds, tunnelVars, resp, todo, cur, curVal, alive, responses,
                 pending, ub, received, reset, opened>>

\* The client reads again or its connection breaks: the iteration goes on
\* with an iterator that is as old as the wait was long.
SendReturns ==
  /\ ~ub
  /\ rpc = "blocked"
  /\ pending' = [pending EXCEPT ![cur] = None]
  /\ IF alive THEN Advance(todo) /\ UNCHANGED ub
              ELSE ub' = TRUE /\ UNCHANGED <<cur, alive, rpc, todo>>
  /\ IF alive /\ pending[cur] = "rst"
     THEN /\ resp' = [j \in DOMAIN resp \ {cur} |-> resp[j]]
          /\ reset' = reset \cup {cur}
     ELSE UNCHANGED <<resp, reset>>
  /\ curVal' = None
  /\ UNCHANGED <<fds, tunnelVars, responses, replies, received, opened>>

\* What the response thread does by itself.
ResponseThread ==
  StartPass \/ CopyElement \/ ReceiveTimesOut \/ HandleResponse \/ SendBlocks

TunnelThread(t) ==
  \/ ReceiveBatch(t) \/ DecodeNothing(t)
  \/ Connect(t) \/ ConnectFails(t)
  \/ Send(t) \/ SendFails(t) \/ DropResponseSocket(t)

Next ==
  \/ \E t \in Tunnels : StartTunnel(t) \/ TunnelThread(t)
  \/ \E k \in Keys : ServerResponds(k)
  \/ ResponseThread
  \/ SendReturns

Spec == Init /\ [][Next]_vars

\* Every receive of the response thread ends within the one second that
\* apply_settings gives its socket, so the thread always gets on.  Nothing
\* makes a send that blocks return.
FairSpec == Spec /\ WF_vars(ResponseThread)

----------------------------------------------------------------------------
(* What must hold *)

Entry == [tunnel: Tunnels, fd: Fds]

\* Every variable keeps its type, and thread positions match what is in hand.
TypeOK ==
  /\ fds \in [Fds -> Tunnels \cup {None, "raw"}]
  /\ open \subseteq Tunnels /\ closed \subseteq Tunnels
  /\ sockFd \in [Tunnels -> Fds \cup {None}]
  /\ pc \in [Tunnels -> {"recv", "object", "send", "drop"}]
  /\ batch \in [Tunnels -> Seq(Object)]
  /\ sockMap \in [Tunnels -> SUBSET Keys]
  /\ DOMAIN resp \subseteq Keys /\ resp \in [DOMAIN resp -> Entry]
  /\ todo \subseteq DOMAIN resp
  /\ cur \in Keys \cup {None} /\ curVal \in Entry \cup {None}
  /\ alive \in BOOLEAN /\ ub \in BOOLEAN
  /\ rpc \in {"pass", "at", "recv", "blocked"}
  /\ pending \in [Keys -> {None, "data", "rst"}]
  /\ received \in Nat /\ responses \in Nat
  /\ reset \subseteq Keys
  /\ opened \in [Tunnels -> SUBSET Keys]
  /\ \A r \in replies : r.key \in Keys /\ r.opener \in Tunnels
                          /\ r.to \in Tunnels \cup {None, "raw"}

\* A flow that a running tunnel has a socket for keeps its return path, to
\* this very tunnel, unless a reset packet took it away or another tunnel
\* uses the same addresses and ports.
ReturnPathKept ==
  \A t \in open : \A k \in sockMap[t] :
    \/ k \in DOMAIN resp /\ resp[k].tunnel = t
    \/ k \in reset
    \/ \E u \in Tunnels \ {t} : k \in opened[u]

\* An entry of response_sockets_ belongs to a tunnel that opened the flow,
\* and as long as that tunnel runs it holds the tunnel's own descriptor,
\* which is still open.
EntriesBelong ==
  \A k \in DOMAIN resp :
    LET t == resp[k].tunnel
    IN  /\ k \in opened[t]
        /\ t \in open => /\ k \in sockMap[t]
                         /\ resp[k].fd = sockFd[t]
                         /\ fds[sockFd[t]] = t

\* A response is written to the tunnel that opened its flow.  Only after that
\* tunnel has closed can it go elsewhere: nowhere, to a later tunnel, or into
\* a raw socket, whichever has got the descriptor.
RepliesReachOpener ==
  \A r \in replies : r.to = r.opener \/ r.opener \in closed

\* A response that waits in the raw socket of a flow is read and written to
\* the client socket of the flow's entry, however the tunnels change the table
\* meanwhile: the response thread skips no flow for ever.  What may come
\* between: a reset takes the flow out of the table and the response is thrown
\* away unread; an invalid iterator ends the defined behaviour; one client
\* leaves the thread waiting in its send for ever.  Whether the descriptor it
\* is written to is still the client's is what RepliesReachOpener says.
ResponseCarriedBack ==
  []<>(rpc # "blocked") =>
    \A k \in Keys :
      (pending[k] # None) ~> (pending[k] = None \/ k \notin DOMAIN resp \/ ub)

----------------------------------------------------------------------------
(* The strengthening that makes the properties above inductive *)

\* A thread that is past its receive has an object in hand, and past the
\* decoding that object is a packet.
BatchInHand ==
  \A t \in Tunnels :
    /\ pc[t] # "recv" => batch[t] # <<>>
    /\ pc[t] \in {"send", "drop"} => Head(batch[t]) \in Packet

\* While a pass is under way the iterator is at a flow that is not among
\* those left, and that is in the table as long as the iterator is valid.
IteratorPlaced ==
  rpc # "pass" => /\ cur \in Keys \ todo
                  /\ alive => cur \in DOMAIN resp
                  /\ rpc = "recv" /\ ~ub => curVal \in Entry

\* A copy of a client socket names a tunnel that was started, and for a
\* running tunnel its descriptor.
CopyOf(e) ==
  /\ e.tunnel \in open \cup closed
  /\ e.tunnel \in open => e.fd = sockFd[e.tunnel]

\* A running tunnel holds its descriptor; only running tunnels have flows;
\* the copies in the table and in the hand of the response thread are good.
TunnelsHold ==
  /\ open \cap closed = {}
  /\ \A t \in open : sockFd[t] \in Fds /\ fds[sockFd[t]] = t
  /\ \A t \in Tunnels \ open : sockMap[t] = {}
  /\ \A k \in DOMAIN resp : CopyOf(resp[k])
  /\ rpc = "recv" /\ ~ub => CopyOf(curVal)

\* The inductive invariant of the proofs: the shared table, the iterator over
\* it and the tunnels' own state agree in every reachable state.
TablesAgree ==
  TypeOK /\ BatchInHand /\ IteratorPlaced /\ TunnelsHold /\ EntriesBelong
=============================================================================
