--------------------------- MODULE SessionProofs ---------------------------
(***************************************************************************)
(* Proofs about Session for any number of clients, connections, tries and  *)
(* faults: who gets a tunnel, and what a successful init is worth.         *)
(***************************************************************************)
EXTENDS Session, SequenceTheorems, TLAPS

----------------------------------------------------------------------------
(* The inductive invariant *)

\* Connection x is one that its client has made.
Made(x) == x[2] <= made[x[1]]

\* The listening thread has a connection in hand whenever it is not waiting
\* for one, and past the checks it is the connection of a known user.
ListenerHolds ==
  /\ lpc # "accept" => lconn \in Conns /\ Made(lconn)
  /\ lpc \in {"answer", "spawn"} => lconn[1] \in Known

\* The server has seen no connection that its client has not made, so the next
\* one a client makes is new to the server.
ServerKnowsMade ==
  /\ \A i \in 1 .. Len(backlog) : Made(backlog[i])
  /\ \A x \in toClient : Made(x)

\* A ServerHello under way is already a promise: the thread runs or is about
\* to be started, as long as the connection carries data.
HelloMeansServed ==
  \A x \in toClient \cap Carrying : x \in threads \/ (lpc = "spawn" /\ lconn = x)

SessionInv ==
  /\ TypeOK
  /\ ListenerHolds
  /\ ServerKnowsMade
  /\ OnlyKnownUsers
  /\ HelloMeansServed
  /\ InitMeansServed

----------------------------------------------------------------------------
(* Types *)

\* A fault, or none, keeps the count within its bound.
LEMMA FaultType ==
  ASSUME TypeOK, Fault \/ UNCHANGED faults
  PROVE  faults' \in 0 .. MaxFaults
  BY SessionAssumption DEF TypeOK, Fault

\* The sockets reconnect may try are sockets.
LEMMA SocketType ==
  ASSUME TypeOK, NEW c \in Clients, NEW s \in SocketsToConnect(c)
  PROVE  s \in [family: {"IPv4", "IPv6", "undefined"}, used: BOOLEAN]
<1>1. AddrFamily(LocalAddrSize) \in {"IPv4", "IPv6", "undefined"}
  BY DEF AddrFamily, LocalAddrSize
<1>2. NewSocket \in [family: {"IPv4", "IPv6", "undefined"}, used: BOOLEAN]
  BY <1>1 DEF NewSocket
<1>3. sock[c] \in [family: {"IPv4", "IPv6", "undefined"}, used: BOOLEAN]
  BY DEF TypeOK
<1> QED BY <1>2, <1>3 DEF SocketsToConnect

\* A new connection is one of the connections its client may make, and none
\* that it has made.
LEMMA NextConnection ==
  ASSUME TypeOK, NEW c \in Clients, made[c] < MaxConns
  PROVE  /\ <<c, made[c] + 1>> \in Conns
         /\ made[c] \in Nat
         /\ \A x \in Conns : Made(x) => x # <<c, made[c] + 1>>
<1>1. made[c] \in 0 .. MaxConns
  BY DEF TypeOK
<1>2. made[c] + 1 \in 1 .. MaxConns /\ made[c] \in Nat
  BY <1>1, SessionAssumption
<1>3. ASSUME NEW x \in Conns, Made(x), x = <<c, made[c] + 1>>
      PROVE  FALSE
  <2>1. x[1] = c /\ x[2] = made[c] + 1
    BY <1>3
  <2>2. made[c] + 1 <= made[c]
    BY <1>3, <2>1 DEF Made
  <2> QED BY <1>2, <2>2
<1> QED BY <1>2, <1>3 DEF Conns

\* connect succeeds: types.
LEMMA NewConnectionType ==
  ASSUME TypeOK, NEW c \in Clients,
         NEW s \in [family: {"IPv4", "IPv6", "undefined"}, used: BOOLEAN],
         NewConnection(c, s)
  PROVE  TypeOK'
<1> USE DEF NewConnection, captureVars
<1>1. <<c, made[c] + 1>> \in Conns
  BY NextConnection
<1>2. made' \in [Clients -> 0 .. MaxConns]
  BY SessionAssumption DEF TypeOK
<1>3. sock' \in [Clients -> [family: {"IPv4", "IPv6", "undefined"},
                             used: BOOLEAN]]
  <2> DEFINE r == [s EXCEPT !.used = TRUE]
  <2>1. r \in [family: {"IPv4", "IPv6", "undefined"}, used: BOOLEAN]
    OBVIOUS
  <2>2. sock' = [sock EXCEPT ![c] = r]
    OBVIOUS
  <2> HIDE DEF r
  <2> QED BY <2>1, <2>2 DEF TypeOK
<1>4. backlog' \in Seq(Conns) /\ alive' \subseteq Conns
  <2> DEFINE new == <<c, made[c] + 1>>
  <2>1. new \in Conns /\ backlog' = Append(backlog, new)
        /\ alive' = (alive \ {Current(c)}) \cup {new}
    BY <1>1
  <2> HIDE DEF new
  <2> QED BY <2>1 DEF TypeOK
<1>5. /\ cpc' \in [Clients -> {"connect", "reconnect", "init", "wait", "run"}]
      /\ initOk' \in [Clients -> BOOLEAN]
  BY DEF TypeOK
<1> QED BY <1>2, <1>3, <1>4, <1>5 DEF TypeOK

\* Every step of a client, the listening thread or the network keeps the
\* types, given that the listening thread has a connection in hand.
LEMMA TypeStep ==
  ASSUME TypeOK, ListenerHolds, [Next]_vars
  PROVE  TypeOK'
<1> USE DEF clientVars, captureVars, serverVars
<1>1. CASE UNCHANGED vars
  BY <1>1 DEF TypeOK, vars
<1>2. ASSUME NEW c \in Clients, Connect(c)
      PROVE  TypeOK'
  BY <1>2, NewConnectionType DEF Connect, TypeOK
<1>3. ASSUME NEW c \in Clients, Reconnect(c)
      PROVE  TypeOK'
  BY <1>3, NewConnectionType, SocketType DEF Reconnect
<1>4. ASSUME NEW c \in Clients, ReconnectFails(c)
      PROVE  TypeOK'
  <2>1. PICK s \in SocketsToConnect(c) : sock' = [sock EXCEPT ![c] = s]
    BY <1>4 DEF ReconnectFails
  <2>2. sock' \in [Clients -> [family: {"IPv4", "IPv6", "undefined"},
                               used: BOOLEAN]]
    BY <2>1, SocketType DEF TypeOK
  <2>3. tries' \in [Clients -> 0 .. ReconnectNumber]
    BY <1>4, SessionAssumption DEF ReconnectFails, TypeOK
  <2>4. faults' \in 0 .. MaxFaults
    BY <1>4, FaultType DEF ReconnectFails
  <2> QED BY <1>4, <2>2, <2>3, <2>4 DEF ReconnectFails, TypeOK
<1>5. ASSUME NEW c \in Clients, StartCapture(c)
      PROVE  capture' \in [Clients -> {"none", "off", "on"}]
  BY <1>5 DEF StartCapture, TypeOK
<1>6. ASSUME NEW c \in Clients, ReconnectGivesUp(c)
      PROVE  TypeOK'
  BY <1>5, <1>6 DEF ReconnectGivesUp, TypeOK
<1>7. ASSUME NEW c \in Clients, SendHello(c)
      PROVE  TypeOK'
  <2>1. made[c] \in 0 .. MaxConns
    BY DEF TypeOK
  <2>2. toServer' \subseteq Conns
    BY <1>7 DEF SendHello, TypeOK, Carrying
  <2> QED BY <1>7, <2>2 DEF SendHello, TypeOK
<1>8. ASSUME NEW c \in Clients, ReceiveHello(c)
      PROVE  TypeOK'
  BY <1>5, <1>8 DEF ReceiveHello, TypeOK
<1>9. ASSUME NEW c \in Clients, SendFails(c)
      PROVE  TypeOK'
  BY <1>9, SessionAssumption DEF SendFails, TypeOK
<1>10. ASSUME NEW c \in Clients, DivertHello(c)
       PROVE  TypeOK'
  BY <1>10 DEF DivertHello, TypeOK
<1>11. ASSUME NEW c \in Clients, ConnectFails(c)
       PROVE  TypeOK'
  BY <1>11, FaultType, SessionAssumption DEF ConnectFails, TypeOK
<1>12. CASE Accept
  BY <1>12 DEF Accept, TypeOK
<1>13. CASE ReceiveClientHello
  BY <1>13 DEF ReceiveClientHello, Refuse, ServerCloses, TypeOK
<1>14. CASE ReceiveNothing
  BY <1>14 DEF ReceiveNothing, Refuse, ServerCloses, TypeOK
<1>15. CASE SendServerHello
  BY <1>15 DEF SendServerHello, Refuse, ServerCloses, Carrying, TypeOK
<1>16. CASE Spawn
  BY <1>16 DEF Spawn, TypeOK, ListenerHolds
<1>17. CASE ReceivePartOfHello
  BY <1>17, FaultType DEF ReceivePartOfHello, Refuse, ServerCloses, TypeOK
<1>18. ASSUME NEW x \in Conns, TunnelCloses(x)
       PROVE  TypeOK'
  BY <1>18, FaultType DEF TunnelCloses, ServerCloses, TypeOK
<1>19. ASSUME NEW x \in Conns, Cut(x)
       PROVE  TypeOK'
  BY <1>19, FaultType DEF Cut, TypeOK
<1>20. ASSUME NEW x \in Conns, FallsSilent(x)
       PROVE  TypeOK'
  BY <1>20, FaultType DEF FallsSilent, TypeOK
<1>21. ASSUME NEW c \in Clients, ClientNotices(c)
       PROVE  TypeOK'
  BY <1>21 DEF ClientNotices, TypeOK
<1> QED BY <1>1, <1>2, <1>3, <1>4, <1>6, <1>7, <1>8, <1>9, <1>10, <1>11,
           <1>12, <1>13, <1>14, <1>15, <1>16, <1>17, <1>18, <1>19, <1>20, <1>21
        DEF Next, ClientThreads, ClientStep, ListenerStep

----------------------------------------------------------------------------
(* Steps *)

\* A step that makes no connection and leaves the connections of the server,
\* the hellos and the threads alone, except that connections may break and
\* hellos be lost, keeps what the server knows and what it promised.
LEMMA ClientSideKeeps ==
  ASSUME SessionInv, TypeOK',
         UNCHANGED <<made, serverVars>>,
         toClient' \subseteq toClient, Carrying' \subseteq Carrying,
         \A c \in Clients :
           initOk'[c] => initOk[c] \/ Current(c) \in toClient
  PROVE  SessionInv'
<1> USE DEF SessionInv, serverVars
<1>1. ListenerHolds' /\ ServerKnowsMade' /\ OnlyKnownUsers'
  BY DEF ListenerHolds, ServerKnowsMade, OnlyKnownUsers, Made
<1>2. HelloMeansServed'
  BY DEF HelloMeansServed
<1>3. InitMeansServed'
  BY DEF InitMeansServed, HelloMeansServed, Current
<1> QED BY <1>1, <1>2, <1>3

\* connect succeeds: no promise of the server is about the new connection.
LEMMA NewConnectionKeeps ==
  ASSUME SessionInv, TypeOK', NEW c \in Clients, NEW s, NewConnection(c, s)
  PROVE  SessionInv'
<1> USE DEF SessionInv
<1> DEFINE new == <<c, made[c] + 1>>
<1>1. /\ new \in Conns /\ made[c] \in Nat
      /\ \A x \in Conns : Made(x) => x # new
  BY NextConnection DEF NewConnection
<1>2. /\ Carrying' \subseteq Carrying \cup {new} /\ made' = [made EXCEPT ![c] = @ + 1]
      /\ backlog' = Append(backlog, new)
      /\ initOk' = [initOk EXCEPT ![c] = FALSE]
      /\ UNCHANGED <<lpc, lconn, threads, toClient>>
  BY DEF NewConnection, Carrying
<1>3. new[1] = c /\ new[2] = made[c] + 1
  OBVIOUS
<1> HIDE DEF new
<1>4. ASSUME NEW x \in Conns
      PROVE  Made(x) => x[2] <= made'[x[1]]
  <2>1. x[1] \in Clients /\ x[2] \in Int
    BY SessionAssumption DEF Conns
  <2>2. made[x[1]] \in Int /\ made'[x[1]] >= made[x[1]]
    BY <1>1, <1>2, <2>1, SessionAssumption DEF TypeOK
  <2>3. made'[x[1]] \in Int
    BY <1>1, <1>2, <2>1, SessionAssumption DEF TypeOK
  <2> QED BY <2>1, <2>2, <2>3 DEF Made
<1>5. new[2] <= made'[new[1]]
  BY <1>1, <1>2, <1>3 DEF TypeOK
<1>6. ListenerHolds' /\ OnlyKnownUsers'
  BY <1>2, <1>4 DEF ListenerHolds, OnlyKnownUsers, Made
<1>7. ServerKnowsMade'
  <2>1. backlog \in Seq(Conns) /\ toClient \subseteq Conns
    BY DEF TypeOK
  <2>2. ASSUME NEW i \in 1 .. Len(backlog')
        PROVE  backlog'[i][2] <= made'[backlog'[i][1]]
    <3>1. CASE i <= Len(backlog)
      <4>1. i \in 1 .. Len(backlog) /\ backlog'[i] = backlog[i]
        BY <1>1, <1>2, <2>1, <2>2, <3>1
      <4>2. backlog[i] \in Conns /\ Made(backlog[i])
        BY <2>1, <4>1 DEF ServerKnowsMade
      <4> QED BY <1>4, <4>1, <4>2
    <3>2. CASE ~(i <= Len(backlog))
      <4>1. backlog'[i] = new
        BY <1>1, <1>2, <2>1, <2>2, <3>2
      <4> QED BY <1>5, <4>1
    <3> QED BY <3>1, <3>2
  <2>3. ASSUME NEW x \in toClient
        PROVE  x[2] <= made'[x[1]]
    BY <1>4, <2>1 DEF ServerKnowsMade
  <2> QED BY <1>2, <2>2, <2>3 DEF ServerKnowsMade, Made
<1>8. HelloMeansServed'
  BY <1>1, <1>2 DEF HelloMeansServed, ServerKnowsMade, TypeOK
<1>9. InitMeansServed'
  <2> SUFFICES ASSUME NEW d \in Clients, initOk'[d], <<d, made'[d]>> \in Carrying'
               PROVE  \/ <<d, made'[d]>> \in threads
                      \/ lpc = "spawn" /\ lconn = <<d, made'[d]>>
    BY <1>2 DEF InitMeansServed, Current
  <2>1. d # c
    BY <1>2 DEF TypeOK
  <2>2. made'[d] = made[d] /\ initOk[d]
    BY <1>2, <2>1 DEF TypeOK
  <2>3. <<d, made[d]>> # new
    BY <2>1, <1>3
  <2>4. <<d, made[d]>> \in Carrying
    BY <1>2, <2>2, <2>3
  <2> QED BY <2>2, <2>4 DEF InitMeansServed, Current
<1> QED BY <1>6, <1>7, <1>8, <1>9

\* A failed authorisation: the listening thread promised nothing yet.
LEMMA RefuseKeeps ==
  ASSUME SessionInv, TypeOK', Refuse, lpc # "spawn", UNCHANGED <<made, initOk>>,
         UNCHANGED <<toClient, silent>>
  PROVE  SessionInv'
<1> USE DEF SessionInv, Refuse, ServerCloses, Carrying
<1>1. ListenerHolds' /\ ServerKnowsMade' /\ OnlyKnownUsers'
  BY DEF ListenerHolds, ServerKnowsMade, OnlyKnownUsers, Made
<1>2. HelloMeansServed'
  BY DEF HelloMeansServed
<1>3. InitMeansServed'
  BY DEF InitMeansServed, Current
<1> QED BY <1>1, <1>2, <1>3

\* Every step keeps the invariant.
LEMMA SessionStep ==
  ASSUME SessionInv, [Next]_vars
  PROVE  SessionInv'
<1> USE DEF clientVars, captureVars, Carrying
<1>1. TypeOK /\ ListenerHolds /\ TypeOK'
  BY TypeStep DEF SessionInv
<1>2. CASE UNCHANGED vars
  BY <1>1, <1>2, ClientSideKeeps DEF vars
<1>3. ASSUME NEW c \in Clients, Connect(c) \/ Reconnect(c)
      PROVE  SessionInv'
  BY <1>1, <1>3, NewConnectionKeeps DEF Connect, Reconnect
<1>4. ASSUME NEW c \in Clients,
             \/ ReconnectFails(c) \/ ReconnectGivesUp(c) \/ SendHello(c)
             \/ SendFails(c) \/ DivertHello(c) \/ ConnectFails(c)
      PROVE  SessionInv'
  <2>1. /\ UNCHANGED <<made, initOk, serverVars, alive, silent>>
        /\ toClient' \subseteq toClient
    BY <1>4 DEF ReconnectFails, ReconnectGivesUp, SendHello, SendFails,
                DivertHello, ConnectFails
  <2> QED BY <1>1, <2>1, ClientSideKeeps
<1>5. ASSUME NEW c \in Clients, ReceiveHello(c)
      PROVE  SessionInv'
  <2>1. /\ UNCHANGED <<made, serverVars, alive, silent>>
        /\ toClient' \subseteq toClient
    BY <1>5 DEF ReceiveHello
  <2>2. \A d \in Clients : initOk'[d] => initOk[d] \/ Current(d) \in toClient
    BY <1>1, <1>5 DEF ReceiveHello, TypeOK
  <2> QED BY <1>1, <2>1, <2>2, ClientSideKeeps
<1>6. CASE Accept
  <2>1. backlog \in Seq(Conns) /\ backlog # <<>>
    BY <1>1, <1>6 DEF Accept, TypeOK
  <2>2. /\ lconn' \in Conns /\ lconn' = backlog[1]
        /\ Len(backlog') = Len(backlog) - 1
        /\ \A i \in 1 .. Len(backlog') : backlog'[i] = backlog[i + 1]
    BY <1>6, <2>1 DEF Accept
  <2>3. ListenerHolds' /\ ServerKnowsMade'
    BY <1>6, <2>1, <2>2
       DEF Accept, SessionInv, ListenerHolds, ServerKnowsMade, Made
  <2>4. OnlyKnownUsers' /\ HelloMeansServed' /\ InitMeansServed'
    BY <1>6 DEF Accept, SessionInv, OnlyKnownUsers, HelloMeansServed,
                InitMeansServed, Current
  <2> QED BY <1>1, <2>3, <2>4 DEF SessionInv
<1>7. CASE ReceiveClientHello
  <2>1. CASE lconn[1] \in Known
    <3>1. /\ UNCHANGED <<clientVars, backlog, lconn, threads, alive, silent, toClient>>
          /\ lpc = "receive" /\ lpc' = "answer"
      BY <1>7, <2>1 DEF ReceiveClientHello
    <3>2. ListenerHolds' /\ ServerKnowsMade'
      BY <2>1, <3>1 DEF SessionInv, ListenerHolds, ServerKnowsMade, Made
    <3>3. OnlyKnownUsers' /\ HelloMeansServed' /\ InitMeansServed'
      BY <3>1 DEF SessionInv, OnlyKnownUsers, HelloMeansServed,
                  InitMeansServed, Current
    <3> QED BY <1>1, <3>2, <3>3 DEF SessionInv
  <2>2. CASE lconn[1] \notin Known
    BY <1>1, <1>7, <2>2, RefuseKeeps DEF ReceiveClientHello
  <2> QED BY <2>1, <2>2
<1>8. CASE ReceiveNothing \/ ReceivePartOfHello
  BY <1>1, <1>8, RefuseKeeps DEF ReceiveNothing, ReceivePartOfHello
<1>9. CASE SendServerHello
  <2>1. CASE lconn \in alive \cup silent
    <3>1. /\ UNCHANGED <<clientVars, backlog, lconn, threads, alive, silent>>
          /\ lpc = "answer" /\ lpc' = "spawn"
          /\ toClient' \subseteq toClient \cup {lconn}
      BY <1>9, <2>1 DEF SendServerHello
    <3>2. ListenerHolds' /\ ServerKnowsMade'
      BY <3>1 DEF SessionInv, ListenerHolds, ServerKnowsMade, Made
    <3>3. OnlyKnownUsers' /\ HelloMeansServed' /\ InitMeansServed'
      BY <3>1 DEF SessionInv, OnlyKnownUsers, HelloMeansServed, ListenerHolds,
                  InitMeansServed, Current
    <3> QED BY <1>1, <3>2, <3>3 DEF SessionInv
  <2>2. CASE lconn \notin alive \cup silent
    BY <1>1, <1>9, <2>2, RefuseKeeps DEF SendServerHello
  <2> QED BY <2>1, <2>2
<1>10. CASE Spawn
  <2>1. /\ UNCHANGED <<clientVars, backlog, alive, silent, toClient>>
        /\ lpc = "spawn" /\ lpc' = "accept"
        /\ threads' = threads \cup {lconn}
    BY <1>10 DEF Spawn
  <2>2. ListenerHolds' /\ ServerKnowsMade'
    BY <2>1 DEF SessionInv, ListenerHolds, ServerKnowsMade, Made
  <2>3. OnlyKnownUsers' /\ HelloMeansServed' /\ InitMeansServed'
    BY <2>1 DEF SessionInv, OnlyKnownUsers, HelloMeansServed, ListenerHolds,
                InitMeansServed, Current
  <2> QED BY <1>1, <2>2, <2>3 DEF SessionInv
<1>11. ASSUME NEW x \in Conns, TunnelCloses(x)
       PROVE  SessionInv'
  <2>1. /\ UNCHANGED <<clientVars, backlog, lpc, lconn, silent, toClient>>
        /\ threads' = threads \ {x} /\ alive' = alive \ ({x} \ silent)
    BY <1>11 DEF TunnelCloses, ServerCloses
  <2>2. ListenerHolds' /\ ServerKnowsMade'
    BY <2>1 DEF SessionInv, ListenerHolds, ServerKnowsMade, Made
  <2>3. OnlyKnownUsers' /\ HelloMeansServed' /\ InitMeansServed'
    BY <2>1 DEF SessionInv, OnlyKnownUsers, HelloMeansServed,
                InitMeansServed, Current
  <2> QED BY <1>1, <2>2, <2>3 DEF SessionInv
<1>12. ASSUME NEW x \in Conns, Cut(x) \/ FallsSilent(x)
       PROVE  SessionInv'
  <2>1. /\ UNCHANGED <<made, initOk, serverVars>>
        /\ toClient' \subseteq toClient /\ Carrying' \subseteq Carrying
    BY <1>12 DEF Cut, FallsSilent
  <2> QED BY <1>1, <2>1, ClientSideKeeps
<1>13. ASSUME NEW c \in Clients, ClientNotices(c)
       PROVE  SessionInv'
  <2>1. /\ UNCHANGED <<made, initOk, serverVars, toClient>>
        /\ Carrying' \subseteq Carrying
    BY <1>13 DEF ClientNotices
  <2> QED BY <1>1, <2>1, ClientSideKeeps
<1> QED BY <1>2, <1>3, <1>4, <1>5, <1>6, <1>7, <1>8, <1>9, <1>10, <1>11, <1>12,
           <1>13
        DEF Next, ClientThreads, ClientStep, ListenerStep

----------------------------------------------------------------------------
(* The theorems *)

\* In every behaviour of the clients, the listening thread and the network
\* the invariant holds.
THEOREM SessionInvariant == Spec => []SessionInv
<1>1. Init => SessionInv
  <2> SUFFICES ASSUME Init PROVE SessionInv
    OBVIOUS
  <2>1. TypeOK
    BY SessionAssumption DEF Init, TypeOK
  <2> QED BY <2>1 DEF Init, SessionInv, ListenerHolds, ServerKnowsMade,
                      OnlyKnownUsers, HelloMeansServed, InitMeansServed
<1>2. SessionInv /\ [Next]_vars => SessionInv'
  BY SessionStep
<1> QED BY <1>1, <1>2, PTL DEF Spec

\* The state of both programs keeps its type, the tries included: the counter
\* of try_reconnect never passes zero.
THEOREM SessionTypeCorrect == Spec => []TypeOK
<1>1. SessionInv => TypeOK
  BY DEF SessionInv
<1> QED BY <1>1, SessionInvariant, PTL

\* However connections are made, broken and made again while the listening
\* thread works on another one, only a client whose user is in the database
\* gets a tunnel thread or a ServerHello.
THEOREM OnlyKnownCorrect == Spec => []OnlyKnownUsers
<1>1. SessionInv => OnlyKnownUsers
  BY DEF SessionInv
<1> QED BY <1>1, SessionInvariant, PTL

\* An init that succeeded on a connection that carries data means that the server
\* serves that very connection or is about to.
THEOREM InitServedCorrect == Spec => []InitMeansServed
<1>1. SessionInv => InitMeansServed
  BY DEF SessionInv
<1> QED BY <1>1, SessionInvariant, PTL

----------------------------------------------------------------------------
(* Reconnecting *)

\* A client that has connected holds a socket that cannot connect: it was used
\* before, or reconnect made it from 16 bytes of a local address, as an IPv6
\* socket.  One that has not yet connected holds the unused socket of Init.
SocketSpent ==
  \A c \in Clients :
    IF made[c] = 0 THEN sock[c] = [family |-> "IPv4", used |-> FALSE]
                   ELSE made[c] = 1 /\ ~CanConnect(sock[c])

\* No client makes a second connection.
OneConnection == \A c \in Clients : made[c] \in {0, 1}

\* None of the sockets reconnect may try can connect once the socket is spent.
LEMMA NoSocketConnects ==
  ASSUME SocketSpent, NEW c \in Clients, NEW s \in SocketsToConnect(c)
  PROVE  /\ made[c] # 0 => ~CanConnect(s)
         /\ made[c] = 0 => s = [family |-> "IPv4", used |-> FALSE]
<1>1. ~CanConnect(NewSocket)
  <2>1. AddrFamily(LocalAddrSize) = "IPv6"
    BY DEF AddrFamily, LocalAddrSize
  <2> QED BY <2>1 DEF CanConnect, NewSocket
<1> QED BY <1>1 DEF SocketSpent, SocketsToConnect

\* A connection is made on a fresh socket only, which it uses up.
LEMMA NewConnectionSpends ==
  ASSUME TypeOK, SocketSpent, NEW c \in Clients,
         NEW s \in SocketsToConnect(c), NewConnection(c, s)
  PROVE  made[c] = 0 /\ SocketSpent'
<1>1. made[c] = 0 /\ s = [family |-> "IPv4", used |-> FALSE]
  BY NoSocketConnects DEF NewConnection
<1> DEFINE r == [s EXCEPT !.used = TRUE]
<1>2. ~CanConnect(r)
  BY <1>1 DEF CanConnect
<1>3. sock' = [sock EXCEPT ![c] = r] /\ made' = [made EXCEPT ![c] = 1]
  BY <1>1 DEF NewConnection, TypeOK
<1> HIDE DEF r
<1>4. made'[c] = 1 /\ ~CanConnect(sock'[c])
  BY <1>2, <1>3 DEF TypeOK
<1>5. \A d \in Clients \ {c} : made'[d] = made[d] /\ sock'[d] = sock[d]
  BY <1>3 DEF TypeOK
<1>6. SocketSpent'
  BY <1>4, <1>5 DEF SocketSpent
<1> QED BY <1>1, <1>6

\* Every step leaves a spent socket spent.
LEMMA SpentStep ==
  ASSUME TypeOK, SocketSpent, [Next]_vars
  PROVE  SocketSpent'
<1> USE DEF clientVars, captureVars
<1>1. CASE UNCHANGED <<sock, made>>
  BY <1>1 DEF SocketSpent, CanConnect
<1>2. ASSUME NEW c \in Clients, Connect(c) \/ Reconnect(c)
      PROVE  SocketSpent'
  BY <1>2, NewConnectionSpends DEF Connect, Reconnect, SocketsToConnect
<1>3. ASSUME NEW c \in Clients, ReconnectFails(c)
      PROVE  SocketSpent'
  <2>1. PICK s \in SocketsToConnect(c) : sock' = [sock EXCEPT ![c] = s]
    BY <1>3 DEF ReconnectFails
  <2>2. UNCHANGED made
    BY <1>3 DEF ReconnectFails
  <2> QED BY <2>1, <2>2, NoSocketConnects DEF SocketSpent, CanConnect, TypeOK
<1> QED BY <1>1, <1>2, <1>3
        DEF Next, vars, ClientThreads, ClientStep, ListenerStep,
            ReconnectGivesUp, SendHello, ReceiveHello, SendFails, DivertHello,
            ConnectFails, Accept, ReceiveClientHello, ReceiveNothing,
            SendServerHello, Spawn, ReceivePartOfHello, TunnelCloses, Cut,
            FallsSilent, ClientNotices

\* The sockets of the clients are spent by their first connection, in every
\* behaviour.
THEOREM SocketsAreSpent == Spec => []SocketSpent
<1>1. Init => SocketSpent
  BY DEF Init, SocketSpent
<1>2. TypeOK /\ SocketSpent /\ [Next]_vars => SocketSpent'
  BY SpentStep
<1> QED BY <1>1, <1>2, SessionTypeCorrect, PTL DEF Spec

\* try_reconnect never makes a second connection, whatever reconnect_number is
\* and however often it is called: the run session_reconnect does not fail for
\* want of tries or connections.
THEOREM NeverReconnects == Spec => []OneConnection
<1>1. SocketSpent => OneConnection
  BY DEF SocketSpent, OneConnection
<1> QED BY <1>1, SocketsAreSpent, PTL

\* A client whose connection broke stays with that connection.
BrokenStays ==
  \A c \in Clients :
    made[c] > 0 /\ Current(c) \notin alive =>
      made'[c] = made[c] /\ Current(c) \notin alive'

\* A tunnel that broke never comes back: no step of anyone gives its client
\* another connection or revives the one it had.
THEOREM BrokenForGood == Spec => [][BrokenStays]_vars
<1>1. TypeOK /\ SocketSpent /\ [Next]_vars => [BrokenStays]_vars
  <2> SUFFICES ASSUME TypeOK, SocketSpent, Next
               PROVE  BrokenStays
    OBVIOUS
  <2> USE DEF clientVars, captureVars, serverVars
  <2>1. CASE made' = made /\ alive' \subseteq alive
    BY <2>1 DEF BrokenStays
  <2>2. ASSUME NEW c \in Clients, Connect(c) \/ Reconnect(c)
        PROVE  BrokenStays
    <3>1. PICK s \in SocketsToConnect(c) : NewConnection(c, s)
      BY <2>2 DEF Connect, Reconnect, SocketsToConnect
    <3>2. made[c] = 0
      BY <3>1, NewConnectionSpends
    <3>3. ASSUME NEW d \in Clients, d # c, Current(d) \notin alive
          PROVE  made'[d] = made[d] /\ Current(d) \notin alive'
      <4>1. made'[d] = made[d]
        BY <3>1, <3>3 DEF NewConnection, TypeOK
      <4>2. <<d, made[d]>> # <<c, made[c] + 1>>
        BY <3>3
      <4> QED BY <3>1, <3>3, <4>1, <4>2 DEF NewConnection, Current
    <3> QED BY <3>2, <3>3 DEF BrokenStays
  <2>3. CASE ListenerStep \/ ReceivePartOfHello
    <3>1. made' = made /\ alive' \subseteq alive
      BY <2>3 DEF ListenerStep, Accept, ReceiveClientHello, ReceiveNothing,
                  SendServerHello, Spawn, ReceivePartOfHello, Refuse,
                  ServerCloses
    <3> QED BY <2>1, <3>1
  <2>4. ASSUME NEW c \in Clients,
               \/ ReconnectFails(c) \/ ReconnectGivesUp(c) \/ SendHello(c)
               \/ ReceiveHello(c) \/ SendFails(c) \/ DivertHello(c)
               \/ ConnectFails(c) \/ ClientNotices(c)
        PROVE  BrokenStays
    BY <2>1, <2>4 DEF ReconnectFails, ReconnectGivesUp, SendHello,
                      ReceiveHello, SendFails, DivertHello, ConnectFails,
                      ClientNotices
  <2>5. ASSUME NEW x \in Conns, TunnelCloses(x) \/ Cut(x) \/ FallsSilent(x)
        PROVE  BrokenStays
    BY <2>1, <2>5 DEF TunnelCloses, ServerCloses, Cut, FallsSilent
  <2> QED BY <2>2, <2>3, <2>4, <2>5 DEF Next, ClientThreads, ClientStep
<1> QED BY <1>1, SessionTypeCorrect, SocketsAreSpent, PTL DEF Spec
=============================================================================
