------------------------------ MODULE Session ------------------------------
(***************************************************************************)
(* How a tunnel comes up, breaks and comes up again: connect,              *)
(* try_reconnect, init and encode_and_send of QVPNClientDriver against     *)
(* listen_and_connect_socket_ of QVPNServerDriver (qvpn_driver.hpp).       *)
(*                                                                         *)
(* The server handles one new connection at a time: accept, a blocking     *)
(* receive of the ClientHello, the checks, the ServerHello, and a detached *)
(* thread.  The client ignores what init and try_reconnect return: it goes *)
(* on to capture and send in any case, and a packet whose send fails is    *)
(* what makes it try to connect again.  The client exists for Windows      *)
(* only (qvpn_api.hpp), so its socket is the one of Windows/qvpn_net_tools.*)
(* Once init_driver is back the capture loops start, and where the filter  *)
(* of the incoming one matches the tunnel it takes from then on every      *)
(* segment with data away from that socket (windivert_ext.hpp).            *)
(*                                                                         *)
(* No receive of either side has a time limit here, so a connection whose  *)
(* other end vanished without a trace is not the same as a broken one:     *)
(* whoever receives from it waits on.                                      *)
(*                                                                         *)
(* A connection <<c, n>> is the n-th that client c has made; the server's  *)
(* address is an IPv4 address.                                             *)
(***************************************************************************)
EXTENDS Integers, Sequences

CONSTANTS
  Clients,
  Known,            \* clients whose user is in the database
  Matching,         \* clients whose settings make the filter match the tunnel
  ReconnectNumber,  \* reconnect_number, 20 in the code
  MaxConns,         \* bound on the connections of one client
  MaxFaults         \* bound on the faults of the network

ASSUME SessionAssumption ==
  /\ Known \subseteq Clients /\ Matching \subseteq Clients
  /\ ReconnectNumber \in Nat \ {0}
  /\ MaxConns \in Nat /\ MaxFaults \in Nat

Conns == Clients \X (1 .. MaxConns)

VARIABLES
  cpc,       \* where each client is
  sock,      \* the socket in socket_ of each client
  tries,     \* reconnect_number of a client's try_reconnect
  made,      \* connections each client has made; the last is its socket_
  initOk,    \* what init returned for that connection
  capture,   \* the incoming capture loop: not started, failed, or running
  diverted,  \* connections whose ServerHello the loop took away
  alive,     \* connections neither end has closed and no fault has cut
  silent,    \* connections over which nothing arrives any more, untold
  toServer,  \* connections with a ClientHello that was not yet read
  toClient,  \* connections with a ServerHello that was not yet read
  backlog,   \* connections the server has not yet accepted
  lpc,       \* where the listening thread is
  lconn,     \* the connection it is handling
  threads,   \* connections that have a process_socket_ thread
  faults     \* faults so far

captureVars == <<capture, diverted>>
clientVars == <<cpc, sock, tries, made, initOk, captureVars>>
serverVars == <<backlog, lpc, lconn, threads>>
vars == <<clientVars, serverVars, alive, silent, toServer, toClient, faults>>

----------------------------------------------------------------------------

Init ==
  /\ cpc = [c \in Clients |-> "connect"]
  /\ sock = [c \in Clients |-> [family |-> "IPv4", used |-> FALSE]]
  /\ tries = [c \in Clients |-> 0]
  /\ made = [c \in Clients |-> 0]
  /\ initOk = [c \in Clients |-> FALSE]
  /\ capture = [c \in Clients |-> "none"]
  /\ diverted = {}
  /\ alive = {} /\ silent = {}
  /\ toServer = {} /\ toClient = {}
  /\ backlog = <<>>
  /\ lpc = "accept" /\ lconn = <<>>
  /\ threads = {}
  /\ faults = 0

\* The connection behind socket_ of a client (none before the first).
Current(c) == <<c, made[c]>>

Fault == faults < MaxFaults /\ faults' = faults + 1

\* The connections over which data still arrives.
Carrying == alive \ silent

\* The server closes its end of x: the client is told if anything arrives.
ServerCloses(x) == alive' = alive \ ({x} \ silent)

----------------------------------------------------------------------------
(* The client *)

\* NetAddr::get_addr_family: the number of bytes tells the family.
AddrFamily(size) == CASE size = 4  -> "IPv4"
                      [] size = 16 -> "IPv6"
                      [] OTHER     -> "undefined"

\* qvpn_connect_ copies localAddrLen bytes, the size of a sockaddr_in, where
\* the four of an IPv4 address are meant.
LocalAddrSize == 16

\* The socket reconnect makes in place of a connected one: its family is
\* that of the local address connect stored.
NewSocket == [family |-> AddrFamily(LocalAddrSize), used |-> FALSE]

\* connect with an IPv4 address is for an IPv4 socket (10014, WSAEFAULT, on
\* any other), and a stream socket connects only once.
CanConnect(s) == s.family = "IPv4" /\ ~s.used

\* connect on socket s succeeds: the new connection waits to be accepted.
NewConnection(c, s) ==
  /\ CanConnect(s)
  /\ made[c] < MaxConns
  /\ sock' = [sock EXCEPT ![c] = [s EXCEPT !.used = TRUE]]
  /\ made' = [made EXCEPT ![c] = @ + 1]
  /\ alive' = (alive \ {Current(c)}) \cup {<<c, made[c] + 1>>}
  /\ backlog' = Append(backlog, <<c, made[c] + 1>>)
  /\ initOk' = [initOk EXCEPT ![c] = FALSE]
  /\ cpc' = [cpc EXCEPT ![c] = "init"]
  /\ UNCHANGED <<captureVars, tries, lpc, lconn, threads, silent, toServer,
                 toClient, faults>>

\* init_driver: connect; when that fails, try_reconnect.
Connect(c) ==
  /\ cpc[c] = "connect"
  /\ NewConnection(c, sock[c])

ConnectFails(c) ==
  /\ cpc[c] = "connect"
  /\ Fault
  /\ cpc' = [cpc EXCEPT ![c] = "reconnect"]
  /\ tries' = [tries EXCEPT ![c] = ReconnectNumber]
  /\ UNCHANGED <<captureVars, sock, made, initOk, serverVars, alive, silent,
                 toServer, toClient>>

\* reconnect: a socket for which check_connected holds is closed and
\* replaced, any other is used again.  check_connected asks getpeername,
\* which fails on a socket that never was connected and may or may not
\* answer on one whose connection broke.
SocketsToConnect(c) ==
  {sock[c]} \cup IF sock[c].used THEN {NewSocket} ELSE {}

\* One turn of try_reconnect.
Reconnect(c) ==
  /\ cpc[c] = "reconnect" /\ tries[c] > 0
  /\ \E s \in SocketsToConnect(c) : NewConnection(c, s)

\* Mutant of ReconnectFails: the loop does not stop at the last try.
ReconnectFailsForever(c) ==
  /\ cpc[c] = "reconnect"
  /\ \E s \in SocketsToConnect(c) :
       /\ \/ ~CanConnect(s) /\ UNCHANGED faults
          \/ CanConnect(s) /\ Fault
       /\ sock' = [sock EXCEPT ![c] = s]
  /\ tries' = [tries EXCEPT ![c] = @ - 1]
  /\ UNCHANGED <<captureVars, cpc, made, initOk, serverVars, alive, silent,
                 toServer, toClient>>

ReconnectFails(c) ==
  /\ cpc[c] = "reconnect" /\ tries[c] > 0
  /\ \E s \in SocketsToConnect(c) :
       /\ \/ ~CanConnect(s) /\ UNCHANGED faults
          \/ CanConnect(s) /\ Fault
       /\ sock' = [sock EXCEPT ![c] = s]
  /\ tries' = [tries EXCEPT ![c] = @ - 1]
  /\ UNCHANGED <<captureVars, cpc, made, initOk, serverVars, alive, silent,
                 toServer, toClient>>

\* start_vpn_client, called once when init_driver is back: WinDivertOpen may
\* fail, and a filter that does not match the tunnel takes nothing from it.
StartCapture(c) ==
  \E s \in {"off"} \cup (IF c \in Matching THEN {"on"} ELSE {}) :
    capture' = [capture EXCEPT ![c] = IF @ = "none" THEN s ELSE @]

\* The tries are used up: the caller goes on as if nothing had happened.
ReconnectGivesUp(c) ==
  /\ cpc[c] = "reconnect" /\ tries[c] = 0
  /\ StartCapture(c)
  /\ cpc' = [cpc EXCEPT ![c] = "run"]
  /\ UNCHANGED <<sock, tries, made, initOk, diverted, serverVars, alive,
                 silent, toServer, toClient, faults>>

\* init sends the ClientHello; the result is looked at only at the end.
SendHello(c) ==
  /\ cpc[c] = "init"
  /\ toServer' = toServer \cup ({Current(c)} \cap Carrying)
  /\ cpc' = [cpc EXCEPT ![c] = "wait"]
  /\ UNCHANGED <<captureVars, sock, tries, made, initOk, serverVars, alive,
                 silent, toClient, faults>>

\* init receives: a ServerHello, or the end of the connection.
ReceiveHello(c) ==
  /\ cpc[c] = "wait"
  /\ \/ /\ Current(c) \in toClient
        /\ capture[c] # "on"
        /\ initOk' = [initOk EXCEPT ![c] = TRUE]
        /\ toClient' = toClient \ {Current(c)}
     \/ /\ Current(c) \notin alive \cup toClient
        /\ UNCHANGED <<initOk, toClient>>
  /\ StartCapture(c)
  /\ cpc' = [cpc EXCEPT ![c] = "run"]
  /\ UNCHANGED <<sock, tries, made, diverted, serverVars, alive, silent,
                 toServer, faults>>

\* The incoming capture loop takes the segment with the ServerHello for a
\* record of the tunnel.  It is not injected again, so init, which now runs
\* in the outgoing loop, never receives it.
DivertHello(c) ==
  /\ capture[c] = "on"
  /\ Current(c) \in toClient
  /\ toClient' = toClient \ {Current(c)}
  /\ diverted' = diverted \cup {Current(c)}
  /\ UNCHANGED <<cpc, sock, tries, made, initOk, capture, serverVars, alive,
                 silent, toServer, faults>>

\* Mutant of SendFails: the packet is given up and nothing else done.
SendFailsSilently(c) ==
  /\ cpc[c] = "run"
  /\ Current(c) \notin alive
  /\ UNCHANGED vars

\* encode_and_send of a captured packet on a dead connection.  The system
\* may accept some sends before it refuses one; a refused one starts
\* try_reconnect, and init when that succeeds.
SendFails(c) ==
  /\ cpc[c] = "run"
  /\ Current(c) \notin alive
  /\ cpc' = [cpc EXCEPT ![c] = "reconnect"]
  /\ tries' = [tries EXCEPT ![c] = ReconnectNumber]
  /\ UNCHANGED <<captureVars, sock, made, initOk, serverVars, alive, silent,
                 toServer, toClient, faults>>

\* The system of the client has sent in vain for long enough and gives its
\* end of a silent connection up.
ClientNotices(c) ==
  /\ cpc[c] \in {"wait", "run"}
  /\ Current(c) \in alive \cap silent
  /\ alive' = alive \ {Current(c)}
  /\ UNCHANGED <<clientVars, serverVars, silent, toServer, toClient, faults>>

\* What a client that is running does by itself.
ClientStep(c) ==
  \/ Connect(c) \/ Reconnect(c) \/ ReconnectFails(c) \/ ReconnectGivesUp(c)
  \/ ReceiveHello(c) \/ SendFails(c)

\* The two threads of a client.
ClientThreads(c) ==
  ClientStep(c) \/ SendHello(c) \/ ClientNotices(c) \/ DivertHello(c)

----------------------------------------------------------------------------
(* The server *)

Accept ==
  /\ lpc = "accept"
  /\ backlog # <<>>
  /\ lconn' = Head(backlog)
  /\ backlog' = Tail(backlog)
  /\ lpc' = "receive"
  /\ UNCHANGED <<clientVars, threads, alive, silent, toServer, toClient, faults>>

\* Every failed authorisation closes the connection and accepts the next.
Refuse ==
  /\ ServerCloses(lconn)
  /\ lpc' = "accept" /\ lconn' = <<>>
  /\ UNCHANGED <<backlog, threads>>

\* Mutant of ReceiveClientHello: the user is not looked up.
ReceiveClientHelloUnchecked ==
  /\ lpc = "receive" /\ lconn \in toServer
  /\ toServer' = toServer \ {lconn}
  /\ lpc' = "answer" /\ UNCHANGED <<backlog, lconn, threads, alive>>
  /\ UNCHANGED <<clientVars, silent, toClient, faults>>

\* The first receive holds the whole ClientHello: the user is looked up.
ReceiveClientHello ==
  /\ lpc = "receive" /\ lconn \in toServer
  /\ toServer' = toServer \ {lconn}
  /\ IF lconn[1] \in Known
     THEN lpc' = "answer" /\ UNCHANGED <<backlog, lconn, threads, alive>>
     ELSE Refuse
  /\ UNCHANGED <<clientVars, silent, toClient, faults>>

\* The first receive holds only a part of it, and no user is found.
ReceivePartOfHello ==
  /\ lpc = "receive" /\ lconn \in toServer
  /\ Fault
  /\ toServer' = toServer \ {lconn}
  /\ Refuse
  /\ UNCHANGED <<clientVars, silent, toClient>>

\* The receive for the ClientHello has no time limit: it returns when
\* something arrives or the connection is seen to break, and a client that
\* sends nothing keeps the listening thread, and all who wait to be accepted.
ListenerWaits ==
  lpc = "receive" /\ lconn \notin toServer /\ lconn \in alive \cup silent

\* Mutant of ReceiveNothing: the failed receive is tried again.
ReceiveNothingRetries ==
  /\ lpc = "receive" /\ lconn \notin toServer /\ ~ListenerWaits
  /\ UNCHANGED vars

\* The client has closed the connection, or it was cut, before anything was
\* sent: receive fails.
ReceiveNothing ==
  /\ lpc = "receive" /\ lconn \notin toServer /\ ~ListenerWaits
  /\ Refuse
  /\ UNCHANGED <<clientVars, silent, toServer, toClient, faults>>

\* The ServerHello is sent, and refused by a connection that was cut.  Over
\* a silent one it is sent like any other and arrives nowhere.
SendServerHello ==
  /\ lpc = "answer"
  /\ IF lconn \in alive \cup silent
     THEN /\ toClient' = toClient \cup ({lconn} \cap Carrying)
          /\ lpc' = "spawn" /\ UNCHANGED <<backlog, lconn, threads, alive>>
     ELSE Refuse /\ UNCHANGED toClient
  /\ UNCHANGED <<clientVars, silent, toServer, faults>>

\* Mutant of Spawn: the thread is given the socket of the next connection.
SpawnNext ==
  /\ lpc = "spawn"
  /\ threads' = threads \cup {IF backlog = <<>> THEN lconn ELSE Head(backlog)}
  /\ lpc' = "accept" /\ lconn' = <<>>
  /\ UNCHANGED <<clientVars, backlog, alive, silent, toServer, toClient, faults>>

\* The thread that serves the tunnel starts; it is never joined, and with
\* safe_recv never returning on a dead connection it never ends either.
Spawn ==
  /\ lpc = "spawn"
  /\ threads' = threads \cup {lconn}
  /\ lpc' = "accept" /\ lconn' = <<>>
  /\ UNCHANGED <<clientVars, backlog, alive, silent, toServer, toClient, faults>>

\* vpn_request_loop_iteration returns false and the tunnel is closed.
TunnelCloses(x) ==
  /\ x \in threads \cap alive
  /\ Fault
  /\ threads' = threads \ {x}
  /\ ServerCloses(x)
  /\ UNCHANGED <<clientVars, backlog, lpc, lconn, silent, toServer, toClient>>

\* A connection is cut and both ends are told, be it long after it fell
\* silent; what was not read by then is lost.
Cut(x) ==
  /\ x \in alive \cup silent
  /\ Fault
  /\ alive' = alive \ {x} /\ silent' = silent \ {x}
  /\ toServer' = toServer \ {x} /\ toClient' = toClient \ {x}
  /\ UNCHANGED <<clientVars, serverVars>>

\* One end or the path between them is gone and nobody is told; what has
\* arrived by then can still be read, what was under way is lost.
FallsSilent(x) ==
  /\ x \in Carrying
  /\ Fault
  /\ silent' = silent \cup {x}
  /\ \/ UNCHANGED <<toServer, toClient>>
     \/ toServer' = toServer \ {x} /\ toClient' = toClient \ {x}
  /\ UNCHANGED <<clientVars, serverVars, alive>>

ListenerStep ==
  \/ Accept \/ ReceiveClientHello \/ ReceiveNothing \/ SendServerHello \/ Spawn

Next ==
  \/ \E c \in Clients :
       \/ ClientThreads(c)
       \/ ConnectFails(c)
  \/ ListenerStep
  \/ ReceivePartOfHello
  \/ \E x \in Conns : TunnelCloses(x) \/ Cut(x) \/ FallsSilent(x)

Spec == Init /\ [][Next]_vars

\* The threads of both programs run and packets keep being captured.  Nothing
\* makes a client send its hello, or a receive without a time limit return.
FairSpec ==
  /\ Spec
  /\ WF_vars(ListenerStep)
  /\ \A c \in Clients : WF_vars(ClientStep(c)) /\ WF_vars(DivertHello(c))

----------------------------------------------------------------------------
(* What must hold *)

\* Every variable keeps its type.
TypeOK ==
  /\ cpc \in [Clients -> {"connect", "reconnect", "init", "wait", "run"}]
  /\ sock \in [Clients -> [family: {"IPv4", "IPv6", "undefined"},
                           used: BOOLEAN]]
  /\ tries \in [Clients -> 0 .. ReconnectNumber]
  /\ made \in [Clients -> 0 .. MaxConns]
  /\ initOk \in [Clients -> BOOLEAN]
  /\ capture \in [Clients -> {"none", "off", "on"}]
  /\ diverted \subseteq Conns
  /\ alive \subseteq Conns /\ silent \subseteq Conns
  /\ toServer \subseteq Conns /\ toClient \subseteq Conns
  /\ backlog \in Seq(Conns)
  /\ lpc \in {"accept", "receive", "answer", "spawn"}
  /\ lconn \in Conns \cup {<<>>}
  /\ threads \subseteq Conns
  /\ faults \in 0 .. MaxFaults

\* Only a client whose user is in the database ever gets a tunnel thread or
\* so much as a ServerHello, in whatever order connections come and break.
OnlyKnownUsers ==
  \A x \in threads \cup toClient : x[1] \in Known

\* A client whose init succeeded has a tunnel thread on the connection it
\* uses, or the listening thread is about to start it, as long as the
\* connection carries data: success is never reported for a tunnel nobody
\* serves.
InitMeansServed ==
  \A c \in Clients :
    initOk[c] /\ Current(c) \in Carrying =>
      \/ Current(c) \in threads
      \/ lpc = "spawn" /\ lconn = Current(c)

\* The listening thread is not left waiting for the hello of some client for
\* ever, which the code does nothing to ensure.
ListenerGetsOn == []<>~ListenerWaits

\* As long as the listening thread gets on, no client waits for the ServerHello
\* for ever: it gets one or sees its connection closed, though the server
\* answers one client at a time and clients break off at any point.  Left
\* waiting are a client whose own connection fell silent, for its receive has
\* no time limit either, and one whose incoming capture loop took the hello
\* away, which takes a first connection later than init_driver.
HelloIsAnswered ==
  ListenerGetsOn =>
    \A c \in Clients :
      (cpc[c] = "wait") ~> (cpc[c] # "wait" \/ Current(c) \in diverted \cup silent)

\* However often connecting fails, and though init_driver gives up after
\* reconnect_number tries, a known user gets a tunnel once the faults are
\* over: the packets that cannot be sent keep the client trying.  It takes a
\* listening thread that gets on and a client that sends its hello.  Left out
\* are a connection that was made and then broke or fell silent, and one made
\* so late that the capture loop takes its hello.
TunnelComesUp ==
  ListenerGetsOn =>
    \A c \in Known :
      []<>(cpc[c] # "init") =>
        <>(\/ initOk[c] /\ Current(c) \in threads
           \/ made[c] > 0 /\ Current(c) \notin Carrying
           \/ Current(c) \in diverted)

\* What encode_and_send calls try_reconnect and init for: a connection that
\* broke is replaced, and once the faults are over a known user is served,
\* if the listening thread gets on, the client sends its hellos and its
\* connection did not fall silent.
TunnelComesBack ==
  ListenerGetsOn =>
    \A c \in Known :
      []<>(cpc[c] # "init") =>
        \/ <>(Current(c) \in silent)
        \/ <>[](initOk[c] /\ Current(c) \in alive \cap threads)
=============================================================================
