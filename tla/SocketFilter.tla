---------------------------- MODULE SocketFilter ----------------------------
(***************************************************************************)
(* Which packets the raw socket of a flow receives: the steps of           *)
(* connect_to_server_impl_ that make, connect and filter it                *)
(* (qvpn_driver.hpp), the BPF program behind the filter (bpf_filter.c) and *)
(* what the response thread makes of each packet.                          *)
(*                                                                         *)
(* A raw socket sees a copy of every packet of its protocol that reaches   *)
(* the host; from connect on only those of the remote address; with the    *)
(* filter only those of the remote and local ports as well.  Packets that  *)
(* come earlier wait in its queue all the same.                            *)
(*                                                                         *)
(* What waits is thrown away in two ways: a queue that is full takes       *)
(* nothing more, and a flow that a reset took out of response_sockets_ is  *)
(* not read any more.                                                      *)
(*                                                                         *)
(* The server sends with the client's port as its own, so a flow is        *)
(* [client, lport, raddr, rport], of which the network sees the last       *)
(* three.  All packets are IPv4 and TCP.  A flow stands for one raw socket *)
(* here: opened again after a reset it is another one.                     *)
(***************************************************************************)
EXTENDS Integers, Sequences

CONSTANTS
  Flows,      \* the flows that tunnels open
  Addrs,      \* addresses of remote hosts
  Ports,      \* ports of remote hosts and of clients
  Packets,    \* packets that may reach the host
  QueueLen,   \* packets that fit into the queue of a socket
  MaxPackets, \* bound on the packets that arrive
  MaxFaults   \* bound on the failures to attach a filter

\* The opts of a packet tells that its IP header has options.
ASSUME FilterAssumption ==
  /\ \A f \in Flows : f.raddr \in Addrs /\ {f.lport, f.rport} \subseteq Ports
  /\ Packets \subseteq [raddr: Addrs, rport: Ports, lport: Ports, opts: BOOLEAN]
  /\ QueueLen \in Nat /\ MaxPackets \in Nat /\ MaxFaults \in Nat

VARIABLES
  phase,      \* how far the raw socket of each flow is
  table,      \* the flows in response_sockets_
  queue,      \* packets waiting in a socket, each with the phase it came in
  blocked,    \* the flow for which the response thread waits in its send
  arrived,    \* packets that have reached the host
  carried,    \* history: packets carried back, by flow
  owed,       \* history: those that arrived for a flow with its filter on
  lost,       \* history: those that found the queue of their socket full
  faults

history == <<carried, owed, lost>>
vars == <<phase, table, queue, blocked, arrived, history, faults>>

Init ==
  /\ phase = [f \in Flows |-> "none"]
  /\ table = {}
  /\ queue = [f \in Flows |-> <<>>]
  /\ blocked = {}
  /\ arrived = 0
  /\ carried = {} /\ owed = {} /\ lost = {}
  /\ faults = 0

\* The flow f is the one a packet belongs to, as far as the network knows.
BelongsTo(p, f) ==
  p.raddr = f.raddr /\ p.rport = f.rport /\ p.lport = f.lport

----------------------------------------------------------------------------
(* connect_to_server_impl_ *)

\* create_raw_socket, apply_settings, bind to any address.
CreateRaw(f) ==
  /\ phase[f] = "none"
  /\ phase' = [phase EXCEPT ![f] = "created"]
  /\ UNCHANGED <<table, queue, blocked, arrived, history, faults>>

\* raw_socket.connect and the lookup in socket_map.
ConnectRaw(f) ==
  /\ phase[f] = "created"
  /\ phase' = [phase EXCEPT ![f] = "connected"]
  /\ UNCHANGED <<table, queue, blocked, arrived, history, faults>>

\* create_socket_filter and filter, then add_to_response_socket_map.  Every
\* filter loads the program anew, so its map of one element is its own.
AttachFilter(f) ==
  /\ phase[f] = "connected"
  /\ phase' = [phase EXCEPT ![f] = "filtered"]
  /\ table' = table \cup {f}
  /\ UNCHANGED <<queue, blocked, arrived, history, faults>>

\* An error of the wrapper is only printed.  If the program was not loaded
\* nothing is attached ("open"); if its map could not be filled a program is
\* attached that finds nothing ("shut").  The flow enters the table anyway.
AttachFails(f) ==
  /\ phase[f] = "connected"
  /\ faults < MaxFaults
  /\ faults' = faults + 1
  /\ \E p \in {"open", "shut"} : phase' = [phase EXCEPT ![f] = p]
  /\ table' = table \cup {f}
  /\ UNCHANGED <<queue, blocked, arrived, history>>

\* The client sends a reset: drop_response_socket_(key).  The socket is not
\* closed, but nothing reads it any more.
ClientResets(f) ==
  /\ f \in table
  /\ table' = table \ {f}
  /\ UNCHANGED <<phase, queue, blocked, arrived, history, faults>>

----------------------------------------------------------------------------
(* bpf_filter.c and the kernel *)

\* Mutant of FilterKey: the ports are not put into network order.
FilterKeyHostOrder(f) ==
  [src |-> f.raddr, sport |-> 256 * f.rport, dport |-> 256 * f.lport]

\* The element of filter_map: QVPN_SocketFilter of the flow.
FilterKey(f) == [src |-> f.raddr, sport |-> f.rport, dport |-> f.lport]

\* The keys that filter_by_addr_port_ipv4 may look up.  It takes the ports
\* from behind the first 20 bytes, where options are if there are any.
KeysRead(p) ==
  IF p.opts
  THEN [src: {p.raddr}, sport: Ports, dport: Ports]
  ELSE {[src |-> p.raddr, sport |-> p.rport, dport |-> p.lport]}

\* Mutants of Accepts: neither connect nor the program looks at the address
\* once the filter is on; the result of the lookup is not tested.
AcceptsAnyHost(f, p, key) ==
  CASE phase[f] = "created" -> TRUE
    [] phase[f] \in {"connected", "open"} -> p.raddr = f.raddr
    [] phase[f] = "filtered" -> /\ key.sport = FilterKey(f).sport
                                /\ key.dport = FilterKey(f).dport
    [] OTHER -> FALSE

AcceptsUntested(f, p, key) ==
  CASE phase[f] = "created" -> TRUE
    [] phase[f] = "none" -> FALSE
    [] OTHER -> p.raddr = f.raddr

\* Does the socket of f take packet p, of which the program read key?
Accepts(f, p, key) ==
  CASE phase[f] = "created" -> TRUE
    [] phase[f] \in {"connected", "open"} -> p.raddr = f.raddr
    [] phase[f] = "filtered" -> p.raddr = f.raddr /\ key = FilterKey(f)
    [] OTHER -> FALSE

\* The flows that p belongs to, with their filter on, and that it can be told
\* from its ports.
OwedTo(p) ==
  {f \in Flows : phase[f] = "filtered" /\ ~p.opts /\ BelongsTo(p, f)}

\* A packet reaches the host: every raw socket that accepts it has a copy, if
\* there is room in its queue.
Arrive(p) ==
  /\ arrived < MaxPackets
  /\ arrived' = arrived + 1
  /\ \E key \in KeysRead(p) :
       queue' = [f \in Flows |->
                   IF Accepts(f, p, key) /\ Len(queue[f]) < QueueLen
                   THEN Append(queue[f], [pkt |-> p, came |-> phase[f]])
                   ELSE queue[f]]
  /\ LET For(S) == {[flow |-> f, item |-> [pkt |-> p, came |-> "filtered"]] :
                       f \in S}
     IN  /\ owed' = owed \cup For(OwedTo(p))
         /\ lost' = lost \cup For({f \in OwedTo(p) : Len(queue[f]) >= QueueLen})
  /\ UNCHANGED <<phase, table, blocked, carried, faults>>

----------------------------------------------------------------------------
(* The response thread *)

\* The oldest packet of a socket, whoever sent it, is addressed to the client
\* and the port of the flow and written to the client.  If it is a reset the
\* flow leaves the table, with all that still waits in its socket.
CarryBack(f) ==
  /\ carried' = carried \cup {[flow |-> f, item |-> Head(queue[f])]}
  /\ queue' = [queue EXCEPT ![f] = Tail(@)]
  /\ table' \in {table, table \ {f}}

\* vpn_response_loop_iteration.
HandleResponse(f) ==
  /\ blocked = {}
  /\ f \in table /\ queue[f] # <<>>
  /\ CarryBack(f)
  /\ UNCHANGED <<phase, blocked, arrived, owed, lost, faults>>

\* The send to the client does not return: no flow is served meanwhile.
SendBlocks(f) ==
  /\ blocked = {}
  /\ f \in table /\ queue[f] # <<>>
  /\ blocked' = {f}
  /\ UNCHANGED <<phase, table, queue, arrived, history, faults>>

SendReturns(f) ==
  /\ f \in blocked
  /\ blocked' = {}
  /\ CarryBack(f)
  /\ UNCHANGED <<phase, arrived, owed, lost, faults>>

\* The turn of flow f in the loop over the table.
Turn(f) == HandleResponse(f) \/ SendBlocks(f)

Next ==
  \/ \E f \in Flows :
       \/ CreateRaw(f) \/ ConnectRaw(f) \/ AttachFilter(f) \/ AttachFails(f)
       \/ ClientResets(f)
       \/ Turn(f) \/ SendReturns(f)
  \/ \E p \in Packets : Arrive(p)

Spec == Init /\ [][Next]_vars

\* The loop over the table comes to the turn of every flow in it (how it does
\* so while the table changes is ServerDriver's ResponseCarriedBack).  Nothing
\* makes a send that blocks return, or keeps a flow in the table.
FairSpec == Spec /\ \A f \in Flows : WF_vars(Turn(f))

----------------------------------------------------------------------------
(* What must hold *)

Phases == {"none", "created", "connected", "filtered", "open", "shut"}

Item == [pkt: Packets, came: Phases \ {"none", "shut"}]

\* Every variable keeps its type.
TypeOK ==
  /\ phase \in [Flows -> Phases]
  /\ table \subseteq Flows
  /\ queue \in [Flows -> Seq(Item)]
  /\ blocked \subseteq Flows
  /\ arrived \in 0 .. MaxPackets
  /\ carried \subseteq [flow: Flows, item: Item]
  /\ owed \subseteq [flow: Flows, item: Item]
  /\ lost \subseteq [flow: Flows, item: Item]
  /\ faults \in 0 .. MaxFaults

\* The packets of strangers that a raw socket took in before its filter was on
\* come out first: once the client has been given one packet that passed the
\* filter, all that waits for it in the socket is of its own flow, or of the
\* same server with options that hide its ports from the program.
CleanOnceFiltered ==
  \A f \in Flows :
    (\E c \in carried : c.flow = f /\ c.item.came = "filtered") =>
      \A i \in 1 .. Len(queue[f]) :
        LET p == queue[f][i].pkt
        IN  BelongsTo(p, f) \/ (p.opts /\ p.raddr = f.raddr)

\* Something that arrived for the client of f and found room in its socket has
\* not been carried back.
Owing(f) == \E o \in owed \ (carried \cup lost) : o.flow = f

\* A packet of a flow that arrives after its filter was attached, and carries
\* no IP options, reaches the flow's client, whatever strangers wait before
\* it, as long as the response thread is not left waiting in a send for ever.
\* Thrown away are what finds the queue of the socket full and, once a reset
\* of either side has taken the flow out of the table, all that is in it.
ResponsesPass ==
  []<>(blocked = {}) =>
    \A f \in Flows : Owing(f) ~> (~Owing(f) \/ f \notin table)
=============================================================================
