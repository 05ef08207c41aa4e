# QTunnel: TLA+ models, checks and proofs

QTunnel (QVPN) is a tunnel in C++. A Windows client captures IP packets with
WinDivert, puts their TCP or UDP segments with a proxy header into TLS-like
records and sends them over one TCP connection. A Linux server authorises the
client, takes the packets out of the records, sends them on through raw
sockets, and carries the responses back through the tunnel.

Paths are relative to `src/QVPN/QVPN Lib/` unless they start with `src/`.

## 1. Inventory

| Component | State | Operations | Correct when |
|---|---|---|---|
| Packet manager, `include/qvpn_driver.hpp`, `src/qvpn_driver.cpp` | `last_packet_id_`, `packets_` (builders by one-byte id), `cache_` | `split_packet_view`, `build_packet`, `have_full_packets`, `get_and_pop_packet` | what comes out is one packet that went in, whole, in order and once; no freed element is used |
| Record receiver, `include/Linux/qvpn_net_tools.hpp`, `include/qvpn_lib.hpp` | bytes, separators, signal and tries of one call | `safe_recv`, `add_objects_and_validate` | whole records are returned however TCP cuts the stream |
| Server driver, `include/qvpn_driver.hpp` | `response_sockets_`, a `socket_map` per thread, descriptors | request loop, `connect_to_server_impl_`, `drop_response_socket_`, response loop | a response reaches the tunnel that opened its flow, whatever the tunnels do to the table meanwhile |
| Session, `include/qvpn_driver.hpp`, `include/Windows/qvpn_net_tools.hpp` | client socket, tries of `try_reconnect`, listening thread | `connect`, `try_reconnect`, `init`, `listen_and_connect_socket_` | only known users get a tunnel, nobody waits for ever, a broken tunnel comes back |
| Client capture, `include/Windows/windivert_ext.hpp` | WinDivert handles, filter texts, the client's own packet manager | outgoing and incoming capture loops, `add_*_traffic_filter`, `start_capture_*` | the filters capture what they say; a response is handed on once, whole |
| Connection installer, `include/qvpn_driver.hpp` | sequence numbers of a handshake made by hand | `ConnectionInstaller`, `append_socket_to_connection` | the shadow socket has the sequence numbers of the real handshake |
| Socket filters, `src/QVPN/QVPN Socket Filter` | eBPF maps | filter program, map updates | a raw socket sees the packets of its flow and no others |
| Wire formats, `qvpn_structures.hpp/.cpp` | byte layouts | parse, generate, lengths, checksums | a packet leaves the other end of the tunnel as it came in, but for the address that is translated |
| Addresses and keys, `qvpn_lib.hpp/.cpp` | `NetAddr`, `QVPNServerSocketData` | equality, hash, family | equality is an equivalence and agrees with the hash |
| Layers, crypto settings, JSON settings, whitelist, user database, statistics, logging, adapters, programs, Wireshark dissector | see `PROJECT.json` | | |

How they interact. The client's outgoing loop calls `encode_and_send`, which
splits a packet and sends each part as a record; a refused send calls
`try_reconnect` and `init`. On the server one listening thread authorises
clients one after the other and detaches a `process_socket_` thread for each.
That thread calls `safe_recv`, and for every object `decode_data`, which uses
the driver's only packet manager. All threads share that manager without a
lock, and `response_sockets_` with a lock around `erase` only. One response
thread iterates over that table for ever, with a one-second receive on every
entry, and writes to copies of client sockets, which are bare descriptors, with
a send that blocks. On the client the incoming loop diverts the segments of the
tunnel's own connection and decodes each by itself.

What is hard. Two threads between each other's calls on the manager; the
table changed under an iterator; a descriptor closed and reused while a copy
of it is kept; TCP cutting the stream anywhere; a send that fails half way
through a packet; ids that wrap after 256 packets; a listening thread that
serves one client at a time; the reconnect; a batch of which the loop drops the
rest; segments that are diverted, never acknowledged and so sent again; a raw
socket that receives before its filter is on; filters joined as text; headers
taken apart and put together four times on the way there and back. `PROJECT.json` lists each hazard at
its line with the property aimed at it.

## 2. Modules

| Module | Models | Composition |
|---|---|---|
| `PacketManager` | split, records in flight, build, query and pop, for any number of connections on one manager | checked by `MCPacketManager`, proved about in `PacketManagerProofs` |
| `PacketCache` | query and pop statement by statement, for any number of threads | the statements of what are single steps in `PacketManager`; `MCPacketCache`, `PacketCacheProofs` |
| `RequestLoop` | the batches of `vpn_request_loop_iteration` | extends `PacketManager`, whose actions are its steps; `MCRequestLoop`, `RequestLoopProofs` (extends `PacketManagerProofs`) |
| `RecordChannel` | what `safe_recv` promises | abstract specification |
| `SafeReceive` | `safe_recv`, `SafeReceiveData`, `bytes_parse` | refines `RecordChannel`; `MCSafeReceive`, `WireProofs` |
| `ServerDriver` | tunnel threads, response thread, table, descriptors | `MCServerDriver`, `ServerDriverProofs` |
| `SocketFilter` | a raw socket from creation to filter, and the eBPF program | `MCSocketFilter`, `SocketFilterProofs` |
| `PacketTransit` | the headers of a packet through capture, server, answer and injection | `MCPacketTransit`, `WireProofs` |
| `ClientCapture` | the way back: response thread, TCP segments, incoming capture loop | `MCClientCapture`, `ClientProofs` |
| `TrafficFilter` | the filters of both capture loops | `MCTrafficFilter`, `ClientProofs` |
| `Session` | client life cycle against the listening thread | `MCSession`, `SessionProofs` |

### PacketManager

`lastId[c]` is `last_packet_id_` of client `c`, `wire[c]` the records in its
TCP stream, `packets` is `packets_`, `cache` the key `cache_` points at, `pc`
the place of a server thread in `decode_data`. `ub` becomes TRUE when a step
with undefined behaviour is taken, and nothing is modelled after it. `sent`,
`abandoned` and `delivered` are history.

`EncodeAndSend` is the whole of `encode_and_send`; `EncodeAndFail` the same
with a part refused, after which the connection is broken and the records in
flight arrive up to some point. `Build`, `HaveFullPackets` and
`GetAndPopPacket` (or `GetAndPopUncached`) are the three calls of
`decode_data`. Each call is one step here: the interleavings of threads between
the calls are all there, and those between the statements of the query and the
pop are in `PacketCache`. The arithmetic of the split is that of the code:
the quotient cast to a byte, the clamp against the end of the previous turn,
the sums modulo 2^16. `FindByte` is `std::find` for a byte *value*, which is
what `add_data` does with the offset.

`IntactUnlessIdShared` compares what was handed on with what was sent, so `sent`
keeps every payload; `SharesId` says when two clients were given the same id, and
`TookForeign` that the thread of a connection handed on another client's packet,
which is how its own full builder can stay behind in `packets_`.
The direction from the server to a client uses the same class with one counter
for all clients, and is `ClientCapture`.

### PacketCache

`have_full_packets` sets the pointer (line 298 of `qvpn_driver.cpp`), then the flag
(299); `get_and_pop_packet` tests the flag (309) and moves the packet out (311);
`pop_last_packet` tests it again (350), erases the element (352), takes the flag
back (353) and clears the pointer (354). No lock guards any of it, and here each
statement is a step (`Look`, `Mark`, `Test`, `Move`, `Retest`, `Erase`, `Unflag`,
`SetNull`). An element is a node that an erase frees, so a pointer can dangle:
`undef` becomes TRUE when a freed node, or a packet that another thread has moved
the bytes out of, is used. Builders are reduced to the parts in them; whether a part
completes one is left open. `twoPops` notes that two threads were between query and
end of pop at once, `late` the parts that were added to a builder after its move.

### RequestLoop

`batch` is the number of objects of the batch in hand that are still to be
decoded, `rpc` the place in `vpn_request_loop_iteration`. `QueryObject`
(no packet yet), `SendEndsIteration` (a failed send, a reset) and `NoSocket` are
the places where that function returns; `DropRest` is what a return does to the objects that are left. The
builder of a packet that lost its second part stays in `packets_` until the id
comes round, which `MixedOnlyAfterLoss` and `SentIsForwarded` delimit.
`Receive` may never happen, since `safe_recv` need not return what has arrived, and
`ReceiveCrosses` is the receive behind which framing is lost (both `SafeReceive`);
nothing is modelled after it. One tunnel: what several do to each other is in `PacketManager`.

### SafeReceive and RecordChannel

A stream is the set of positions at which its records end; an offset of the
code is a position. `ParseData` is the first receive of a call,
`AddDataAndParse` every later one, and a header read at a place that is no
record start gives any length. `RecordChannel` says: batches of whole records,
in order, none missing, until framing is lost. `crossed` marks the receive that
completes a record and brings bytes of the next, after which the code's
separators are wrong, and is the `broken` of the abstract specification.

### ServerDriver

`sockMap[t]` is the `socket_map` of thread `t`, `resp` is `response_sockets_`
with the tunnel and descriptor of the copied client socket, `cur`, `todo` and
`alive` are the iterator of the response thread: where it is, what is left of
the pass, and whether its element still exists. `fds` is the table of
descriptors, lowest free first; a raw and a shadow socket per packet are never
closed, as in the code. Objects of a batch are packets of a flow, resets (FIN or
RST), or parts that yield nothing. The response thread's send may block
(`SendBlocks`) and need not come back (`SendReturns` has no fairness).

An insertion may rehash the table, so that `todo` becomes any set of other elements
or the iterator is invalid (`alive` FALSE), as it is after an erase of its element;
its next use is undefined (`ub`). A reset throws away what waits in the raw socket:
`pending` stays, and the flow is no longer in the table. The calls on the table are
the atomic steps.

### Session

`sock[c]` is the Windows socket in `socket_`: its family and whether it was
connected before. `made[c]` counts connections, the last of which is the
current one; `alive` are the connections neither closed nor cut; `toServer` and
`toClient` hold the two hello messages as atoms. The listening thread is
`lpc` and `lconn`. A hello may come in two pieces, which `ReceivePartOfHello`
refuses, as the code does. `check_connected` asks `getpeername`, which may or
may not answer on a broken connection: `SocketsToConnect` has both results.
No receive of the handshake has a time limit, on either side. A connection that
`FallsSilent` carries nothing any more and nobody is told: `silent`. The listening
thread waits on (`ListenerWaits`), and `ClientNotices` is the client's system giving
up its retransmissions, which nothing forces. `DivertHello` is the incoming capture
loop of a client whose filter matches its own tunnel (`Matching`): a ServerHello that it diverts never reaches `init`.

### SocketFilter

`phase[f]` is how far `connect_to_server_impl_` is with the raw socket of flow
`f`; every packet in `queue[f]` keeps the phase in which it came, since what was
received before the filter was on is read all the same. `table` are the flows in
`response_sockets_`: a FIN or RST of either side takes the flow out, and what waits in
its socket is never read. A queue holds `QueueLen` packets and loses the rest.
`blocked` is the response thread in a send that does not return. `AttachFails` has the
two ways in which the wrapper goes on after an error. `KeysRead` is what the
program takes for ports in a packet with IP options.

### PacketTransit

Packets are bytes here: `rest` is transport header and payload, a field of
several bytes is the sequence of its bytes, and so the shifts of the code are
`SubSeq` and concatenation. `Transport` is where the view of an IPv4 header ends,
which is the wrong place when there are IP options; `Misread` is what happens if
the header found there points out of the packet, or if the offset that a UDP answer
is given (it is rebuilt as TCP, from bytes behind its protocol data) is below the
fixed header, so that `Reparsed` would copy a range of negative length. `over` is the length that went
into the pseudo header of a checksum. `EncodeCaptured`, `Forward`, `CarryBack`
and `Inject` are the four conversions, each the whole of its loop's body.

### ClientCapture

`stream` is what the response thread wrote to the client's connection, and
`Segment` any run of its bytes that TCP sends, again and again, since a diverted
segment is never acknowledged. A segment shorter than a record header throws in the
thread of the loop, where nothing catches it, so the client ends (`CaptureThrows`).
`builders` is `packets_` of the client; `handed`
counts what reached `WinDivertSend`, `alone` how often a response came in a
segment of its own, `spoiled` the ids under which a piece of a record was stored.

### TrafficFilter

A text is what WinDivert reads: alternatives of conjunctions of literals.
`AndText`, `OrText` and `NotText` are the operators of the code, which paste text
without parentheses; `meant` keeps the set of packets that the expression stands
for, and `captured` what WinDivert diverts in the end.

## 3. Runs

Deadlock is not checked, since every bound on inputs lets the model stop.

| Run | Instance | Shows |
|---|---|---|
| `packet_shared` | two clients, ids modulo 3, up to 3 packets of any size, 4 with one long one among them, 6 short ones | `FullNeverLingers` and the types for two threads on one manager; a packet comes out whole unless another client was given its id or its own thread once popped another client's packet (`IntactUnlessIdShared`). Payloads are below, at and above the limit, with and without a byte equal to an offset |
| `cache_statements` | three threads, 2 ids, 4 parts | a freed element is used only after two pops at once (`UndefinedNeedsTwoPops`), what is lost and when (`PartsKept`), and that nothing is handed on twice even then (`HandedOnce`) |
| `request_batches` | one client, 4 packets, ids modulo 3, batches of any length | which packets the loop loses with the rest of a batch, what they leave in `packets_`, that nothing else spoils a later packet, that none vanishes unnoticed (`DrainedLosesNothing`), and that every other packet is handed on while `safe_recv` returns (`SentIsForwarded`) |
| `receive_framing` | all streams of up to 3 records with bodies of 0 to 2 bytes, cut in every way, 2 tries | framing, the inductive invariant `Framed` (types included), the refinement of `RecordChannel`, and that a record received is returned |
| `receive_full_data` (violation) | same | after a crossing receive something is returned that is no record |
| `server_tables` | 2 tunnels, 2 flows, 6 descriptors, 3 objects in batches of one, 2 responses | who an entry belongs to, that a flow keeps its return path, where replies go, the inductive invariant `TablesAgree` (types included), and that a response that has arrived is carried back while its flow is in the table and the iterator is valid (`ResponseCarriedBack`) |
| `socket_filter` | two clients with the same port and server, 3 packets of the flows, of another service with options and of another host, queues of 2, 1 failure | once a packet has come through the filter no stranger's comes out (`CleanOnceFiltered`), and a response that found room reaches its client while the flow is in the table and sends return (`ResponsesPass`) |
| `transit` | two ports, 32 TCP messages with and without TCP options, NS, FIN, RST and payload, 2 UDP messages, each with and without IP options | a packet leaves the server as it was captured but for its source address, and its answer comes back as if the remote host had sent it to the client |
| `capture_segments` | 2 responses, 1 of another client, ids modulo 2, 4 segments cut anywhere, with or without the rest of a diverted ServerHello | when a response is handed on, and that only pieces of records do harm |
| `filter_meaning` | four filters in two variables, 5 steps, three server addresses | when joined text means what the expression says, and that without `or` nothing gets past the default filters |
| `session` | a known client whose filter may match its tunnel and an unknown one, 3 faults (failed connects, cuts, silent losses, partial hellos), 1 try | who gets a tunnel, no success without a thread; and, where the listening thread is not left waiting, every hello is answered and every known user's tunnel comes up |
| `session_reconnect` (violation) | 1 client, 1 fault, 2 tries | a broken tunnel never comes back |

Why the bounds are enough. `ShortMod = 11`, `Meta = 3` keep the proportions of
65535 and 306: a split has one or two parts, as in the code, and the sizes on
both sides of each limit occur. `ByteMod = 3` makes ids wrap within the
packets sent, so that a fourth packet meets what the first left behind. In
`packet_shared` six packets of two clients are the fewest in which an id of one
client wraps while a full builder lingers; the constraint `LongerMeansShorter`
allows that many only with the short payload, and the two clients are symmetric,
since they have the same proxy header. With 6
descriptors two tunnels and two flows use all of them, so creation fails and
descriptors are reused; longer batches are in `request_batches`. Three records
are the fewest with a crossing receive and a record after it. With two clients
one is handled while the other waits in the backlog, and with three faults a
connection can fail, be made and fall silent while the other's is cut. Three threads
in `cache_statements` are two that pop at once and one that builds; four parts put two
into one builder while another is full. Three packets overflow a queue of two.
Four segments carry two records cut in two each, or one record three times. Five steps make,
negate and join two filters and add the result. In `transit` no step depends on
an earlier packet, and every branch on the bytes of a header is taken both ways.

Fairness. `RequestLoop`: the tunnel's thread does what it need not wait for; that
`safe_recv` returns is a premise of `SentIsForwarded` and not assumed of the code.
`SafeReceive`: bytes that were sent arrive, and the loop runs; nothing is assumed
about how they are cut or about failures. `ServerDriver`: only the response
thread, whose receives end after the second `apply_settings` gives them; its
send may block for ever, so `ResponseCarriedBack` speaks of behaviours in which
every send returns in the end. `SocketFilter`: the turn of every flow in the table
comes, with the same premise on sends; that a flow stays in the table is not assumed.
`Session`: both programs run and packets keep being captured, but no client is made to
send its hello and no receive to return: `HelloIsAnswered` and `TunnelComesUp` have
the premise that the listening thread does not wait for ever (`ListenerGetsOn`), and
`TunnelComesUp` that the client goes on to send its hello. Faults are never fair.

### Disagreements found

Two with a run that shows the violation:

1. `_add_data_and_parse` computes the start of the tail after it changed the
   separator it reads, so `safe_recv`, "Return full app level data", returns what
   is no record (`receive_full_data`).
2. `qvpn_connect_` on Windows makes a local address of 16 bytes, which
   `get_addr_family` takes for IPv6, so `reconnect` makes a socket of the wrong
   family. This explains the error 10014 of the TODO in `encode_and_send`
   (`session_reconnect`).

Weak spots that the passing properties delimit: each property says that harm
comes from this and from nothing else, and each of these does happen.

- `build_packet` finds the builder by the one-byte id alone, in a table that all
  clients share; parts of two clients with the same id mix
  (`IntactUnlessIdShared`).
- A thread pops the full builder it meets first, which may be another client's;
  its own then stays in `packets_` until some thread pops it. If that takes until
  the client's ids have come round, a later packet of the same client is put into
  it, though no id was shared (`TookForeign` in `IntactUnlessIdShared`).
- `split_packet_view` drops the remainder of the division, and a packet of just
  `data_max_size` bytes is cut by half (`CarriedSize`, which `Intact` and
  `SplitCovers` speak of).
- `parse_data` does not parse the tail: whole records that came together wait for
  more bytes (`WholeTailWaits` in `ReceivedIsReturned`).
- The second part of a packet is dropped whenever it is in one batch with the
  first, which is when both arrive together (`SecondPartLedItsBatch`). What the
  first leaves behind spoils the packet that gets its id next
  (`MixedOnlyAfterLoss`).
- Two threads that pop at the same time use an element that one of them has freed,
  or read an empty packet (`UndefinedNeedsTwoPops`); a part that is added to a
  builder between its move and its erase is lost with one pop alone (`PartsKept`).
- A reset of the flow or an insertion that rehashes makes the response thread's
  iterator invalid, and only a closed tunnel lets a reply go astray
  (`RepliesReachOpener`). FIN counts as a reset, and what waits in the raw socket
  is then never read (`ResponseCarriedBack`, `ResponsesPass`).
- A client that connects and sends nothing keeps the listening thread in a receive
  without a time limit, and no other client is accepted (the premise of
  `HelloIsAnswered`).
- A client that does not read blocks the one response thread and with it all
  flows (`ResponseCarriedBack`).
- A response is handed on as often as it is sent again, and diverted segments
  are never acknowledged (`HandedOnWhenAlone`). That is the behaviour of the TODO
  at `qvpn_driver.hpp:2725` ("they are sent anew").
- An `or` in the text of a filter escapes the default filters, `// not ssh` at
  `windivert_ext.hpp:224` among them (`NoOrNeverWidens`). A server at the fixed
  address and port 8080 has its own tunnel captured.
- A raw socket reads packets of strangers that came before its filter was on; they
  come out ahead of its own (`CleanOnceFiltered`). If the attach failed they never end.
- NS becomes SYN; IP options make the transport header be read from the wrong
  place; a UDP packet leaves the server with a checksum over four times its
  length; a UDP answer is injected as TCP, if the
  junk in its offset allows (`RequestTravels`, `AnswerReturns`). The
  default filters capture TCP only, so the shipped client does not reach the
  last two.

## 4. Proofs

`PacketManagerProofs` proves, for every set of connections, every width and
every set of payloads that satisfy the assumptions:

- `SplitCovers`: the parts of a payload lie side by side inside it, begin at its
  first byte and carry `CarriedSize` of it. The loop of `split_packet_view` is
  a recursive function; `Quotient` shows that there are at most two turns, so
  `SplitLoopUnfold` can build it explicitly and no induction is needed.
- `TypeCorrect`: `TypeOK`. Between calls the cache names a full builder that is in
  `packets_` (`CacheNamesFull`), and the two are inductive only together: the pop
  reads `packets[cache]`, and `add_data` never takes `is_full_` back, so a full
  builder stays full until the pop that also clears the cache.
- `FullBuildersArePopped`: the number of full builders never exceeds that of
  threads between `build_packet` and the end of `decode_data`. `build_packet`
  makes at most one builder full, and a call leaves the query without a pop only
  when there is no full builder.
- `IntactCorrect`: `IntactUnlessIdShared`, from the inductive invariant
  `IntactInv`. A packet is `Clean` if it falls under neither exception of the
  property. `Counted` says that `lastId` is the number of packets sent, modulo
  `ByteMod`, so that every record in flight has the id `IdOf` gives its packet.
  `StreamOf` says of each stream that parts follow one another and packets
  are in order. `CleanHoldsOne` is the core: a builder fed by a clean packet
  holds that packet and nothing else, complete or with its second part at the
  head of its stream. A record of a clean packet can only meet a builder of its
  own connection (`CleanIdIsOwn`), so three cases are left. The builder awaits
  exactly this record (`AddSecond`). There is none, and then the record is a
  first part (`FirstIsThere`). Or the builder is full, which `OwnIsPopped`
  excludes: a thread that never took a foreign packet has at most one full
  builder of its own, and none when it is back at its receive. `FedById`
  keeps an older packet from being taken for one that is yet to come.

Assumptions. `SizesAssumption`: 2^8, 2^16 and 306 satisfy it, and it says no more
than that the sizes are positive and a packet has at most two parts.
`DataAssumption`: a payload is shorter than 2^16 bytes, as an IP packet is.
`BoundsAssumption`: `NoId` is no id and the connections are finitely many.
`HeaderAssumption`, for the theorems on bytes: the proxy header has at least one
byte and fits the meta data (it has 40 of the 306 bytes), and the split size,
which is the offset of a second part, is no byte value (32615).

`PacketCacheProofs` proves, for every set of threads and ids and any number of parts:

- `UndefinedCorrect`, `PartsKeptCorrect`, `HandedOnceCorrect`: the three properties of
  `cache_statements`, from `CacheInv`. `OnePlace` says that a part is in one builder, in
  one hand or handed on, even where several threads pop at once. `OneAtATime` says
  what holds until they do: the one thread that pops finds its element there up to the
  erase and the flag set up to its own reset, and every element has bytes but for
  the one that was just moved out.

`WireProofs` proves about `SafeReceive`, for every set of streams, header size and number of
tries (`ReceiveAssumption`: a stream ends, and a record is no shorter than its
header):

- `ReceiveCorrect`: `Framed` is invariant. `FramingHolds` alone is not
  inductive: it needs that no object is empty and each begins where a record
  does (else the next parse may read a header in the middle of a record), and
  that the signal is `no_data` exactly when there are no separators.
- `FramingCorrect`: `FramingHolds`.
- `ReceiveImplementsChannel`: `SafeReceive` implements `RecordChannel`. A return
  is the step `Hand`, for which `Framed` also says that a call begins where the
  objects returned before it end; the receive that sets `crossed` is `Break`;
  every other step is a stutter.

and about `PacketTransit`, for any addresses, ports and bytes:

- `TransitCorrect`: `TransitInv` is invariant. It says to which packet the record
  in the tunnel, the key of the flow and the answer belong in each phase, so that
  the step that makes `sent` or `injected` can be compared with the packet the
  bytes came from; the two properties are its last conjuncts.
- `RequestCorrect`, `AnswerCorrect`: `RequestTravels` and `AnswerReturns`.

  The argument is one lemma per conversion, each byte by byte: `TcpDataBytes` and
  `UdpDataBytes` (what the protocol data hold), `ParseBack` (the constructor of
  `QTunnelData` finds what was written, which needs protocol data that state their
  own length), `TcpHeaderBytes` and `UdpHeaderBytes` (what is made of them),
  `Rebuilt` (the two together give the header back, but for ports, checksum,
  reserved bits and flags), `Replaced` (header and payload). `OffsetKept` shows
  that the length which `recalculate_lengths` puts on top of the offset is the
  offset itself, and `SumOfBits` that the "or" of a byte with itself or with 0 is
  that byte. Sequences of bytes, their length, concatenation and `SubSeq` go by
  names of their own (`ByteSeqs`, `Size`, `Cat`, `Piece`), whose definitions the
  provers open only in the first lemmas.

`TransitAssumption`: addresses have four bytes, ports two, and a message is `Sound`:
TCP or UDP with at least the fixed header, options in words, checksum bytes 0, and
short enough for the sixteen bits of an IP length. `Sound` says nothing of the
offset, so a header that points out of its packet is among the messages proved
about.

`ServerDriverProofs` proves, for every set of tunnels, flows and descriptors:

- `TablesCorrect`: `TablesAgree` is invariant. It joins the types, what each
  thread has in hand, where the iterator is, and that the copies of client
  sockets in the table and in the response thread's hand are those of tunnels
  that were started, with their descriptor while they run. The last is what the
  three properties on entries, replies and return paths rest on, and it needs
  that new sockets only take descriptors that are free.
- `EntriesCorrect`, `RepliesCorrect`, `ReturnPathCorrect`: the other three safety
  properties of `server_tables`, each from `TablesAgree`.

`RequestLoopProofs` proves, for one tunnel (`OneTunnel`) and every set of
payloads, width and cutting of the stream into batches:

- `LoopInvariant`: `LoopInv` is invariant. It is about the stream
  (`StreamInv`), the builders (`BuildersInv`) and where the loop is.
  `MixedOnlyAfterLoss` alone says nothing of a builder that is not yet popped, so
  `BuildersExplained` says it of every builder: a packet that lost a part is in
  it, or it is one packet, complete or with its second part at the head of
  the stream. That this second part is there needs `Paired` (parts follow one
  another) and `Ordered`, with `BuildersAreOlder`: a first part that is yet to
  come belongs to no builder. `OffsetIsNoByte` and `AddSecond` show that
  `std::find` then appends the second part and the builder is full.
- `MixedCorrect`, `LeftoversCorrect`: the two properties, from that invariant.
- `SecondPartCorrect`: a packet in two parts comes out only if its second part led
  a batch. The crux is `UnfinishedAreLong`: whatever an unfinished builder has
  been fed, it is so long that another first part of a packet in two jumps over
  its size and does not fill it. So after a first part nothing is full,
  `decode_data` returns nothing and the iteration returns (`SecondLeads`). This
  is where the proxy header must not be empty.
- `DrainedCorrect`: `DrainedLosesNothing`, the safety half of `SentIsForwarded`.
  `AllTraced` says that something of every packet is in flight, in a builder,
  handed on or counted as lost, and each step moves it from one of these to the
  next. With nothing in flight and no `decode_data` under way, `LoopInv` leaves
  only builders that hold a packet that lost a part.
- `LoopTypeCorrect`: the types.

`SocketFilterProofs`, for every set of flows, addresses and ports:

- `FilterTypeCorrect`, `CleanCorrect`: the types and `CleanOnceFiltered`. The property
  is about the time after a packet was carried back; the invariant says of the queue
  that behind a packet that came through the filter there are only such packets
  (`StrangersFirst`), and that a filter that is on stays on (`FilterStaysOn`).
- `OwedOnlyOverflows`: the safety half of `ResponsesPass`. A response that came with
  the filter on was carried back, still waits, or found the queue full; resets
  and blocked sends leave it in the socket.

`SessionProofs`, for every set of clients, number of tries, connections and
faults:

- `SessionTypeCorrect`, `OnlyKnownCorrect`, `InitServedCorrect`: the types,
  `OnlyKnownUsers` and `InitMeansServed`. A client may break off and start again
  while the listening thread works on its old connection, so the invariant says
  which connection the thread has in hand and that it passed the checks
  (`ListenerHolds`), that the server has seen none its client has not made
  (`ServerKnowsMade`), and that a ServerHello under way already has its thread
  (`HelloMeansServed`).
- `NeverReconnects`, `BrokenForGood`: what `session_reconnect` shows for two tries
  holds for every number of them. The first connection uses up the socket, and
  every socket that `reconnect` makes is of the wrong family (`SocketSpent`).

`ClientProofs` proves about `ClientCapture`, for every width of the id, size of a
header and response, cutting and resending:

- `CaptureTypeCorrect`, `HandedOnCorrect`, `MixCorrect`, `LeftoversCorrect`: the
  types, `HandedOnWhenAlone`, `OnlyPiecesMix` and `LeftoversFromPieces`. They are
  inductive together, with the clause that a builder holds only data of
  responses with its id (`BuildersHaveOwnIds`) and that nothing is counted for a
  response before it is sent. Where records end is a recursive function of the
  stream; that it is total, grows and is left alone by an Append is shown by taking
  the least position at which it would fail (`Least`), since the provers cannot
  use the library's induction rule.

and about `TrafficFilter`, for any addresses and ports, any texts a program makes
and any number of them joined, negated and added:

- `TextTypeCorrect`: the types. `operator!` changes a literal that is there, since
  a text that is not empty has a first `=` or a first literal.
- `PlainCorrect`, `NoOrCorrect`: `PlainFiltersMeanWhatTheySay` and
  `NoOrNeverWidens`. They speak of the capture, and nothing is captured before it
  starts, so the invariant (`FilterInv`) is about the filters in hand and those
  added: a plain one is a single conjunction that WinDivert reads as it was meant
  (`ReadAsMeant`), on IPv4, where an address can be compared. What `Calculate`
  makes of single conjunctions is one conjunction of all their literals; it is a
  recursive function of the number of filters, and this too is shown for the
  least number at which it would fail (`Least`). Of the default filters, the
  literals are read one by one.

`FilterAssumption`: the fixed address is none of the others, no IPv4 address is the
IPv6 one, 22 and 8080 are ports, and a program's filters are texts of the atoms
that the methods of `WinDivertTrafficFilter_` write (`Atoms`).

A proof attempt corrected the model's claims once: an earlier
`IntactUnlessIdShared` had only the exception of a shared id. The step of a
build into a full builder could not be proved, and a run with more packets
showed why, namely the builder that lingers and is met by its own client's next
packet with that id. The property now names that case, and `packet_shared` is
large enough to reach it.

Model-checked only are the liveness properties, since the prover does not reason
about fairness: `ReceivedIsReturned`, `ResponseCarriedBack`, `HelloIsAnswered`,
`TunnelComesUp`, `SentIsForwarded` (its safety half is `DrainedCorrect`)
and `ResponsesPass` (its safety half is `OwedOnlyOverflows`).
So are the two violations, which are counterexamples; `NeverReconnects` and
`BrokenForGood` say the one of `Session` for all instances. Every invariant
of a passing run and the refinement of `RecordChannel` are proved.

## 5. Not modelled

`PROJECT.json` gives the reason for each part.

- Most lines of the repository are the vendored SQLite and Npcap sources, which
  are third-party and out of scope; the share of all lines that is modelled is
  therefore small whatever is added.
- Data races inside one call of a standard container or one move of a builder: these
  are atomic steps. What happens between the statements of query and pop is in
  `PacketCache`; `build_packet` and the search of `have_full_packets` are one step each.
- Bytes of the hello messages, which are atoms in `Session`, and the arithmetic of
  checksums. `PacketTransit` keeps the length a checksum is made over.
- IPv6, which the code answers with "temporarily not supported"; IP fragments.
- Lengths given to `WinDivertSend` (`windivert_ext.hpp:409`): what the driver does
  with the bytes behind a packet is outside the repository.
- `stop_capture_traffic`, `PortGenerator` and the filter `custom_protocol`, which
  nothing calls. Equality of
  `NetAddr` of different families, which no caller compares.
- Pure input and output (settings, logging, friendly views, the user programs, the
  dissector) and code that is not called (adapters, most layers, and the connection
  installer, whose only call is commented out at `qvpn_driver.hpp:2262`).

## 6. Plan

Every safety property is proved. What could be added, should the code change:

1. `FirstPart` and `SecondPart` are the only parts because a payload is cut in at
   most two (`Quotient`). Smaller settings of the manager would need `SplitCovers`
   and `AddSecond` for any number of parts, which is induction over data.
2. With IPv6, `PacketTransit` and `TrafficFilter` get a second family of addresses;
   `ParseBack` is where the offsets of `QTunnelData` would become a case.
