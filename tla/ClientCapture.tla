--------------------------- MODULE ClientCapture ---------------------------
(***************************************************************************)
(* The way back from the server to one client: the response thread encodes *)
(* each response as one record of the tunnel connection, and the incoming  *)
(* capture loop of the client decodes what WinDivert diverts from that     *)
(* connection (windivert_ext.hpp, qvpn_driver.hpp).                        *)
(*                                                                         *)
(* The loop sees TCP segments and not a byte stream: it takes each segment *)
(* for one record.  A diverted segment never reaches the client's kernel,  *)
(* so nothing is ever acknowledged, and TCP may send any bytes of the      *)
(* stream again, cut in any way.                                           *)
(*                                                                         *)
(* Bytes are counted and not written down.  A response is shorter than     *)
(* data_max_size, so it is never split; the byte that PacketBuilder's      *)
(* std::find looks for only changes the order of bytes inside a builder,   *)
(* which the sets of responses kept here do not tell.                      *)
(***************************************************************************)
EXTENDS Integers, Sequences, FiniteSets

CONSTANTS
  IdMod,         \* 2^8 in the code: width of last_packet_id_
  Tls,           \* bytes of a TLS record header, 5 in the code
  Pb,            \* bytes of the packet builder header, 5 in the code
  Sizes,         \* sizes of a response with its proxy header
  MaxOrig,       \* largest size a builder header can name, 2^16 - 1
  HelloId,       \* the type byte of a ServerHello, 2 in the code
  MaxResponses,  \* bound on the responses to this client
  MaxOthers,     \* bound on the responses to other clients
  MaxSegments    \* bound on the segments captured

ASSUME CaptureAssumption ==
  /\ IdMod \in Nat \ {0}
  /\ Tls \in Nat \ {0} /\ Pb \in Nat \ {0} /\ MaxOrig \in Nat
  /\ Sizes \subseteq 1 .. MaxOrig
  /\ HelloId \in 0 .. IdMod - 1
  /\ MaxResponses \in Nat /\ MaxOthers \in Nat /\ MaxSegments \in Nat

Ids  == 0 .. IdMod - 1
Uids == 1 .. MaxResponses

VARIABLES
  lastId,    \* last_packet_id_ of the server's packet manager
  others,    \* responses sent to other clients so far
  stream,    \* records written to this client's connection
  sentTo,    \* bytes of the stream that TCP has sent at least once
  builders,  \* packets_ of the client: id -> builder
  running,   \* FALSE once an exception has ended the client
  segments,  \* segments captured so far
  handed,    \* how often each response was handed to WinDivertSend, whole
  alone,     \* history: how often it came in a segment of its own
  spoiled,   \* history: ids read from a segment that was not whole records
  bad        \* history: ids under which something else was handed on

serverVars == <<lastId, others, stream>>
clientVars == <<builders, running, handed, bad>>
vars == <<serverVars, sentTo, clientVars, segments, alone, spoiled>>

----------------------------------------------------------------------------
\* A ServerHello that was diverted (Session) reads as the first part of a
\* long packet: its type byte is the id, its length the original size.  Sent
\* again it only changes the size of that builder.
HelloLeftovers ==
  {[id \in {HelloId} |-> [orig |-> n, size |-> 1, of |-> {0}]] :
     n \in 2 .. MaxOrig}

Init ==
  /\ lastId = 0 /\ others = 0
  /\ stream = <<>>
  /\ sentTo = 0
  /\ builders \in HelloLeftovers \cup {[id \in {} |-> 0]}
  /\ running = TRUE
  /\ segments = 0
  /\ handed = [u \in Uids |-> 0]
  /\ alone = [u \in Uids |-> 0]
  /\ spoiled = DOMAIN builders /\ bad = {}

----------------------------------------------------------------------------
(* The server *)

\* split_packet_view takes the next id from the one counter that the
\* responses to all clients share.
NextId == (lastId + 1) % IdMod

\* encode_and_send of a response to this client: one record.
SendResponse(size) ==
  /\ Len(stream) < MaxResponses
  /\ stream' = Append(stream, [id |-> lastId, size |-> size])
  /\ lastId' = NextId
  /\ UNCHANGED <<others, sentTo, clientVars, segments, alone, spoiled>>

\* The same for another client.
SendToOther ==
  /\ others < MaxOthers
  /\ others' = others + 1
  /\ lastId' = NextId
  /\ UNCHANGED <<stream, sentTo, clientVars, segments, alone, spoiled>>

----------------------------------------------------------------------------
(* The connection *)

RecordLen(u) == Tls + Pb + stream[u].size

\* Ends[u]: where the u-th record ends in the stream.
Ends ==
  LET end[u \in 0 .. Len(stream)] == IF u = 0 THEN 0
                                     ELSE end[u - 1] + RecordLen(u)
  IN  end

StreamLen == Ends[Len(stream)]

\* The response whose record begins at byte a, if one does.
RecordAt(a) == {u \in 1 .. Len(stream) : Ends[u - 1] = a}

\* A segment holds the bytes from a up to b.  TCP sends new bytes or, as
\* nothing is acknowledged, old ones again.
Segment(a, b) ==
  /\ a \in 0 .. sentTo /\ b \in a + 1 .. StreamLen

\* Neither end of the segment lies inside a record.
WholeRecords(a, b) ==
  /\ RecordAt(a) # {}
  /\ \E u \in 1 .. Len(stream) : Ends[u] = b

----------------------------------------------------------------------------
(* The incoming capture loop *)

\* The header that build_packet reads behind the first Tls bytes: that of
\* the record, or, in a segment that begins elsewhere, any bytes (of which
\* an offset other than 0 would only make the test of build_packet stricter).
Headers(a) ==
  IF RecordAt(a) = {}
  THEN [id: Ids, offset: {0}, orig: 0 .. MaxOrig, of: {{0}}]
  ELSE {[id |-> stream[u].id, offset |-> 0, orig |-> stream[u].size,
         of |-> {u}] : u \in RecordAt(a)}

\* get_tls_record_data ends where the segment ends: the length in the record
\* header is not looked at.
DataSize(a, b) == b - a - Tls - Pb

\* Mutant of Accepted: the size of the data is not compared.
AcceptedAnySize(h, n) == n > 0 /\ h.offset < h.orig

\* The test of build_packet.
Accepted(h, n) ==
  /\ n > 0
  /\ h.offset < h.orig
  /\ n + h.offset <= h.orig

\* Mutant of Built: the builder is not looked up by its id.
BuiltAnyId(h, n) ==
  IF DOMAIN builders # {}
  THEN LET i == CHOOSE i \in DOMAIN builders : TRUE
       IN  [builders[i] EXCEPT !.size = @ + n, !.of = @ \cup h.of]
  ELSE [orig |-> h.orig, size |-> n, of |-> h.of]

\* add_data: the builder that is there grows, or a new one is made.
Built(h, n) ==
  IF h.id \in DOMAIN builders
  THEN [builders[h.id] EXCEPT !.size = @ + n, !.of = @ \cup h.of]
  ELSE [orig |-> h.orig, size |-> n, of |-> h.of]

\* A builder is full when its size is the one its first part announced; the
\* same iteration takes it out and hands it on.
Full(b) == b.size = b.orig

\* The builder holds one response and nothing else.
IsResponse(b) ==
  \E u \in 1 .. Len(stream) : b.of = {u} /\ b.size = stream[u].size

\* Mutant of HandOn: the builder stays after get_and_pop_packet.
HandOnKeeps(id, b) ==
  /\ builders' = [i \in DOMAIN builders \cup {id} |->
                    IF i = id THEN b ELSE builders[i]]
  /\ IF IsResponse(b)
     THEN /\ handed' = [u \in Uids |-> IF u \in b.of THEN handed[u] + 1
                                                     ELSE handed[u]]
          /\ UNCHANGED bad
     ELSE bad' = bad \cup {id} /\ UNCHANGED handed

\* have_full_packets, get_and_pop_packet and WinDivertSend.  A response
\* passes check_validity: it is IPv4 and TCP or UDP.
HandOn(id, b) ==
  /\ builders' = [i \in DOMAIN builders \ {id} |-> builders[i]]
  /\ IF IsResponse(b)
     THEN /\ handed' = [u \in Uids |-> IF u \in b.of THEN handed[u] + 1
                                                     ELSE handed[u]]
          /\ UNCHANGED bad
     ELSE bad' = bad \cup {id} /\ UNCHANGED handed

\* What decode_data and the rest of the iteration do with n bytes of data
\* behind header h.
Decode(h, n) ==
  IF ~Accepted(h, n) THEN UNCHANGED <<builders, handed, bad>>
  ELSE IF Full(Built(h, n)) THEN HandOn(h.id, Built(h, n))
  ELSE /\ builders' = [i \in DOMAIN builders \cup {h.id} |->
                         IF i = h.id THEN Built(h, n) ELSE builders[i]]
       /\ UNCHANGED <<handed, bad>>

\* The bytes from a to b reach the client, are diverted, and no
\* acknowledgement of them is ever sent.
Divert(a, b) ==
  /\ running
  /\ segments < MaxSegments
  /\ Segment(a, b)
  /\ segments' = segments + 1
  /\ sentTo' = IF b > sentTo THEN b ELSE sentTo

\* One turn of incoming_capture_loop for a segment with data.  (One without
\* data is sent on unchanged.)
Capture(a, b) ==
  /\ Divert(a, b)
  /\ b - a >= Tls
  /\ \E h \in Headers(a) :
       /\ Decode(h, DataSize(a, b))
       /\ spoiled' = IF ~WholeRecords(a, b) /\ Accepted(h, DataSize(a, b))
                     THEN spoiled \cup {h.id} ELSE spoiled
  /\ alone' = [u \in Uids |-> IF u \in RecordAt(a) /\ Ends[u] = b
                              THEN alone[u] + 1 ELSE alone[u]]
  /\ UNCHANGED <<serverVars, running>>

\* A segment shorter than a record header: the vector that layer_decode
\* makes of it would have a negative size.  Nothing catches the exception in
\* the thread of the loop, so it ends the whole client, and no step of the
\* client follows; the server goes on.
CaptureThrows(a, b) ==
  /\ Divert(a, b)
  /\ b - a < Tls
  /\ running' = FALSE
  /\ UNCHANGED <<serverVars, builders, handed, bad, alone, spoiled>>

Next ==
  \/ \E size \in Sizes : SendResponse(size)
  \/ SendToOther
  \/ \E a, b \in 0 .. StreamLen : Capture(a, b) \/ CaptureThrows(a, b)

Spec == Init /\ [][Next]_vars

----------------------------------------------------------------------------
(* What must hold *)

Builder == [orig: 0 .. MaxOrig, size: Nat, of: SUBSET (Uids \cup {0})]

\* Every variable keeps its type, and a builder that waits is not full.
TypeOK ==
  /\ lastId \in Ids /\ others \in 0 .. MaxOthers
  /\ stream \in Seq([id: Ids, size: Sizes]) /\ Len(stream) <= MaxResponses
  /\ sentTo \in 0 .. StreamLen
  /\ DOMAIN builders \subseteq Ids
  /\ \A i \in DOMAIN builders : builders[i] \in Builder /\ ~Full(builders[i])
  /\ running \in BOOLEAN
  /\ segments \in 0 .. MaxSegments
  /\ handed \in [Uids -> Nat] /\ alone \in [Uids -> Nat]
  /\ spoiled \subseteq Ids /\ bad \subseteq Ids

\* A response is handed on exactly as often as it arrives in a segment of its
\* own, whatever else was diverted, cut, joined or sent again, and although
\* ids are shared by all clients and wrap around.  Only an id under which a
\* piece of a record was once stored is left out.
HandedOnWhenAlone ==
  \A u \in 1 .. Len(stream) :
    stream[u].id \notin spoiled => handed[u] = alone[u]

\* Anything else than one whole response is handed on only under an id for
\* which a piece of a record was stored before: the size test of build_packet
\* keeps several records in one segment from being taken for one.
OnlyPiecesMix == bad \subseteq spoiled

\* A builder stays behind only under the id of such a piece.
LeftoversFromPieces == DOMAIN builders \subseteq spoiled
=============================================================================
