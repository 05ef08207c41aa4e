---------------------------- MODULE SafeReceive ----------------------------
(***************************************************************************)
(* safe_recv (qvpn_net_tools.hpp) and the SafeReceiveData it fills         *)
(* (qvpn_lib.hpp): receive until the bytes collected by this call make up  *)
(* whole TLS records, and return them as a list of separators.             *)
(*                                                                         *)
(* Only record boundaries matter, so the byte stream of the peer is the    *)
(* set of positions where its records end, and every offset of the code is *)
(* written as a position in that stream: data[0] of a call is position     *)
(* base, and since every branch inserts all it received, data.size() is    *)
(* got - base.  A header read anywhere but at the start of a record reads  *)
(* payload bytes, so the length found there may be anything.               *)
(***************************************************************************)
EXTENDS Integers, Sequences

CONSTANTS
  Streams,    \* record ends of the streams a peer may send
  Hdr,        \* bytes of a record header, 5 in the code
  MaxLen,     \* largest length a header can claim, 2^16 - 1 in the code
  NumTries    \* num_tries, 20 in the code

ASSUME ReceiveAssumption ==
  /\ Hdr \in Nat \ {0} /\ MaxLen \in Nat /\ NumTries \in Nat \ {0}
  /\ \A s \in Streams :
       /\ s \subseteq Nat
       /\ \E e \in s : \A f \in s : f <= e     \* it ends
       /\ \A e \in s : e >= Hdr
       /\ \A e, f \in s : e < f => f - e >= Hdr

VARIABLES
  ends,       \* where the records of the peer's stream end
  got,        \* bytes the socket has delivered so far
  base,       \* position at which the present call of safe_recv began
  separators, \* objects of the present call
  signal,     \* SafeReceiveSignal of the present call
  tries,      \* num_tries of the present call
  crossed,    \* TRUE once _add_data_and_parse has met an object and a tail
  ub,         \* TRUE once bytes behind the end of data have been parsed
  returned    \* history: the objects returned by all calls

vars == <<ends, got, base, separators, signal, tries, crossed, ub, returned>>

----------------------------------------------------------------------------

\* All bytes of the stream.
Total == CHOOSE e \in ends : \A f \in ends : f <= e

EndAfter(p) == CHOOSE e \in ends : e > p /\ \A f \in ends : f > p => e <= f

\* get_tls_record_full_length of the bytes at position p.
Lengths(p) == IF p \in ends \cup {0} /\ p < Total THEN {EndAfter(p) - p}
                                                  ELSE 0 .. MaxLen

\* bytes_parse of the n bytes from position p, as signal and object length.
BytesParse(p, n) ==
  IF n < Hdr THEN {[bp |-> "not_full", len |-> n]}
  ELSE {[bp  |-> IF l = n THEN "full" ELSE IF l > n THEN "not_full"
                 ELSE "and_tail",
         len |-> l] : l \in Lengths(p)}

Object(p, q) == [from |-> p, to |-> q]

\* Mutant of ParseData: the tail is left out of the separators.
ParseDataNoTail(k) ==
  \E r \in BytesParse(got, k) :
    /\ separators' = Append(separators,
                       Object(got, got + IF r.bp = "not_full" THEN k ELSE r.len))
    /\ signal' = IF r.bp = "full" THEN "full" ELSE "wait"
    /\ UNCHANGED <<crossed, ub>>

\* parse_data: the first bytes of a call.  An object with a tail gives two
\* objects, and the call waits for more even when the tail is whole.
ParseData(k) ==
  \E r \in BytesParse(got, k) :
    /\ separators' = separators \o
         IF r.bp = "and_tail"
         THEN <<Object(got, got + r.len), Object(got + r.len, got + k)>>
         ELSE <<Object(got, got + k)>>
    /\ signal' = IF r.bp = "full" THEN "full" ELSE "wait"
    /\ UNCHANGED <<crossed, ub>>

\* Mutant of AddDataAndParse: a completed object is not recognised as such.
AddDataAndParseDeaf(k) ==
  LET last  == Len(separators)
  IN  /\ separators' = [separators EXCEPT ![last].to = got + k]
      /\ signal' = "wait"
      /\ UNCHANGED <<crossed, ub>>

\* _add_data_and_parse: the last object grows by what came.  When it now has
\* a tail, tail_start is the END of the data, so the separator added for the
\* tail lies behind the bytes received; with a tail of at least a header the
\* loop goes on to parse there.
AddDataAndParse(k) ==
  LET last  == Len(separators)
      start == separators[last].from
      fin   == got + k
  IN  \E r \in BytesParse(start, fin - start) :
        IF r.bp # "and_tail"
        THEN /\ separators' = [separators EXCEPT ![last].to = fin]
             /\ signal' = IF r.bp = "full" THEN "full" ELSE "wait"
             /\ UNCHANGED <<crossed, ub>>
        ELSE LET tail == fin - (start + r.len)
             IN  /\ separators' =
                      Append([separators EXCEPT ![last].to = start + r.len],
                             Object(fin, fin + tail))
                 /\ signal' = "wait"
                 /\ crossed' = TRUE
                 /\ ub' = (tail >= Hdr)

----------------------------------------------------------------------------

Init ==
  /\ ends \in Streams
  /\ got = 0 /\ base = 0
  /\ separators = <<>> /\ signal = "no_data" /\ tries = NumTries
  /\ crossed = FALSE /\ ub = FALSE
  /\ returned = <<>>

\* The loop condition: it is left only on full data with tries to spare.
Looping == signal # "full" \/ tries = 0

\* receive succeeds with k bytes, which add_objects_and_validate takes.
Receive(k) ==
  /\ ~ub /\ Looping
  /\ got + k <= Total
  /\ IF signal = "wait" THEN AddDataAndParse(k) ELSE ParseData(k)
  /\ got' = got + k
  /\ UNCHANGED <<ends, base, tries, returned>>

\* receive fails (an error, or 0 bytes from a closed peer).  num_tries below
\* zero behaves as zero.
ReceiveFails ==
  /\ ~ub /\ Looping
  /\ tries' = IF tries > 0 THEN tries - 1 ELSE 0
  /\ UNCHANGED <<ends, got, base, separators, signal, crossed, ub, returned>>

\* Mutant of Return: the separators of a call stay for the next one.
ReturnKeepsObjects ==
  /\ ~ub /\ ~Looping
  /\ returned' = returned \o separators
  /\ base' = got
  /\ signal' = "no_data" /\ tries' = NumTries
  /\ UNCHANGED <<ends, got, separators, crossed, ub>>

\* safe_recv returns its objects, and the request loop calls it again.
Return ==
  /\ ~ub /\ ~Looping
  /\ returned' = returned \o separators
  /\ base' = got
  /\ separators' = <<>> /\ signal' = "no_data" /\ tries' = NumTries
  /\ UNCHANGED <<ends, got, crossed, ub>>

ReceiveSome == \E k \in 1 .. Total - got : Receive(k)

Next == ReceiveSome \/ ReceiveFails \/ Return

Spec == Init /\ [][Next]_vars

\* The peer's bytes arrive and the thread runs; nothing is assumed about how
\* the stream is cut into receive calls.
FairSpec == Spec /\ WF_vars(ReceiveSome) /\ WF_vars(Return)

----------------------------------------------------------------------------
(* What must hold *)

Objects == [from: Nat, to: Nat]

\* Every variable keeps its type; the signal stays within the values the loop
\* of safe_recv can meet and num_tries within its budget.
TypeOK ==
  /\ ends \in Streams
  /\ got \in Nat /\ base \in Nat
  /\ separators \in Seq(Objects) /\ returned \in Seq(Objects)
  /\ signal \in {"no_data", "wait", "full"}
  /\ tries \in 0 .. NumTries
  /\ crossed \in BOOLEAN /\ ub \in BOOLEAN

\* An interval that is exactly one record.
IsRecord(o) == /\ o.from \in ends \cup {0} /\ o.from < Total
               /\ o.to = EndAfter(o.from)

\* As long as no receive completed an object and brought bytes of the next,
\* the objects of a call are records laid end to end from where the call
\* began, the last one possibly unfinished, and account for every byte.
FramingHolds ==
  ~crossed =>
    /\ base \in ends \cup {0}
    /\ separators = <<>> => got = base
    /\ \A i \in 1 .. Len(separators) :
         /\ separators[i].from = IF i = 1 THEN base ELSE separators[i - 1].to
         /\ i < Len(separators) \/ signal = "full" => IsRecord(separators[i])
         /\ i = Len(separators) => separators[i].to = got

\* safe_recv implements RecordChannel until a tail is mishandled.
Channel == INSTANCE RecordChannel WITH out <- returned, broken <- crossed
ImplementsChannel == Channel!ChannelSpec

\* "Return full app level data": whatever is returned is a record.
ReturnsFullData ==
  \A i \in 1 .. Len(returned) : IsRecord(returned[i])

\* The call has more than one object, the last one whole, and waits for bytes
\* that the peer does not send.
WholeTailWaits ==
  signal = "wait" /\ got = Total /\ Len(separators) > 1

\* A record the socket has delivered is returned by safe_recv, unless framing
\* was lost, the tries ran out (the loop then never ends), or the stream
\* ended while the call waits behind a whole tail.
ReceivedIsReturned ==
  \A e \in UNION Streams :
    (e \in ends /\ got >= e) ~>
      \/ \E i \in 1 .. Len(returned) : returned[i].to = e
      \/ crossed
      \/ tries = 0
      \/ WholeTailWaits

----------------------------------------------------------------------------
(* The strengthening that makes framing inductive *)

\* Where the objects returned so far end.
ReturnedTo == IF returned = <<>> THEN 0 ELSE returned[Len(returned)].to

\* Until framing is lost no object is empty, each begins where a record does,
\* and the present call begins where the objects returned before it end.
ObjectsFollow ==
  ~crossed =>
    /\ base = ReturnedTo
    /\ \A i \in 1 .. Len(separators) :
         /\ separators[i].from \in ends \cup {0}
         /\ separators[i].from < separators[i].to

\* The inductive invariant of the proofs: in every call of safe_recv the
\* separators and the signal fit the bytes the socket has delivered.
Framed ==
  /\ TypeOK
  /\ got <= Total
  /\ signal = "no_data" <=> separators = <<>>
  /\ FramingHolds
  /\ ObjectsFollow
=============================================================================
