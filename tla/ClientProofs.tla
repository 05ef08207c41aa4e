---------------------------- MODULE ClientProofs ----------------------------
(***************************************************************************)
(* Proofs about ClientCapture for every width of the id, every size of a   *)
(* header and a response, and any cutting and resending of the stream; and *)
(* about TrafficFilter for any addresses and ports, any filters a program  *)
(* makes, and any number of them joined and added.                         *)
(***************************************************************************)
EXTENDS ClientCapture, TrafficFilter, FiniteSetTheorems, NaturalsInduction,
        WellFoundedInduction, SequenceTheorems, TLAPS

----------------------------------------------------------------------------
(* What a CHOOSE of a smallest element rests on *)

\* A nonempty set of naturals has a least element.
LEMMA Least ==
  ASSUME NEW S \in SUBSET Nat, S # {}
  PROVE  \E i \in S : \A j \in S : i <= j
<1>1. \E i \in S : \A j \in S : ~(<<j, i>> \in OpToRel(<, Nat))
  BY WFMin, NatLessThanWellFounded
<1>2. ASSUME NEW i \in Nat, NEW j \in Nat, j < i
      PROVE  <<j, i>> \in OpToRel(<, Nat)
  <2> DEFINE p == <<j, i>>
  <2>1. p \in Nat \X Nat /\ p[1] = j /\ p[2] = i
    OBVIOUS
  <2> HIDE DEF p
  <2>2. p[1] < p[2]
    BY <2>1, <1>2
  <2>3. p \in OpToRel(<, Nat)
    BY <2>1, <2>2, Zenon DEF OpToRel
  <2> QED BY <2>3 DEF p
<1>3. \A i \in Nat, j \in Nat : j < i => <<j, i>> \in OpToRel(<, Nat)
  BY <1>2
<1>4. PICK i \in S : \A j \in S : ~(<<j, i>> \in OpToRel(<, Nat))
  BY <1>1
<1>5. \A j \in S : ~(j < i)
  BY <1>3, <1>4
<1>6. \A j \in S : i <= j
  BY <1>5
<1> QED BY <1>6

----------------------------------------------------------------------------
(* Where records end *)

Record == [id: Ids, size: Sizes]

\* What the facts about the stream need of its type.
StreamType == stream \in Seq(Record)

\* A record of the stream is longer than its two headers.
LEMMA RecordLenType ==
  ASSUME StreamType, NEW u \in 1 .. Len(stream)
  PROVE  /\ RecordLen(u) \in Nat /\ RecordLen(u) > Tls + Pb
         /\ stream[u].size \in 1 .. MaxOrig /\ stream[u].id \in Ids
         /\ RecordLen(u) = Tls + Pb + stream[u].size
<1>1. stream[u] \in Record
  BY DEF StreamType
<1>2. stream[u].size \in 1 .. MaxOrig /\ stream[u].id \in Ids
  BY <1>1, CaptureAssumption DEF Record
<1> QED BY <1>1, <1>2, CaptureAssumption DEF RecordLen

\* One turn of the recursive function of Ends.
EndAt(f, u) == IF u = 0 THEN 0 ELSE f[u - 1] + RecordLen(u)

\* For every prefix of the stream there is a function that sums its records.
LEMMA PrefixSums ==
  ASSUME StreamType
  PROVE  \A n \in 0 .. Len(stream) :
           \E f \in [0 .. n -> Nat] : \A u \in 0 .. n : f[u] = EndAt(f, u)
<1> DEFINE L == Len(stream)
           Sum(f, n) == \A u \in 0 .. n : f[u] = EndAt(f, u)
           B == {n \in 0 .. L : ~ \E f \in [0 .. n -> Nat] : Sum(f, n)}
<1>1. L \in Nat
  BY DEF StreamType
<1>2. SUFFICES ASSUME B # {} PROVE FALSE
  OBVIOUS
<1>3. PICK m \in B : \A j \in B : m <= j
  <2>1. B \in SUBSET Nat
    BY <1>1
  <2> HIDE DEF B
  <2> QED BY <1>2, <2>1, Least
<1>4. CASE m = 0
  <2> DEFINE z == [u \in 0 .. 0 |-> 0]
  <2>1. z \in [0 .. 0 -> Nat] /\ Sum(z, 0)
    BY DEF EndAt
  <2> QED BY <1>3, <1>4, <2>1
<1>5. CASE m # 0
  <2>1. m \in Nat /\ m \in 1 .. L /\ m - 1 \in 0 .. L
    BY <1>1, <1>3, <1>5
  <2>2. m - 1 \notin B
    <3>1. ~(m <= m - 1)
      BY <2>1
    <3> HIDE DEF B
    <3> QED BY <1>3, <3>1
  <2>3. PICK f \in [0 .. m - 1 -> Nat] : Sum(f, m - 1)
    BY <2>1, <2>2
  <2> DEFINE r == RecordLen(m)
             g == [u \in 0 .. m |-> IF u = m THEN f[m - 1] + r ELSE f[u]]
  <2>4. r \in Nat
    BY <2>1, RecordLenType
  <2> HIDE DEF r
  <2>5. f[m - 1] \in Nat
    BY <2>1
  <2>6. g \in [0 .. m -> Nat]
    BY <2>1, <2>4, <2>5
  <2>7. ASSUME NEW u \in 0 .. m
        PROVE  g[u] = EndAt(g, u)
    <3>1. CASE u = m
      <4>1. g[m] = f[m - 1] + r /\ g[m - 1] = f[m - 1]
        BY <2>1
      <4> QED BY <1>5, <3>1, <4>1 DEF EndAt, r
    <3>2. CASE u # m /\ u = 0
      <4>1. g[0] = f[0] /\ f[0] = EndAt(f, 0)
        BY <2>1, <2>3, <3>2
      <4> QED BY <3>2, <4>1 DEF EndAt
    <3>3. CASE u # m /\ u # 0
      <4>1. g[u] = f[u] /\ g[u - 1] = f[u - 1]
        BY <2>1, <3>3
      <4>2. f[u] = EndAt(f, u)
        BY <2>1, <2>3, <3>3
      <4> QED BY <3>3, <4>1, <4>2 DEF EndAt
    <3> QED BY <3>1, <3>2, <3>3
  <2>8. Sum(g, m)
    BY <2>7
  <2> QED BY <1>3, <2>6, <2>8
<1> QED BY <1>4, <1>5

\* Ends satisfies its own equation: records lie end to end from byte 0 on.
LEMMA EndsUnfold ==
  ASSUME StreamType
  PROVE  /\ Ends \in [0 .. Len(stream) -> Nat]
         /\ Ends[0] = 0
         /\ \A u \in 1 .. Len(stream) : Ends[u] = Ends[u - 1] + RecordLen(u)
<1> DEFINE L == Len(stream)
           Rec(f) == f = [u \in 0 .. L |-> EndAt(f, u)]
<1>1. L \in Nat
  BY DEF StreamType
<1>2. PICK f \in [0 .. L -> Nat] : \A u \in 0 .. L : f[u] = EndAt(f, u)
  <2>1. L \in 0 .. L
    BY <1>1
  <2> QED BY <2>1, PrefixSums
<1>3. Rec(f)
  BY <1>2
<1>4. Rec(CHOOSE g : Rec(g))
  BY <1>3
<1>5. Ends = CHOOSE g : Rec(g)
  BY ZenonT(60) DEF Ends, EndAt
<1>6. Rec(Ends)
  BY <1>4, <1>5
<1> HIDE DEF L
<1>7. \A u \in 0 .. L : Ends[u] = EndAt(Ends, u)
  BY <1>6
<1>8. Ends[0] = 0 /\ \A u \in 1 .. L : Ends[u] = Ends[u - 1] + RecordLen(u)
  BY <1>1, <1>7 DEF EndAt
<1>9. \A u \in 0 .. L : Ends[u] \in Nat
  <2> DEFINE B == {u \in 0 .. L : Ends[u] \notin Nat}
  <2>1. SUFFICES ASSUME B # {} PROVE FALSE
    OBVIOUS
  <2>2. PICK m \in B : \A j \in B : m <= j
    <3>1. B \in SUBSET Nat
      BY <1>1
    <3> HIDE DEF B
    <3> QED BY <2>1, <3>1, Least
  <2>3. m # 0
    BY <1>8, <2>2
  <2>4. m \in 1 .. L /\ m - 1 \in 0 .. L /\ m - 1 \notin B
    BY <1>1, <2>2, <2>3
  <2>5. Ends[m - 1] \in Nat /\ RecordLen(m) \in Nat
    BY <2>4, RecordLenType DEF L
  <2>6. Ends[m] \in Nat
    BY <1>8, <2>4, <2>5
  <2> QED BY <2>2, <2>6
<1> QED BY <1>6, <1>8, <1>9 DEF L

\* A later record ends later.
LEMMA EndsGrow ==
  ASSUME StreamType, NEW u \in 0 .. Len(stream), NEW v \in 0 .. Len(stream),
         u < v
  PROVE  Ends[u] < Ends[v]
<1> DEFINE L == Len(stream)
           B == {w \in 0 .. L : u < w /\ ~(Ends[u] < Ends[w])}
<1>1. L \in Nat
  BY DEF StreamType
<1>2. SUFFICES ASSUME B # {} PROVE FALSE
  OBVIOUS
<1>3. PICK m \in B : \A j \in B : m <= j
  <2>1. B \in SUBSET Nat
    BY <1>1
  <2> HIDE DEF B
  <2> QED BY <1>2, <2>1, Least
<1>4. m \in 1 .. L /\ m - 1 \in 0 .. L /\ m - 1 \notin B
  BY <1>1, <1>3
<1>5. /\ Ends[m] = Ends[m - 1] + RecordLen(m)
      /\ Ends[u] \in Nat /\ Ends[m - 1] \in Nat
  BY <1>4, EndsUnfold
<1>6. RecordLen(m) \in Nat /\ RecordLen(m) > 0
  BY <1>4, RecordLenType, CaptureAssumption
<1>7. m - 1 = u \/ Ends[u] < Ends[m - 1]
  BY <1>1, <1>3, <1>4
<1> QED BY <1>3, <1>5, <1>6, <1>7

\* EndsUnfold as a state predicate, to be used of the next state.
EndsRight ==
  /\ Ends \in [0 .. Len(stream) -> Nat]
  /\ Ends[0] = 0
  /\ \A u \in 1 .. Len(stream) : Ends[u] = Ends[u - 1] + RecordLen(u)

\* In the next state, too, records lie end to end.
LEMMA EndsNext == StreamType' => EndsRight'
<1>1. StreamType => EndsRight
  BY EndsUnfold DEF EndsRight
<1> QED BY <1>1, PTL

\* A response that is sent leaves the records before it where they are.
LEMMA EndsStay ==
  ASSUME StreamType, NEW r \in Record, stream' = Append(stream, r)
  PROVE  /\ StreamType' /\ Len(stream) \in Nat
         /\ Len(stream') = Len(stream) + 1
         /\ \A u \in 1 .. Len(stream) : stream'[u] = stream[u]
         /\ \A u \in 0 .. Len(stream) : Ends'[u] = Ends[u]
         /\ StreamLen \in Nat /\ StreamLen' \in Nat /\ StreamLen <= StreamLen'
<1> DEFINE L == Len(stream)
<1>1. /\ StreamType' /\ L \in Nat /\ Len(stream') = L + 1
      /\ \A u \in 1 .. L : stream'[u] = stream[u]
  BY DEF StreamType
<1>2. EndsRight'
  BY <1>1, EndsNext
<1>3. \A u \in 0 .. L : Ends'[u] = Ends[u]
  <2> DEFINE B == {u \in 0 .. L : Ends'[u] # Ends[u]}
  <2>1. SUFFICES ASSUME B # {} PROVE FALSE
    OBVIOUS
  <2>2. PICK m \in B : \A j \in B : m <= j
    <3>1. B \in SUBSET Nat
      BY <1>1
    <3> HIDE DEF B
    <3> QED BY <2>1, <3>1, Least
  <2>3. m # 0
    BY <1>2, <2>2, EndsUnfold DEF EndsRight
  <2>4. m \in 1 .. L /\ m - 1 \in 0 .. L /\ m - 1 \notin B
    BY <1>1, <2>2, <2>3
  <2>5. m \in 1 .. Len(stream')
    BY <1>1, <2>4
  <2>6. Ends'[m] = Ends'[m - 1] + RecordLen(m)'
    BY <1>2, <2>5 DEF EndsRight
  <2>7. Ends[m] = Ends[m - 1] + RecordLen(m)
    BY <2>4, EndsUnfold
  <2>8. RecordLen(m)' = RecordLen(m)
    BY <1>1, <2>4 DEF RecordLen
  <2> QED BY <2>2, <2>4, <2>6, <2>7, <2>8
<1>4. StreamLen \in Nat
  BY <1>1, EndsUnfold DEF StreamLen
<1>5. PICK l \in Nat : l = L
  BY <1>1
<1>6. /\ StreamLen' = Ends'[l] + RecordLen(l + 1)'
      /\ RecordLen(l + 1)' \in Nat
  <2>1. l + 1 \in 1 .. Len(stream')
    BY <1>1, <1>5
  <2>2. Ends'[l + 1] = Ends'[l] + RecordLen(l + 1)'
    BY <1>2, <2>1 DEF EndsRight
  <2>3. stream'[l + 1] = r
    <3>1. stream \in Seq(Record) /\ l = Len(stream)
      BY <1>5 DEF StreamType
    <3>2. Append(stream, r)[l + 1] = r
      BY <3>1, AppendProperties
    <3> QED BY <3>2
  <2>4. r.size \in Nat
    <3>1. r.size \in Sizes
      BY DEF Record
    <3>2. r.size \in 1 .. MaxOrig
      BY <3>1, CaptureAssumption
    <3> QED BY <3>2, CaptureAssumption
  <2>5. RecordLen(l + 1)' = Tls + Pb + r.size
    BY <2>3 DEF RecordLen
  <2>6. RecordLen(l + 1)' \in Nat
    BY <2>4, <2>5, CaptureAssumption
  <2> QED BY <1>1, <1>5, <2>2, <2>6 DEF StreamLen
<1>7. Ends'[l] = StreamLen
  BY <1>1, <1>3, <1>5 DEF StreamLen
<1>8. StreamLen' \in Nat /\ StreamLen <= StreamLen'
  BY <1>4, <1>6, <1>7
<1> QED BY <1>1, <1>3, <1>4, <1>8

----------------------------------------------------------------------------
(* Segments *)

\* At most one record begins at a byte.
LEMMA OneRecordAt ==
  ASSUME StreamType, NEW a, NEW u \in RecordAt(a), NEW v \in RecordAt(a)
  PROVE  u = v
<1>1. /\ Len(stream) \in Nat
      /\ u - 1 \in 0 .. Len(stream) /\ v - 1 \in 0 .. Len(stream)
      /\ u \in Nat /\ v \in Nat
      /\ Ends[u - 1] = Ends[v - 1]
  BY DEF RecordAt, StreamType
<1>2. Ends[u - 1] \in Nat
  BY <1>1, EndsUnfold
<1>3. ~(u - 1 < v - 1) /\ ~(v - 1 < u - 1)
  BY <1>1, <1>2, EndsGrow
<1> QED BY <1>1, <1>3

\* A segment that is just the record of u holds the data of u.
LEMMA OwnSegment ==
  ASSUME StreamType, NEW a \in Nat, NEW b \in Nat, NEW u \in RecordAt(a),
         Ends[u] = b
  PROVE  DataSize(a, b) = stream[u].size
<1>1. u \in 1 .. Len(stream) /\ Ends[u - 1] = a
  BY DEF RecordAt
<1>2. b = a + RecordLen(u)
  BY <1>1, EndsUnfold
<1>3. RecordLen(u) = Tls + Pb + stream[u].size /\ stream[u].size \in Int
  BY <1>1, RecordLenType
<1> QED BY <1>2, <1>3, CaptureAssumption DEF DataSize

\* The size test of build_packet keeps several records in one segment from
\* being taken for one: whole records whose data fits the first of them are
\* that record and no more.
LEMMA WholeIsOne ==
  ASSUME StreamType, NEW a \in Nat, NEW b \in Nat, a < b,
         WholeRecords(a, b), NEW u \in RecordAt(a),
         DataSize(a, b) <= stream[u].size
  PROVE  b = Ends[u] /\ DataSize(a, b) = stream[u].size
<1>1. PICK v \in 1 .. Len(stream) : Ends[v] = b
  BY DEF WholeRecords
<1>2. /\ Len(stream) \in Nat /\ u \in 1 .. Len(stream)
      /\ u - 1 \in 0 .. Len(stream) /\ Ends[u - 1] = a
      /\ u \in 0 .. Len(stream) /\ v \in 0 .. Len(stream)
  BY <1>1 DEF RecordAt, StreamType
<1>3. Ends[u] = a + RecordLen(u)
  BY <1>2, EndsUnfold
<1>4. ~(v < u - 1) /\ v # u - 1
  BY <1>1, <1>2, EndsGrow
<1>5. ~(u < v)
  <2> SUFFICES ASSUME u < v PROVE FALSE
    OBVIOUS
  <2>1. Ends[u] < b
    BY <1>1, <1>2, EndsGrow
  <2>2. RecordLen(u) = Tls + Pb + stream[u].size /\ stream[u].size \in Int
    BY <1>2, RecordLenType
  <2> QED BY <1>3, <2>1, <2>2, CaptureAssumption DEF DataSize
<1>6. u = v
  BY <1>1, <1>2, <1>4, <1>5
<1> QED BY <1>1, <1>6, OwnSegment

\* What build_packet reads: the header of the record, or any bytes.
LEMMA HeaderType ==
  ASSUME StreamType, Len(stream) <= MaxResponses, NEW a, NEW h \in Headers(a)
  PROVE  /\ h.id \in Ids /\ h.offset = 0 /\ h.orig \in 0 .. MaxOrig
         /\ h.of \in SUBSET (Uids \cup {0})
         /\ \/ RecordAt(a) = {} /\ h.of = {0}
            \/ \E u \in RecordAt(a) :
                 /\ h.id = stream[u].id /\ h.orig = stream[u].size
                 /\ h.of = {u}
<1>1. CASE RecordAt(a) = {}
  <2>1. h \in [id: Ids, offset: {0}, orig: 0 .. MaxOrig, of: {{0}}]
    BY <1>1 DEF Headers
  <2> QED BY <1>1, <2>1
<1>2. CASE RecordAt(a) # {}
  <2>1. PICK u \in RecordAt(a) :
          h = [id |-> stream[u].id, offset |-> 0, orig |-> stream[u].size,
               of |-> {u}]
    BY <1>2 DEF Headers
  <2>2. /\ h.id = stream[u].id /\ h.offset = 0 /\ h.orig = stream[u].size
        /\ h.of = {u}
    BY <2>1
  <2>3. u \in 1 .. Len(stream) /\ Len(stream) \in Nat
    BY DEF RecordAt, StreamType
  <2>4. stream[u].size \in 1 .. MaxOrig /\ stream[u].id \in Ids
    BY <2>3, RecordLenType
  <2>5. u \in Uids
    BY <2>3, CaptureAssumption DEF Uids
  <2> QED BY <2>2, <2>4, <2>5, CaptureAssumption
<1> QED BY <1>1, <1>2

----------------------------------------------------------------------------
(* The inductive invariant *)

\* A builder holds only data of responses that were sent under its id.
BuilderHasOwnId(i, b) ==
  \A u \in b.of \ {0} : u \in 1 .. Len(stream) /\ stream[u].id = i

BuildersHaveOwnIds ==
  \A i \in DOMAIN builders : BuilderHasOwnId(i, builders[i])

\* A response that was not sent has neither arrived nor been handed on.
NothingBeforeSent ==
  \A u \in Uids : u > Len(stream) => handed[u] = 0 /\ alone[u] = 0

CaptureInv ==
  /\ TypeOK
  /\ BuildersHaveOwnIds
  /\ NothingBeforeSent
  /\ LeftoversFromPieces
  /\ OnlyPiecesMix
  /\ HandedOnWhenAlone

\* The server sends a response: nothing is said of it yet.
LEMMA SendKeeps ==
  ASSUME CaptureInv, NEW size \in Sizes, SendResponse(size)
  PROVE  CaptureInv'
<1> USE DEF CaptureInv, clientVars
<1> DEFINE r == [id |-> lastId, size |-> size]
<1>1. StreamType /\ r \in Record /\ stream' = Append(stream, r)
  BY DEF TypeOK, StreamType, Record, SendResponse
<1> HIDE DEF r
<1>2. /\ StreamType' /\ Len(stream) \in Nat /\ Len(stream') = Len(stream) + 1
      /\ \A u \in 1 .. Len(stream) : stream'[u] = stream[u]
      /\ StreamLen \in Nat /\ StreamLen' \in Nat /\ StreamLen <= StreamLen'
  BY <1>1, EndsStay
<1>3. /\ Len(stream) < MaxResponses /\ lastId' = NextId
      /\ UNCHANGED <<others, sentTo, builders, running, handed, bad, segments,
                     alone, spoiled>>
  BY DEF SendResponse
<1>4. lastId' \in Ids
  BY <1>3, CaptureAssumption DEF NextId, TypeOK, Ids
<1>5. sentTo' \in 0 .. StreamLen'
  BY <1>2, <1>3 DEF TypeOK
<1>6. Len(stream') <= MaxResponses /\ Len(stream') \in Uids
  BY <1>2, <1>3, CaptureAssumption DEF Uids
<1>7. stream' \in Seq([id: Ids, size: Sizes])
  BY <1>2 DEF StreamType, Record
<1>8. TypeOK'
  BY <1>3, <1>4, <1>5, <1>6, <1>7 DEF TypeOK, Full
<1>9. BuildersHaveOwnIds'
  BY <1>2, <1>3 DEF BuildersHaveOwnIds, BuilderHasOwnId
<1>10. NothingBeforeSent'
  BY <1>2, <1>3, CaptureAssumption DEF NothingBeforeSent, Uids
<1>11. LeftoversFromPieces' /\ OnlyPiecesMix'
  BY <1>3 DEF LeftoversFromPieces, OnlyPiecesMix
<1>12. HandedOnWhenAlone'
  <2> SUFFICES ASSUME NEW u \in 1 .. Len(stream'), stream'[u].id \notin spoiled
               PROVE  handed[u] = alone[u]
    BY <1>3 DEF HandedOnWhenAlone
  <2>1. CASE u <= Len(stream)
    BY <1>2, <2>1 DEF HandedOnWhenAlone
  <2>2. CASE u > Len(stream)
    <3>1. u \in Uids
      BY <1>2, <1>6, <2>2
    <3> QED BY <2>2, <3>1 DEF NothingBeforeSent
  <2> QED BY <1>2, <2>1, <2>2
<1> QED BY <1>8, <1>9, <1>10, <1>11, <1>12

\* What one accepted segment does: its data goes to a builder of its own id,
\* and if no piece was ever stored under that id the segment is one record,
\* the builder is new, full at once, and that response.
LEMMA AcceptedSegment ==
  ASSUME CaptureInv, NEW a \in Nat, NEW b \in Nat, a < b,
         NEW h \in Headers(a), Accepted(h, DataSize(a, b))
  PROVE  LET n   == DataSize(a, b)
             new == Built(h, n)
         IN  /\ h.id \in Ids
             /\ new \in Builder
             /\ BuilderHasOwnId(h.id, new)
             /\ h.id \in spoiled \/ ~WholeRecords(a, b)
                  \/ /\ Full(new) /\ IsResponse(new)
                     /\ \E u \in RecordAt(a) : new.of = {u} /\ Ends[u] = b
<1> USE DEF CaptureInv
<1> DEFINE n   == DataSize(a, b)
           new == Built(h, n)
<1>1. StreamType /\ Len(stream) <= MaxResponses /\ Len(stream) \in Nat
  BY DEF TypeOK, StreamType, Record
<1>2. /\ h.id \in Ids /\ h.offset = 0 /\ h.orig \in 0 .. MaxOrig
      /\ h.of \in SUBSET (Uids \cup {0})
      /\ \/ RecordAt(a) = {} /\ h.of = {0}
         \/ \E u \in RecordAt(a) :
              /\ h.id = stream[u].id /\ h.orig = stream[u].size
              /\ h.of = {u}
  BY <1>1, HeaderType
<1>3. n \in Nat /\ n <= h.orig
  BY <1>2, CaptureAssumption DEF Accepted, DataSize
<1>4. \A u \in h.of \ {0} : u \in 1 .. Len(stream) /\ stream[u].id = h.id
  BY <1>2 DEF RecordAt
<1> HIDE DEF n
<1>5. CASE h.id \in DOMAIN builders
  <2> DEFINE old == builders[h.id]
  <2>1. old \in Builder /\ BuilderHasOwnId(h.id, old)
    BY <1>5 DEF TypeOK, BuildersHaveOwnIds
  <2>2. new = [old EXCEPT !.size = @ + n, !.of = @ \cup h.of]
    BY <1>5 DEF Built
  <2> HIDE DEF old, new
  <2>3. new \in Builder /\ new.of = old.of \cup h.of
    <3>1. /\ old.orig \in 0 .. MaxOrig /\ old.size + n \in Nat
          /\ old.of \cup h.of \in SUBSET (Uids \cup {0})
      BY <1>2, <1>3, <2>1 DEF Builder
    <3>2. new = [orig |-> old.orig, size |-> old.size + n,
                 of |-> old.of \cup h.of]
      BY <2>1, <2>2 DEF Builder
    <3> QED BY <3>1, <3>2 DEF Builder
  <2>4. BuilderHasOwnId(h.id, new)
    BY <1>4, <2>1, <2>3 DEF BuilderHasOwnId
  <2>5. h.id \in spoiled
    BY <1>5 DEF LeftoversFromPieces
  <2> QED BY <1>2, <2>3, <2>4, <2>5 DEF new, n
<1>6. CASE h.id \notin DOMAIN builders
  <2>1. new = [orig |-> h.orig, size |-> n, of |-> h.of]
    BY <1>6 DEF Built
  <2> HIDE DEF new
  <2>2. /\ new \in Builder /\ new.of = h.of /\ new.size = n
        /\ new.orig = h.orig
    BY <1>2, <1>3, <2>1 DEF Builder
  <2>3. BuilderHasOwnId(h.id, new)
    BY <1>4, <2>2 DEF BuilderHasOwnId
  <2>4. ASSUME WholeRecords(a, b)
        PROVE  /\ Full(new) /\ IsResponse(new)
               /\ \E u \in RecordAt(a) : new.of = {u} /\ Ends[u] = b
    <3>1. PICK u \in RecordAt(a) : h.orig = stream[u].size /\ h.of = {u}
      BY <1>2, <2>4 DEF WholeRecords
    <3>2. b = Ends[u] /\ n = stream[u].size
      BY <1>1, <1>3, <2>4, <3>1, WholeIsOne DEF n
    <3>3. u \in 1 .. Len(stream)
      BY DEF RecordAt
    <3> QED BY <2>2, <3>1, <3>2, <3>3 DEF Full, IsResponse
  <2> QED BY <1>2, <2>2, <2>3, <2>4 DEF new, n
<1> QED BY <1>5, <1>6 DEF n

\* As long as nothing is sent the stream has its length.
LEMMA StreamLenStays ==
  ASSUME UNCHANGED stream
  PROVE  StreamLen' = StreamLen
  BY DEF StreamLen, Ends, RecordLen

\* A segment lies in the stream, and afterwards its bytes have been sent.
LEMMA DivertType ==
  ASSUME TypeOK, NEW a, NEW b, Divert(a, b), UNCHANGED stream
  PROVE  /\ a \in Nat /\ b \in Nat /\ a < b
         /\ segments' \in 0 .. MaxSegments
         /\ sentTo' \in 0 .. StreamLen'
<1>1. StreamType
  BY DEF TypeOK, StreamType, Record
<1>2. Len(stream) \in Nat /\ StreamLen \in Nat
  BY <1>1, EndsUnfold DEF StreamLen, StreamType
<1>3. a \in 0 .. sentTo /\ b \in a + 1 .. StreamLen /\ sentTo \in 0 .. StreamLen
  BY DEF Divert, Segment, TypeOK
<1>4. a \in Nat /\ b \in Nat /\ a < b /\ b <= StreamLen
  BY <1>2, <1>3
<1>5. sentTo' \in 0 .. StreamLen
  BY <1>2, <1>3, <1>4 DEF Divert
<1>6. segments' \in 0 .. MaxSegments
  BY CaptureAssumption DEF Divert, TypeOK
<1> QED BY <1>4, <1>5, <1>6, StreamLenStays

\* One turn of the capture loop.
LEMMA CaptureKeeps ==
  ASSUME CaptureInv, NEW a, NEW b, Capture(a, b)
  PROVE  CaptureInv'
<1> USE DEF CaptureInv
<1>1. /\ UNCHANGED <<lastId, others, stream, running>>
      /\ Divert(a, b)
  BY DEF Capture, serverVars
<1>2. /\ a \in Nat /\ b \in Nat /\ a < b /\ segments' \in 0 .. MaxSegments
      /\ sentTo' \in 0 .. StreamLen'
  BY <1>1, DivertType
<1>3. StreamType /\ Len(stream) <= MaxResponses /\ Len(stream) \in Nat
  BY DEF TypeOK, StreamType, Record
<1> DEFINE n == DataSize(a, b)
<1>4. PICK h \in Headers(a) :
        /\ Decode(h, n)
        /\ spoiled' = IF ~WholeRecords(a, b) /\ Accepted(h, n)
                      THEN spoiled \cup {h.id} ELSE spoiled
  BY DEF Capture
<1>5. alone' = [u \in Uids |-> IF u \in RecordAt(a) /\ Ends[u] = b
                               THEN alone[u] + 1 ELSE alone[u]]
  BY DEF Capture
<1>6. /\ h.id \in Ids /\ h.offset = 0
      /\ \A u \in RecordAt(a) : h.id = stream[u].id /\ h.orig = stream[u].size
  BY <1>3, HeaderType, OneRecordAt
<1>7. \A u \in RecordAt(a) : u \in 1 .. Len(stream) /\ u \in Uids
  BY <1>3, CaptureAssumption DEF RecordAt, Uids
<1>8. alone' \in [Uids -> Nat] /\ spoiled' \subseteq Ids /\ spoiled \subseteq spoiled'
  BY <1>4, <1>5, <1>6 DEF TypeOK
<1>9. \A u \in Uids : u > Len(stream) => alone'[u] = 0
  BY <1>3, <1>5, <1>7 DEF NothingBeforeSent
<1> HIDE DEF n
<1>10. CASE ~Accepted(h, n)
  <2>1. UNCHANGED <<builders, handed, bad>>
    BY <1>4, <1>10 DEF Decode
  <2>2. TypeOK'
    BY <1>1, <1>2, <1>8, <2>1 DEF TypeOK, Full
  <2>3. BuildersHaveOwnIds' /\ LeftoversFromPieces' /\ OnlyPiecesMix'
    BY <1>1, <1>8, <2>1 DEF BuildersHaveOwnIds, BuilderHasOwnId,
                            LeftoversFromPieces, OnlyPiecesMix
  <2>4. NothingBeforeSent'
    BY <1>1, <1>9, <2>1 DEF NothingBeforeSent
  <2>5. ASSUME NEW u \in RecordAt(a), Ends[u] = b
        PROVE  FALSE
    <3>1. n = stream[u].size /\ h.orig = stream[u].size
      BY <1>2, <1>3, <1>6, <2>5, OwnSegment DEF n
    <3>2. stream[u].size \in 1 .. MaxOrig
      BY <1>3, <1>7, RecordLenType
    <3>3. stream[u].size \in Nat /\ stream[u].size > 0
      BY <3>2, CaptureAssumption
    <3> QED BY <1>6, <1>10, <3>1, <3>3 DEF Accepted
  <2>6. \A u \in 1 .. Len(stream) : alone'[u] = alone[u]
    <3>1. \A u \in 1 .. Len(stream) : u \in Uids
      BY <1>3, CaptureAssumption DEF Uids
    <3> QED BY <1>5, <2>5, <3>1
  <2>7. HandedOnWhenAlone'
    BY <1>1, <1>8, <2>1, <2>6 DEF HandedOnWhenAlone
  <2> QED BY <2>2, <2>3, <2>4, <2>7
<1>11. CASE Accepted(h, n)
  <2> DEFINE new == Built(h, n)
  <2>1. /\ new \in Builder /\ BuilderHasOwnId(h.id, new)
        /\ \/ h.id \in spoiled'
           \/ /\ Full(new) /\ IsResponse(new)
              /\ \E u \in RecordAt(a) : new.of = {u} /\ Ends[u] = b
    BY <1>2, <1>4, <1>8, <1>11, AcceptedSegment DEF n
  <2>2. \/ /\ ~Full(new)
           /\ builders' = [i \in DOMAIN builders \cup {h.id} |->
                             IF i = h.id THEN new ELSE builders[i]]
           /\ UNCHANGED <<handed, bad>>
        \/ Full(new) /\ HandOn(h.id, new)
    BY <1>4, <1>11 DEF Decode
  <2> HIDE DEF new
  <2>3. \A u \in 1 .. Len(stream) : u \in Uids
    BY <1>3, CaptureAssumption DEF Uids
  \* Who is handed on, and under which id something else is.
  <2>4. /\ handed' \in [Uids -> Nat] /\ bad' \subseteq spoiled'
        /\ \/ UNCHANGED handed /\ ~(Full(new) /\ IsResponse(new))
           \/ /\ Full(new) /\ IsResponse(new)
              /\ handed' = [u \in Uids |-> IF u \in new.of THEN handed[u] + 1
                                           ELSE handed[u]]
    <3>1. CASE ~Full(new)
      <4>1. UNCHANGED <<handed, bad>>
        BY <2>2, <3>1
      <4> QED BY <1>8, <3>1, <4>1 DEF TypeOK, OnlyPiecesMix
    <3>2. CASE Full(new) /\ IsResponse(new)
      <4>1. /\ handed' = [u \in Uids |-> IF u \in new.of THEN handed[u] + 1
                                         ELSE handed[u]]
            /\ UNCHANGED bad
        BY <2>2, <3>2 DEF HandOn
      <4> QED BY <1>8, <3>2, <4>1 DEF TypeOK, OnlyPiecesMix
    <3>3. CASE Full(new) /\ ~IsResponse(new)
      BY <1>8, <2>1, <2>2, <3>3 DEF HandOn, TypeOK, OnlyPiecesMix
    <3> QED BY <3>1, <3>2, <3>3
  <2>5. /\ DOMAIN builders' \subseteq DOMAIN builders \cup {h.id}
        /\ DOMAIN builders' \subseteq spoiled'
        /\ \A i \in DOMAIN builders' :
             \/ i \in DOMAIN builders /\ builders'[i] = builders[i]
             \/ i = h.id /\ builders'[i] = new /\ ~Full(new)
    BY <1>8, <2>1, <2>2 DEF HandOn, LeftoversFromPieces
  <2>6. TypeOK'
    BY <1>1, <1>2, <1>6, <1>8, <2>1, <2>4, <2>5 DEF TypeOK, Full
  <2>7. BuildersHaveOwnIds'
    BY <1>1, <2>1, <2>5 DEF BuildersHaveOwnIds, BuilderHasOwnId
  <2>8. NothingBeforeSent'
    <3>1. \A u \in Uids : u > Len(stream) => handed'[u] = 0
      <4>1. IsResponse(new) => \A u \in new.of : ~(u > Len(stream))
        BY <1>3 DEF IsResponse
      <4> QED BY <2>4, <4>1 DEF NothingBeforeSent
    <3> QED BY <1>1, <1>9, <3>1 DEF NothingBeforeSent
  <2>9. LeftoversFromPieces' /\ OnlyPiecesMix'
    BY <2>4, <2>5 DEF LeftoversFromPieces, OnlyPiecesMix
  <2>10. HandedOnWhenAlone'
    <3> SUFFICES ASSUME NEW u \in 1 .. Len(stream),
                        stream[u].id \notin spoiled'
                 PROVE  handed'[u] = alone'[u]
      BY <1>1 DEF HandedOnWhenAlone
    <3>1. handed[u] = alone[u] /\ u \in Uids /\ u # 0
      BY <1>8, <2>3 DEF HandedOnWhenAlone
    <3>2. CASE h.id \in spoiled'
      <4>1. u \notin RecordAt(a) /\ u \notin new.of
        BY <1>6, <2>1, <3>1, <3>2 DEF BuilderHasOwnId
      <4>2. alone'[u] = alone[u] /\ handed'[u] = handed[u]
        BY <1>5, <2>4, <3>1, <4>1
      <4> QED BY <3>1, <4>2
    <3>3. CASE h.id \notin spoiled'
      <4>1. /\ Full(new) /\ IsResponse(new)
            /\ \E v \in RecordAt(a) : new.of = {v} /\ Ends[v] = b
        BY <2>1, <3>3
      <4>2. PICK v \in RecordAt(a) : new.of = {v} /\ Ends[v] = b
        BY <4>1
      <4>3. handed'[u] = IF u = v THEN handed[u] + 1 ELSE handed[u]
        BY <2>4, <3>1, <4>1, <4>2
      <4>4. alone'[u] = IF u = v THEN alone[u] + 1 ELSE alone[u]
        BY <1>3, <1>5, <3>1, <4>2, OneRecordAt
      <4> QED BY <3>1, <4>3, <4>4
    <3> QED BY <3>2, <3>3
  <2> QED BY <2>6, <2>7, <2>8, <2>9, <2>10
<1> QED BY <1>10, <1>11

----------------------------------------------------------------------------
(* The theorems *)

\* In every behaviour of the server, the connection and the capture loop the
\* invariant holds.
THEOREM CaptureInvariant == Spec => []CaptureInv
<1>1. Init => CaptureInv
  <2> SUFFICES ASSUME Init PROVE CaptureInv
    OBVIOUS
  <2> USE DEF Init
  <2>1. StreamType /\ Len(stream) = 0
    BY DEF StreamType
  <2>2. StreamLen = 0
    BY <2>1, EndsUnfold DEF StreamLen
  <2>3. \A i \in DOMAIN builders :
          /\ i = HelloId /\ builders[i].of = {0}
          /\ builders[i] \in Builder /\ ~Full(builders[i])
    <3>1. CASE builders \in HelloLeftovers
      <4>1. PICK m \in 2 .. MaxOrig :
              builders = [id \in {HelloId} |-> [orig |-> m, size |-> 1, of |-> {0}]]
        BY <3>1 DEF HelloLeftovers
      <4>2. m \in 0 .. MaxOrig /\ m # 1
        BY <4>1, CaptureAssumption
      <4> QED BY <4>1, <4>2 DEF Builder, Full
    <3>2. CASE builders = [id \in {} |-> 0]
      BY <3>2
    <3> QED BY <3>1, <3>2
  <2>4. DOMAIN builders \subseteq Ids
    BY <2>3, CaptureAssumption DEF Ids
  <2>5. TypeOK
    BY <2>1, <2>2, <2>3, <2>4, CaptureAssumption DEF TypeOK, Ids
  <2>6. BuildersHaveOwnIds
    BY <2>3 DEF BuildersHaveOwnIds, BuilderHasOwnId
  <2>7. NothingBeforeSent /\ LeftoversFromPieces /\ OnlyPiecesMix
    BY DEF NothingBeforeSent, LeftoversFromPieces, OnlyPiecesMix
  <2>8. HandedOnWhenAlone
    BY <2>1 DEF HandedOnWhenAlone
  <2> QED BY <2>5, <2>6, <2>7, <2>8 DEF CaptureInv
<1>2. CaptureInv /\ [Next]_vars => CaptureInv'
  <2> SUFFICES ASSUME CaptureInv, [Next]_vars PROVE CaptureInv'
    OBVIOUS
  <2>1. ASSUME NEW size \in Sizes, SendResponse(size)
        PROVE  CaptureInv'
    BY <2>1, SendKeeps
  <2>2. ASSUME UNCHANGED <<stream, sentTo, clientVars, segments, alone, spoiled>>,
               lastId' \in Ids, others' \in 0 .. MaxOthers
        PROVE  CaptureInv'
    <3>1. StreamLen' = StreamLen
      BY <2>2, StreamLenStays
    <3>2. TypeOK'
      BY <2>2, <3>1 DEF CaptureInv, TypeOK, clientVars, Full
    <3> QED BY <2>2, <3>2
            DEF CaptureInv, clientVars, BuildersHaveOwnIds, BuilderHasOwnId,
                NothingBeforeSent, LeftoversFromPieces, OnlyPiecesMix,
                HandedOnWhenAlone
  <2>3. CASE SendToOther
    <3>1. lastId' \in Ids /\ others' \in 0 .. MaxOthers
      BY <2>3, CaptureAssumption
         DEF SendToOther, NextId, CaptureInv, TypeOK, Ids
    <3> QED BY <2>2, <2>3, <3>1 DEF SendToOther
  <2>4. ASSUME NEW a, NEW b, Capture(a, b)
        PROVE  CaptureInv'
    BY <2>4, CaptureKeeps
  <2>5. ASSUME NEW a, NEW b, CaptureThrows(a, b)
        PROVE  CaptureInv'
    <3>1. /\ UNCHANGED <<lastId, others, stream, builders, handed, bad, alone,
                         spoiled>>
          /\ running' = FALSE /\ Divert(a, b)
      BY <2>5 DEF CaptureThrows, serverVars
    <3>2. segments' \in 0 .. MaxSegments /\ sentTo' \in 0 .. StreamLen'
      BY <3>1, DivertType DEF CaptureInv
    <3>3. TypeOK'
      BY <3>1, <3>2 DEF CaptureInv, TypeOK, Full
    <3> QED BY <3>1, <3>3
            DEF CaptureInv, BuildersHaveOwnIds, BuilderHasOwnId,
                NothingBeforeSent, LeftoversFromPieces, OnlyPiecesMix,
                HandedOnWhenAlone
  <2>6. CASE UNCHANGED vars
    BY <2>2, <2>6 DEF vars, serverVars, CaptureInv, TypeOK
  <2> QED BY <2>1, <2>3, <2>4, <2>5, <2>6 DEF Next
<1> QED BY <1>1, <1>2, PTL DEF Spec

\* Ids, positions and builders keep their types, and a full builder is taken
\* out by the turn of the loop that filled it.
THEOREM CaptureTypeCorrect == Spec => []TypeOK
<1>1. CaptureInv => TypeOK
  BY DEF CaptureInv
<1> QED BY <1>1, CaptureInvariant, PTL

\* A response is handed on exactly as often as it comes in a segment of its
\* own, unless a piece of a record was once stored under its id: for every
\* width of the id, every cutting and every resending.
THEOREM HandedOnCorrect == Spec => []HandedOnWhenAlone
<1>1. CaptureInv => HandedOnWhenAlone
  BY DEF CaptureInv
<1> QED BY <1>1, CaptureInvariant, PTL

\* What is handed on and is not a response has an id under which a piece of a
\* record was stored.
THEOREM MixCorrect == Spec => []OnlyPiecesMix
<1>1. CaptureInv => OnlyPiecesMix
  BY DEF CaptureInv
<1> QED BY <1>1, CaptureInvariant, PTL

\* Builders stay behind only under such ids.
THEOREM LeftoversCorrect == Spec => []LeftoversFromPieces
<1>1. CaptureInv => LeftoversFromPieces
  BY DEF CaptureInv
<1> QED BY <1>1, CaptureInvariant, PTL

----------------------------------------------------------------------------
(* Texts *)

\* Text joined with text is text.
LEMMA AndTextType ==
  ASSUME NEW x \in Texts, NEW y \in Texts
  PROVE  AndText(x, y) \in Texts
<1>1. CASE x = <<>> \/ y = <<>>
  BY <1>1 DEF AndText
<1>2. CASE x # <<>> /\ y # <<>>
  <2>1. Front(x) \in Texts /\ Last(x) \in Seq(Literals)
    BY <1>2 DEF Texts, Front, Last
  <2>2. Head(y) \in Seq(Literals) /\ Tail(y) \in Texts
    BY <1>2 DEF Texts
  <2>3. << Last(x) \o Head(y) >> \in Texts
    BY <2>1, <2>2 DEF Texts
  <2>4. Front(x) \o << Last(x) \o Head(y) >> \o Tail(y) \in Texts
    BY <2>1, <2>2, <2>3 DEF Texts
  <2> QED BY <1>2, <2>4 DEF AndText
<1> QED BY <1>1, <1>2

\* operator! changes a counter somewhere, and neither the type of the text
\* nor the number of its alternatives.
LEMMA NotTextType ==
  ASSUME NEW x \in Texts
  PROVE  NotText(x) \in Texts /\ Len(NotText(x)) = Len(x)
<1> DEFINE a == NotAt(x)[1]
           b == NotAt(x)[2]
           lit == [x[a][b] EXCEPT !.neg = @ + 1]
           alt == [x[a] EXCEPT ![b] = lit]
           y == [x EXCEPT ![a] = alt]
<1>1. NotText(x) = y
  BY DEF NotText
<1> HIDE DEF a, b
<1>2. CASE a \notin DOMAIN x
  <2>1. y = x
    BY <1>2 DEF Texts
  <2> QED BY <1>1, <2>1
<1>3. CASE a \in DOMAIN x
  <2>1. x[a] \in Seq(Literals)
    BY <1>3 DEF Texts
  <2>2. alt \in Seq(Literals)
    <3>1. CASE b \notin DOMAIN x[a]
      <4>1. alt = x[a]
        BY <3>1, <2>1
      <4> QED BY <2>1, <4>1
    <3>2. CASE b \in DOMAIN x[a]
      <4>1. x[a][b] \in Literals
        BY <3>2, <2>1
      <4>2. lit \in Literals
        BY <4>1 DEF Literals
      <4> HIDE DEF lit
      <4> QED BY <2>1, <3>2, <4>2
    <3> QED BY <3>1, <3>2
  <2> HIDE DEF alt
  <2>3. y \in Seq(Seq(Literals)) /\ Len(y) = Len(x)
    BY <1>3, <2>2 DEF Texts
  <2> QED BY <1>1, <2>3 DEF Texts
<1> QED BY <1>2, <1>3

\* A text without an "or" has one alternative.
LEMMA OneAlternative ==
  ASSUME NEW x \in Texts, Len(x) = 1
  PROVE  DOMAIN x = {1} /\ x # <<>> /\ x[1] \in Seq(Literals)
<1>1. DOMAIN x = 1 .. 1 /\ x # <<>>
  <2>1. DOMAIN x = 1 .. Len(x)
    BY DEF Texts
  <2>2. x # <<>>
    BY EmptySeq
  <2> QED BY <2>1, <2>2
<1>2. DOMAIN x = {1}
  BY <1>1
<1>3. x[1] \in Seq(Literals)
  BY <1>2, ElementOfSeq DEF Texts
<1> QED BY <1>1, <1>2, <1>3

\* What && makes of two texts without an "or": one alternative.
LEMMA AndTextOne ==
  ASSUME NEW x \in Texts, NEW y \in Texts, Len(x) = 1, Len(y) = 1
  PROVE  AndText(x, y) = << x[1] \o y[1] >>
<1>1. x # <<>> /\ y # <<>>
  BY DEF Texts
<1>2. Front(x) = <<>> /\ Last(x) = x[1]
  <2>1. Front(x) \in Texts /\ Len(Front(x)) = 0
    BY <1>1 DEF Texts, Front
  <2>2. Front(x) = <<>>
    BY <2>1, EmptySeq DEF Texts
  <2> QED BY <2>2 DEF Last
<1>3. Head(y) = y[1] /\ Tail(y) = <<>>
  <2>1. Tail(y) \in Texts /\ Len(Tail(y)) = 0
    BY <1>1 DEF Texts
  <2>2. Tail(y) = <<>>
    BY <2>1, EmptySeq DEF Texts
  <2>3. Head(y) = y[1]
    BY <1>1 DEF Texts
  <2> QED BY <2>2, <2>3
<1> DEFINE z == x[1] \o y[1]
<1>5. AndText(x, y) = <<>> \o <<z>> \o <<>>
  BY <1>1, <1>2, <1>3 DEF AndText
<1> HIDE DEF z
<1>6. <<>> \o <<z>> \o <<>> = <<z>>
  OBVIOUS
<1> QED BY <1>5, <1>6 DEF z

\* A literal that WinDivert accepts and that holds for a packet.
Passes(p, lit) ==
  /\ IsComparison(lit) => /\ lit.neg <= 1
                          /\ lit.atom[1] \notin {"ip6.SrcAddr", "ip6.DstAddr"}
  /\ LiteralHolds(p, lit)

\* A text without an "or" diverts the packets for which all its literals
\* are accepted and hold.
LEMMA MatchedOne ==
  ASSUME NEW x \in Texts, Len(x) = 1, NEW p
  PROVE  p \in Matched(x) <=>
           /\ p \in Packets
           /\ \A j \in DOMAIN x[1] : Passes(p, x[1][j])
<1>1. DOMAIN x = {1} /\ x # <<>>
  BY OneAlternative
<1>2. Valid(x) <=> \A j \in DOMAIN x[1] :
                     IsComparison(x[1][j]) =>
                       /\ x[1][j].neg <= 1
                       /\ x[1][j].atom[1] \notin {"ip6.SrcAddr", "ip6.DstAddr"}
  BY <1>1, Zenon DEF Valid
<1>3. (\E i \in DOMAIN x : \A j \in DOMAIN x[i] : LiteralHolds(p, x[i][j]))
        <=> \A j \in DOMAIN x[1] : LiteralHolds(p, x[1][j])
  BY <1>1, Zenon
<1>4. p \in Matched(x) <=>
        /\ p \in Packets /\ Valid(x)
        /\ \E i \in DOMAIN x : \A j \in DOMAIN x[i] : LiteralHolds(p, x[i][j])
  BY Zenon DEF Matched
<1> QED BY <1>2, <1>3, <1>4, Zenon DEF Passes

\* && of two texts without an "or" diverts what both divert.
LEMMA MatchedAnd ==
  ASSUME NEW x \in Texts, NEW y \in Texts, Len(x) = 1, Len(y) = 1
  PROVE  /\ AndText(x, y) \in Texts /\ Len(AndText(x, y)) = 1
         /\ Matched(AndText(x, y)) = Matched(x) \cap Matched(y)
<1> DEFINE z == AndText(x, y)
<1>1. z \in Texts
  BY AndTextType
<1>2. x[1] \in Seq(Literals) /\ y[1] \in Seq(Literals)
  BY OneAlternative
<1>3. z = << x[1] \o y[1] >>
  BY AndTextOne
<1>4. Len(z) = 1 /\ z[1] = x[1] \o y[1]
  BY <1>3
<1> HIDE DEF z
<1>5. ASSUME NEW p
      PROVE  (\A j \in DOMAIN z[1] : Passes(p, z[1][j])) <=>
               /\ \A j \in DOMAIN x[1] : Passes(p, x[1][j])
               /\ \A j \in DOMAIN y[1] : Passes(p, y[1][j])
  <2> DEFINE u == x[1]
             v == y[1]
             w == z[1]
  <2>1. u \in Seq(Literals) /\ v \in Seq(Literals) /\ w = u \o v
    BY <1>2, <1>4
  <2> HIDE DEF u, v, w
  <2>2. Len(u) \in Nat /\ Len(v) \in Nat
    BY <2>1
  <2>3. DOMAIN u = 1 .. Len(u) /\ DOMAIN v = 1 .. Len(v)
        /\ DOMAIN w = 1 .. Len(u) + Len(v)
    BY <2>1
  <2>4. \A j \in 1 .. Len(u) : w[j] = u[j]
    BY <2>1
  <2>5. \A j \in 1 .. Len(v) : w[Len(u) + j] = v[j]
    BY <2>1
  <2>6. \A j \in 1 .. Len(u) + Len(v) :
          j \in 1 .. Len(u) \/ \E k \in 1 .. Len(v) : j = Len(u) + k
    <3> TAKE j \in 1 .. Len(u) + Len(v)
    <3>1. CASE j > Len(u)
      <4>1. j - Len(u) \in 1 .. Len(v) /\ j = Len(u) + (j - Len(u))
        BY <3>1, <2>2
      <4> QED BY <4>1
    <3> QED BY <3>1, <2>2
  <2>7. \A j \in 1 .. Len(u) : j \in 1 .. Len(u) + Len(v)
    BY <2>2
  <2>8. \A j \in 1 .. Len(v) : Len(u) + j \in 1 .. Len(u) + Len(v)
    BY <2>2
  <2>9. (\A j \in DOMAIN w : Passes(p, w[j])) <=>
          /\ \A j \in DOMAIN u : Passes(p, u[j])
          /\ \A j \in DOMAIN v : Passes(p, v[j])
    <3> DEFINE I == 1 .. Len(u)
               J == 1 .. Len(v)
               K == 1 .. Len(u) + Len(v)
    <3>1. DOMAIN u = I /\ DOMAIN v = J /\ DOMAIN w = K
          /\ (\A j \in I : j \in K /\ w[j] = u[j])
          /\ (\A j \in J : Len(u) + j \in K /\ w[Len(u) + j] = v[j])
          /\ \A j \in K : j \in I \/ \E k \in J : j = Len(u) + k
      BY <2>3, <2>4, <2>5, <2>6, <2>7, <2>8
    <3> HIDE DEF I, J, K
    <3> QED BY <3>1, Zenon
  <2> QED BY <2>9 DEF u, v, w
<1>6. ASSUME NEW p
      PROVE  p \in Matched(z) <=> p \in Matched(x) /\ p \in Matched(y)
  <2>1. p \in Matched(z) <=> p \in Packets /\ \A j \in DOMAIN z[1] : Passes(p, z[1][j])
    BY <1>1, <1>4, MatchedOne
  <2>2. p \in Matched(x) <=> p \in Packets /\ \A j \in DOMAIN x[1] : Passes(p, x[1][j])
    BY MatchedOne
  <2>3. p \in Matched(y) <=> p \in Packets /\ \A j \in DOMAIN y[1] : Passes(p, y[1][j])
    BY MatchedOne
  <2> QED BY <1>5, <2>1, <2>2, <2>3
<1>7. Matched(z) = Matched(x) \cap Matched(y)
  BY <1>6
<1> QED BY <1>1, <1>4, <1>7 DEF z

----------------------------------------------------------------------------
(* operator! on a single test *)

\* The one literal of a text that is a single test.
LEMMA SingleTest ==
  ASSUME NEW x \in Texts, Len(x) = 1, Cardinality(Positions(x)) = 1
  PROVE  Len(x[1]) = 1 /\ Positions(x) = {<<1, 1>>} /\ x[1][1] \in Literals
<1>1. DOMAIN x = {1} /\ x[1] \in Seq(Literals)
  BY OneAlternative
<1> DEFINE n == Len(x[1])
<1>2. n \in Nat /\ DOMAIN x[1] = 1 .. n
  BY <1>1
<1>3. Positions(x) = {1} \X (1 .. n)
  BY <1>1, <1>2 DEF Positions
<1> HIDE DEF n
<1>4. IsFiniteSet({1} \X (1 .. n))
  <2>1. IsFiniteSet({1})
    BY FS_Singleton
  <2>2. IsFiniteSet(1 .. n)
    BY <1>2, FS_Interval
  <2> QED BY <2>1, <2>2, FS_Product
<1>5. PICK q : Positions(x) = {q}
  BY <1>3, <1>4, FS_Singleton
<1>6. n = 1
  <2>1. CASE n = 0
    BY <2>1, <1>3, <1>5
  <2>2. CASE n > 1
    <3>1. <<1, 1>> \in Positions(x) /\ <<1, 2>> \in Positions(x)
      BY <2>2, <1>2, <1>3
    <3> QED BY <3>1, <1>5
  <2> QED BY <1>2, <2>1, <2>2
<1>7. Positions(x) = {<<1, 1>>}
  BY <1>3, <1>6
<1>8. x[1][1] \in Literals
  BY <1>1, <1>2, <1>6
<1> QED BY <1>6, <1>7, <1>8 DEF n

\* operator! on a single test changes its one literal.
LEMMA NotSingle ==
  ASSUME NEW x \in Texts, Len(x) = 1, Len(x[1]) = 1,
         Positions(x) = {<<1, 1>>}
  PROVE  /\ Len(NotText(x)[1]) = 1
         /\ NotText(x)[1][1] = [x[1][1] EXCEPT !.neg = @ + 1]
<1>1. NotAt(x) = <<1, 1>>
  <2> DEFINE eqs == {p \in Positions(x) : IsComparison(x[p[1]][p[2]])}
  <2>1. eqs = {} \/ eqs = {<<1, 1>>}
    OBVIOUS
  <2> HIDE DEF eqs
  <2>2. ASSUME eqs = {<<1, 1>>}
        PROVE  (CHOOSE p \in eqs : \A q \in eqs \ {p} : Before(p, q)) = <<1, 1>>
    <3>1. \E p \in eqs : \A q \in eqs \ {p} : Before(p, q)
      BY <2>2
    <3> QED BY <2>2, <3>1
  <2> QED BY <2>1, <2>2 DEF NotAt, eqs
<1>2. DOMAIN x = {1} /\ x[1] \in Seq(Literals)
  BY OneAlternative
<1>3. DOMAIN x[1] = 1 .. 1
  BY <1>2
<1> DEFINE lit == [x[1][1] EXCEPT !.neg = @ + 1]
           alt == [x[1] EXCEPT ![1] = lit]
<1>4. NotText(x) = [x EXCEPT ![1] = alt]
  BY <1>1 DEF NotText
<1> HIDE DEF lit
<1>5. alt[1] = lit /\ Len(alt) = 1
  <2>1. x[1][1] \in Literals
    BY <1>2, <1>3
  <2>2. lit \in Literals
    BY <2>1 DEF lit, Literals
  <2> QED BY <1>2, <1>3, <2>2
<1> HIDE DEF alt
<1>6. NotText(x)[1] = alt
  BY <1>2, <1>4 DEF Texts
<1> QED BY <1>5, <1>6 DEF lit

\* A test of an IPv4 packet that operator! turns into its opposite: a flag,
\* or a comparison of an address that is not negated yet.
LEMMA NotPasses ==
  ASSUME NEW lit \in Literals, NEW p \in Packets, p.ver = "ip",
         IsComparison(lit) => /\ lit.neg = 0
                              /\ lit.atom[1] \in {"ip.SrcAddr", "ip.DstAddr"}
  PROVE  Passes(p, [lit EXCEPT !.neg = @ + 1]) <=> ~Passes(p, lit)
<1> DEFINE no == [lit EXCEPT !.neg = @ + 1]
<1>1. no.atom = lit.atom /\ no.neg = lit.neg + 1 /\ lit.neg \in Nat
  BY DEF Literals
<1> HIDE DEF no
<1>2. CASE IsComparison(lit)
  <2>1. IsComparison(no) /\ no.neg = 1 /\ lit.neg = 0
    BY <1>1, <1>2 DEF IsComparison
  <2>2. HasField(p, lit.atom[1])
    BY <1>2 DEF HasField
  <2>3. lit.atom[1] \notin {"ip6.SrcAddr", "ip6.DstAddr"}
    BY <1>2
  <2>4. LiteralHolds(p, lit) <=> FieldOf(p, lit.atom[1]) = lit.atom[2]
    BY <1>2, <2>1, <2>2 DEF LiteralHolds
  <2>5. LiteralHolds(p, no) <=> ~(FieldOf(p, lit.atom[1]) = lit.atom[2])
    <3> DEFINE same == FieldOf(p, lit.atom[1]) = lit.atom[2]
    <3>1. LiteralHolds(p, no) <=> same = (no.neg = 0)
      BY <1>1, <2>1, <2>2, Zenon DEF LiteralHolds
    <3>2. same \in BOOLEAN
      OBVIOUS
    <3> HIDE DEF same
    <3> QED BY <2>1, <3>1, <3>2 DEF same
  <2> QED BY <1>1, <1>2, <2>1, <2>3, <2>4, <2>5 DEF Passes, no
<1>3. CASE ~IsComparison(lit)
  <2>1. ~IsComparison(no)
    BY <1>1, <1>3 DEF IsComparison
  <2>2. (no.neg % 2 = 0) <=> ~(lit.neg % 2 = 0)
    BY <1>1
  <2>3. LiteralHolds(p, lit) <=> (Holds(p, lit.atom) = (lit.neg % 2 = 0))
    BY <1>3, Zenon DEF LiteralHolds
  <2>4. LiteralHolds(p, no) <=> (Holds(p, lit.atom) = (no.neg % 2 = 0))
    BY <1>1, <2>1, Zenon DEF LiteralHolds
  <2>5. Holds(p, lit.atom) \in BOOLEAN
    <3>1. p.out \in BOOLEAN /\ p.loop \in BOOLEAN
      BY DEF Packets
    <3> QED BY <3>1 DEF Holds, HasField
  <2>6. LiteralHolds(p, no) <=> ~LiteralHolds(p, lit)
    <3> DEFINE h == Holds(p, lit.atom)
               e == lit.neg % 2 = 0
               f == no.neg % 2 = 0
    <3>1. (LiteralHolds(p, lit) <=> h = e) /\ (LiteralHolds(p, no) <=> h = f)
          /\ (f <=> ~e) /\ h \in BOOLEAN /\ e \in BOOLEAN /\ f \in BOOLEAN
      BY <2>2, <2>3, <2>4, <2>5
    <3> HIDE DEF h, e, f
    <3>2. CASE h = TRUE
      <4>1. (LiteralHolds(p, lit) <=> e) /\ (LiteralHolds(p, no) <=> f)
        BY <3>1, <3>2
      <4> QED BY <3>1, <4>1
    <3>3. CASE h = FALSE
      <4>1. (LiteralHolds(p, lit) <=> ~e) /\ (LiteralHolds(p, no) <=> ~f)
        BY <3>1, <3>3
      <4> QED BY <3>1, <4>1
    <3> QED BY <3>1, <3>2, <3>3
  <2> QED BY <1>3, <2>1, <2>6 DEF Passes, no
<1> QED BY <1>2, <1>3

\* operator! on a single test diverts, of the IPv4 packets, the others.
LEMMA NotMatched ==
  ASSUME NEW x \in Texts, Len(x) = 1, Cardinality(Positions(x)) = 1,
         IsComparison(x[1][1]) =>
           /\ x[1][1].neg = 0
           /\ x[1][1].atom[1] \in {"ip.SrcAddr", "ip.DstAddr"},
         NEW p \in Packets, p.ver = "ip"
  PROVE  p \in Matched(NotText(x)) <=> p \notin Matched(x)
<1> DEFINE y == NotText(x)
           lit == x[1][1]
<1>1. Len(x[1]) = 1 /\ lit \in Literals /\ Positions(x) = {<<1, 1>>}
  BY SingleTest
<1>2. Len(y[1]) = 1 /\ y[1][1] = [lit EXCEPT !.neg = @ + 1]
  BY <1>1, NotSingle
<1>3. y \in Texts /\ Len(y) = 1
  BY NotTextType
<1> HIDE DEF y
<1>4. DOMAIN x[1] = {1} /\ DOMAIN y[1] = {1}
  <2>1. x[1] \in Seq(Literals) /\ y[1] \in Seq(Literals)
    BY <1>3, OneAlternative
  <2>2. DOMAIN x[1] = 1 .. 1 /\ DOMAIN y[1] = 1 .. 1
    BY <1>1, <1>2, <2>1
  <2> QED BY <2>2
<1>5. p \in Matched(x) <=> Passes(p, lit)
  BY <1>4, MatchedOne
<1>6. p \in Matched(y) <=> Passes(p, y[1][1])
  BY <1>3, <1>4, MatchedOne
<1> HIDE DEF lit
<1>7. IsComparison(lit) => lit.neg = 0 /\ lit.atom[1] \in {"ip.SrcAddr", "ip.DstAddr"}
  BY DEF lit
<1>8. Passes(p, y[1][1]) <=> ~Passes(p, lit)
  BY <1>1, <1>2, <1>7, NotPasses
<1> QED BY <1>5, <1>6, <1>8 DEF y

----------------------------------------------------------------------------
(* calculate_outgoing_filters and calculate_incoming_filters *)

FilterRecord == [text: Texts, meant: SUBSET Packets, plain: BOOLEAN]

\* One turn of the loop over the filters.
TextAt(f, fs, i) == IF i = 0 THEN <<>> ELSE AndText(f[i - 1], fs[i].text)

\* For the first n filters there is a function that joins them one by one.
LEMMA TextsOfPrefixes ==
  ASSUME NEW fs, NEW n \in Nat
  PROVE  \E f : f = [i \in 0 .. n |-> TextAt(f, fs, i)]
<1> DEFINE Run(f, k) == f = [i \in 0 .. k |-> TextAt(f, fs, i)]
           B == {k \in Nat : ~ \E f : Run(f, k)}
<1>1. SUFFICES ASSUME B # {} PROVE FALSE
  OBVIOUS
<1>2. PICK m \in B : \A j \in B : m <= j
  <2>1. B \in SUBSET Nat
    OBVIOUS
  <2> HIDE DEF B
  <2> QED BY <1>1, <2>1, Least
<1>3. CASE m = 0
  <2> DEFINE z == [i \in 0 .. 0 |-> <<>>]
  <2>1. [i \in 0 .. 0 |-> TextAt(z, fs, i)] = z
    BY DEF TextAt
  <2> QED BY <1>2, <1>3, <2>1
<1>4. CASE m # 0
  <2>1. m \in Nat /\ m - 1 \in Nat /\ ~(m <= m - 1)
    BY <1>2, <1>4
  <2>2. m - 1 \notin B
    <3> HIDE DEF B
    <3> QED BY <1>2, <2>1
  <2>3. PICK f : Run(f, m - 1)
    BY <2>1, <2>2
  <2> DEFINE t == AndText(f[m - 1], fs[m].text)
             g == [i \in 0 .. m |-> IF i = m THEN t ELSE f[i]]
  <2>4. ASSUME NEW i \in 0 .. m
        PROVE  g[i] = TextAt(g, fs, i)
    <3>1. CASE i = m
      <4>1. g[m - 1] = f[m - 1] /\ g[m] = t
        BY <2>1
      <4> QED BY <1>4, <3>1, <4>1 DEF TextAt
    <3>2. CASE i # m
      <4>1. i \in 0 .. m - 1 /\ g[i] = f[i]
        BY <2>1, <3>2
      <4>2. f[i] = TextAt(f, fs, i)
        BY <2>3, <4>1
      <4>3. i # 0 => g[i - 1] = f[i - 1]
        BY <2>1, <3>2
      <4> HIDE DEF g
      <4> QED BY <4>1, <4>2, <4>3 DEF TextAt
    <3> QED BY <3>1, <3>2
  <2>5. DOMAIN g = 0 .. m /\ g = [i \in DOMAIN g |-> g[i]]
    OBVIOUS
  <2> HIDE DEF g
  <2>6. Run(g, m)
    BY <2>4, <2>5
  <2> QED BY <1>2, <2>6
<1> QED BY <1>3, <1>4

\* The loop over the filters goes through texts, one for each prefix.
LEMMA CalculateRun ==
  ASSUME NEW fs, Len(fs) \in Nat
  PROVE  \E f : /\ \A i \in 0 .. Len(fs) : f[i] = TextAt(f, fs, i)
                /\ Calculate(fs) = f[Len(fs)]
<1> DEFINE Run(f) == f = [i \in 0 .. Len(fs) |-> TextAt(f, fs, i)]
           r == CHOOSE f : Run(f)
<1>1. \E f : Run(f)
  BY TextsOfPrefixes
<1>2. Run(r)
  BY <1>1
<1>3. Calculate(fs) = r[Len(fs)]
  BY ZenonT(60) DEF Calculate, TextAt
<1> HIDE DEF r
<1>4. \A i \in 0 .. Len(fs) : r[i] = TextAt(r, fs, i)
  BY <1>2
<1> QED BY <1>3, <1>4

\* The text of any filters is text.
LEMMA CalculateType ==
  ASSUME NEW fs \in Seq(FilterRecord)
  PROVE  Calculate(fs) \in Texts
<1> DEFINE L == Len(fs)
<1>1. L \in Nat
  OBVIOUS
<1>2. \A i \in 1 .. L : fs[i].text \in Texts
  <2>1. \A i \in 1 .. L : fs[i] \in FilterRecord
    BY ElementOfSeq
  <2> QED BY <2>1 DEF FilterRecord
<1>3. PICK f : /\ \A i \in 0 .. L : f[i] = TextAt(f, fs, i)
               /\ Calculate(fs) = f[L]
  BY <1>1, CalculateRun
<1> HIDE DEF L
<1> DEFINE B == {i \in 0 .. L : f[i] \notin Texts}
<1>4. B = {}
  <2>1. SUFFICES ASSUME B # {} PROVE FALSE
    OBVIOUS
  <2>2. PICK m \in B : \A j \in B : m <= j
    <3>1. B \in SUBSET Nat
      BY <1>1
    <3> HIDE DEF B
    <3> QED BY <2>1, <3>1, Least
  <2>3. m \in 0 .. L /\ f[m] \notin Texts
    BY <2>2
  <2>4. CASE m = 0
    <3>1. f[0] = <<>>
      BY <1>1, <1>3 DEF TextAt
    <3> QED BY <2>3, <2>4, <3>1 DEF Texts
  <2>5. CASE m # 0
    <3>1. m \in 1 .. L /\ m - 1 \in 0 .. L /\ ~(m <= m - 1)
      BY <1>1, <2>3, <2>5
    <3>2. m - 1 \notin B
      <4> HIDE DEF B
      <4> QED BY <2>2, <3>1
    <3>3. f[m - 1] \in Texts /\ fs[m].text \in Texts
      BY <1>2, <3>1, <3>2
    <3>4. f[m] = AndText(f[m - 1], fs[m].text)
      BY <1>3, <2>3, <2>5 DEF TextAt
    <3> QED BY <2>3, <3>3, <3>4, AndTextType
  <2> QED BY <2>4, <2>5
<1>5. L \in 0 .. L
  BY <1>1
<1> QED BY <1>3, <1>4, <1>5

\* The text of filters none of which has an "or" diverts the packets that
\* every one of them diverts.
LEMMA CalculateMatched ==
  ASSUME NEW fs \in Seq(FilterRecord), fs # <<>>,
         \A i \in 1 .. Len(fs) : Len(fs[i].text) = 1
  PROVE  \A p : p \in Matched(Calculate(fs)) <=>
                  \A k \in 1 .. Len(fs) : p \in Matched(fs[k].text)
<1> DEFINE L == Len(fs)
<1>1. L \in Nat /\ L # 0
  BY EmptySeq
<1>2. \A i \in 1 .. L : fs[i].text \in Texts /\ Len(fs[i].text) = 1
  <2>1. \A i \in 1 .. L : fs[i] \in FilterRecord
    BY ElementOfSeq
  <2> QED BY <2>1 DEF FilterRecord
<1>3. PICK f : /\ \A i \in 0 .. L : f[i] = TextAt(f, fs, i)
               /\ Calculate(fs) = f[L]
  BY <1>1, CalculateRun
<1> HIDE DEF L
<1> DEFINE Joined(i) ==
             /\ f[i] \in Texts /\ Len(f[i]) = 1
             /\ \A p : p \in Matched(f[i]) <=>
                         \A k \in 1 .. i : p \in Matched(fs[k].text)
           B == {i \in 1 .. L : ~Joined(i)}
<1>4. B = {}
  <2>1. SUFFICES ASSUME B # {} PROVE FALSE
    OBVIOUS
  <2>2. PICK m \in B : \A j \in B : m <= j
    <3>1. B \in SUBSET Nat
      BY <1>1
    <3> HIDE DEF B
    <3> QED BY <2>1, <3>1, Least
  <2>3. m \in 1 .. L /\ ~Joined(m)
    BY <2>2
  <2>4. CASE m = 1
    <3>1. f[0] = <<>>
      BY <1>1, <1>3 DEF TextAt
    <3>2. f[1] = AndText(<<>>, fs[1].text)
      BY <1>1, <1>3, <2>3, <2>4, <3>1 DEF TextAt
    <3>3. fs[1].text \in Texts /\ Len(fs[1].text) = 1
      BY <1>2, <2>3, <2>4
    <3>4. f[1] = fs[1].text
      BY <3>2, <3>3 DEF AndText
    <3>5. \A p : p \in Matched(f[1]) <=> \A k \in 1 .. 1 : p \in Matched(fs[k].text)
      BY <3>4
    <3> QED BY <2>3, <2>4, <3>3, <3>4, <3>5
  <2>5. CASE m # 1
    <3>1. m - 1 \in 1 .. L /\ m \in Nat /\ ~(m <= m - 1)
      BY <1>1, <2>3, <2>5
    <3>2. m - 1 \notin B
      <4> HIDE DEF B
      <4> QED BY <2>2, <3>1
    <3>3. Joined(m - 1)
      BY <3>1, <3>2
    <3> DEFINE x == f[m - 1]
               y == fs[m].text
    <3>4. x \in Texts /\ Len(x) = 1
          /\ \A p : p \in Matched(x) <=>
                      \A k \in 1 .. m - 1 : p \in Matched(fs[k].text)
      BY <3>3
    <3>5. y \in Texts /\ Len(y) = 1
      BY <1>2, <2>3
    <3>6. f[m] = AndText(x, y)
      BY <1>1, <1>3, <2>3 DEF TextAt
    <3> HIDE DEF x
    <3>7. f[m] \in Texts /\ Len(f[m]) = 1 /\ Matched(f[m]) = Matched(x) \cap Matched(y)
      BY <3>4, <3>5, <3>6, MatchedAnd
    <3>8. ASSUME NEW p
          PROVE  p \in Matched(f[m]) <=> \A k \in 1 .. m : p \in Matched(fs[k].text)
      <4>1. p \in Matched(f[m]) <=> p \in Matched(x) /\ p \in Matched(fs[m].text)
        BY <3>7
      <4>2. \A k : k \in 1 .. m <=> k \in 1 .. m - 1 \/ k = m
        BY <2>3, <3>1
      <4> QED BY <3>4, <4>1, <4>2
    <3> QED BY <2>3, <3>7, <3>8
  <2> QED BY <2>4, <2>5
<1>5. Joined(L)
  <2>1. L \in 1 .. L
    BY <1>1
  <2> QED BY <1>4, <2>1
<1> QED BY <1>3, <1>5 DEF L

----------------------------------------------------------------------------
(* The default filters *)

\* A single test, negated n times.
Test(atom, n) == [atom |-> atom, neg |-> n]

\* What a text that is a single test diverts, and what its negation does.
LEMMA SingleText ==
  ASSUME NEW atom \in Atoms, NEW x, x = << <<Literal(atom)>> >>
  PROVE  /\ x \in Texts /\ Len(x) = 1
         /\ NotText(x) \in Texts /\ Len(NotText(x)) = 1
         /\ \A p : p \in Matched(x) <=> p \in Packets /\ Passes(p, Test(atom, 0))
         /\ \A p : p \in Matched(NotText(x)) <=>
                     p \in Packets /\ Passes(p, Test(atom, 1))
<1> DEFINE lit == Test(atom, 0)
<1>1. lit \in Literals /\ Literal(atom) = lit
  BY DEF Literal, Literals, Test
<1>2. [lit EXCEPT !.neg = @ + 1] = Test(atom, 1)
  BY DEF Test
<1> HIDE DEF lit
<1>3. <<lit>> \in Seq(Literals) /\ Len(<<lit>>) = 1 /\ <<lit>>[1] = lit
  BY <1>1
<1> DEFINE alt == <<lit>>
<1>4. x = <<alt>>
  BY <1>1
<1>5. alt \in Seq(Literals) /\ Len(alt) = 1 /\ alt[1] = lit
  BY <1>3
<1> HIDE DEF alt
<1>6. x \in Texts /\ Len(x) = 1 /\ x[1] = alt
  BY <1>4, <1>5 DEF Texts
<1>7. DOMAIN x = {1} /\ DOMAIN alt = {1}
  <2>1. DOMAIN alt = 1 .. 1
    BY <1>5
  <2> QED BY <1>6, <2>1, OneAlternative
<1>8. Positions(x) = {<<1, 1>>}
  BY <1>6, <1>7 DEF Positions
<1> DEFINE y == NotText(x)
<1>9. Len(y[1]) = 1 /\ y[1][1] = Test(atom, 1)
  BY <1>2, <1>5, <1>6, <1>8, NotSingle
<1>10. y \in Texts /\ Len(y) = 1
  BY <1>6, NotTextType
<1> HIDE DEF y
<1>11. DOMAIN y[1] = {1}
  <2>1. y[1] \in Seq(Literals)
    BY <1>10, OneAlternative
  <2>2. DOMAIN y[1] = 1 .. 1
    BY <1>9, <2>1
  <2> QED BY <2>2
<1>12. \A p : p \in Matched(x) <=> p \in Packets /\ Passes(p, lit)
  <2> TAKE p
  <2>1. p \in Matched(x) <=> p \in Packets /\ \A j \in DOMAIN x[1] : Passes(p, x[1][j])
    BY <1>6, MatchedOne
  <2> QED BY <1>5, <1>6, <1>7, <2>1
<1>13. \A p : p \in Matched(y) <=> p \in Packets /\ Passes(p, Test(atom, 1))
  <2> TAKE p
  <2>1. p \in Matched(y) <=> p \in Packets /\ \A j \in DOMAIN y[1] : Passes(p, y[1][j])
    BY <1>10, MatchedOne
  <2> QED BY <1>9, <1>11, <2>1
<1> QED BY <1>6, <1>10, <1>12, <1>13 DEF y, lit

\* The flags of the default filters.
LEMMA FlagPasses ==
  ASSUME NEW p \in Packets
  PROVE  /\ Passes(p, Test(<<"outbound">>, 0)) <=> p.out
         /\ Passes(p, Test(<<"inbound">>, 0)) <=> ~p.out
         /\ Passes(p, Test(<<"loopback">>, 1)) <=> ~p.loop
<1>1. p.out \in BOOLEAN /\ p.loop \in BOOLEAN
  BY DEF Packets
<1>2. \A name : \A n : ~IsComparison(Test(<<name>>, n))
  BY DEF IsComparison, Test
<1>3. \A name : \A n : Test(<<name>>, n).atom = <<name>> /\ Test(<<name>>, n).neg = n
  BY DEF Test
<1>4. \A name : \A n : Passes(p, Test(<<name>>, n)) <=> (Holds(p, <<name>>) = (n % 2 = 0))
  <2> TAKE name, n
  <2> DEFINE lit == Test(<<name>>, n)
  <2>1. ~IsComparison(lit) /\ lit.atom = <<name>> /\ lit.neg = n
    BY <1>2, <1>3
  <2> HIDE DEF lit
  <2>2. Passes(p, lit) <=> (Holds(p, <<name>>) = (n % 2 = 0))
    BY <2>1, Zenon DEF Passes, LiteralHolds
  <2> QED BY <2>2 DEF lit
<1>5. Holds(p, <<"outbound">>) = p.out
  BY DEF Holds
<1>6. Holds(p, <<"inbound">>) = ~p.out
  BY DEF Holds
<1>7. Holds(p, <<"loopback">>) = p.loop
  BY DEF Holds
<1>8. 0 % 2 = 0 /\ 1 % 2 = 1
  OBVIOUS
<1> QED BY <1>1, <1>4, <1>5, <1>6, <1>7, <1>8

\* The comparisons of the default filters.
LEMMA ComparePasses ==
  ASSUME NEW p \in Packets, NEW v, NEW field,
         field \in {"ip.SrcAddr", "ip.DstAddr", "tcp.SrcPort", "tcp.DstPort"}
  PROVE  /\ Passes(p, Test(<<field, v>>, 0)) <=>
              HasField(p, field) /\ FieldOf(p, field) = v
         /\ Passes(p, Test(<<field, v>>, 1)) <=>
              HasField(p, field) /\ FieldOf(p, field) # v
<1>1. ASSUME NEW n \in {0, 1}
      PROVE  Passes(p, Test(<<field, v>>, n)) <=>
               HasField(p, field) /\ ((FieldOf(p, field) = v) = (n = 0))
  <2> DEFINE lit == Test(<<field, v>>, n)
  <2>1. lit.atom = <<field, v>> /\ lit.neg = n /\ lit.neg <= 1
    BY DEF Test
  <2>2. IsComparison(lit) /\ lit.atom[1] = field /\ lit.atom[2] = v
    BY <2>1 DEF IsComparison
  <2>3. field \notin {"ip6.SrcAddr", "ip6.DstAddr"}
    OBVIOUS
  <2> HIDE DEF lit
  <2>4. Passes(p, lit) <=> LiteralHolds(p, lit)
    BY <2>1, <2>2, <2>3, Zenon DEF Passes
  <2>5. LiteralHolds(p, lit) <=>
          HasField(p, field) /\ ((FieldOf(p, field) = v) = (n = 0))
    BY <2>1, <2>2, Zenon DEF LiteralHolds
  <2> QED BY <2>4, <2>5 DEF lit
<1>2. Passes(p, Test(<<field, v>>, 0)) <=>
        HasField(p, field) /\ ((FieldOf(p, field) = v) = (0 = 0))
  BY <1>1
<1>3. Passes(p, Test(<<field, v>>, 1)) <=>
        HasField(p, field) /\ ((FieldOf(p, field) = v) = (1 = 0))
  BY <1>1
<1> QED BY <1>2, <1>3

\* The fields of a packet.
LEMMA FieldsOfPacket ==
  ASSUME NEW p \in Packets
  PROVE  /\ HasField(p, "ip.SrcAddr") <=> p.ver = "ip"
         /\ HasField(p, "ip.DstAddr") <=> p.ver = "ip"
         /\ HasField(p, "tcp.SrcPort") <=> p.proto = "tcp"
         /\ HasField(p, "tcp.DstPort") <=> p.proto = "tcp"
         /\ FieldOf(p, "ip.SrcAddr") = p.src
         /\ FieldOf(p, "ip.DstAddr") = p.dst
         /\ FieldOf(p, "tcp.SrcPort") = p.sport
         /\ FieldOf(p, "tcp.DstPort") = p.dport
BY DEF HasField, FieldOf

\* A default filter is a filter without an "or".
LEMMA DefaultType ==
  ASSUME NEW x \in Texts
  PROVE  Default(x) \in FilterRecord /\ Default(x).text = x
BY DEF Default, FilterRecord

\* The tests that the default filters are made of are atoms.
LEMMA DefaultAtoms ==
  /\ <<"outbound">> \in Atoms /\ <<"inbound">> \in Atoms
  /\ <<"loopback">> \in Atoms
  /\ <<"ip.SrcAddr", Fixed>> \in Atoms /\ <<"ip.DstAddr", Fixed>> \in Atoms
  /\ <<"tcp.DstPort", 22>> \in Atoms /\ <<"tcp.SrcPort", 22>> \in Atoms
  /\ <<"tcp.DstPort", 8080>> \in Atoms
<1>1. Fixed \in IPv4 /\ 22 \in Ports /\ 8080 \in Ports
  BY FilterAssumption DEF IPv4
<1> QED BY <1>1 DEF Atoms

\* The test of the server's address, when it is an IPv4 address and when it
\* is not.
LEMMA SourceOfServer ==
  ASSUME vpn \in IPv4 \cup {"six"}
  PROVE  \E field :
           /\ Source(vpn) = << <<Literal(<<field, vpn>>)>> >>
           /\ <<field, vpn>> \in Atoms
           /\ vpn \in IPv4 => field = "ip.SrcAddr"
           /\ vpn \notin IPv4 => field = "ip6.SrcAddr"
<1>1. CASE vpn \in IPv4
  <2>1. vpn # "six"
    BY <1>1, FilterAssumption
  <2>2. <<"ip.SrcAddr", vpn>> \in Atoms
    BY <1>1 DEF Atoms
  <2> QED BY <1>1, <2>1, <2>2 DEF Source, Compare
<1>2. CASE vpn \notin IPv4
  <2>1. vpn = "six"
    BY <1>2
  <2>2. <<"ip6.SrcAddr", "six">> \in Atoms
    BY DEF Atoms
  <2> QED BY <1>2, <2>1, <2>2 DEF Source, Compare
<1> QED BY <1>1, <1>2

\* No packet passes a comparison with the field "ip6.SrcAddr".
LEMMA NoSuchField ==
  ASSUME NEW p, NEW v, NEW n
  PROVE  ~Passes(p, Test(<<"ip6.SrcAddr", v>>, n))
<1> DEFINE lit == Test(<<"ip6.SrcAddr", v>>, n)
<1>1. lit.atom = <<"ip6.SrcAddr", v>>
  BY DEF Test
<1>2. IsComparison(lit) /\ lit.atom[1] = "ip6.SrcAddr"
  BY <1>1 DEF IsComparison
<1> QED BY <1>2 DEF Passes

\* What the default filters of a direction divert together, and that none of
\* them has an "or".
DefaultsDivert(d) ==
  LET fs == DefaultFilters[d]
  IN  /\ fs \in Seq(FilterRecord) /\ fs # <<>>
      /\ \A k \in 1 .. Len(fs) :
           Len(fs[k].text) = 1 /\ fs[k].meant = Packets /\ fs[k].plain
      /\ \A p : (\A k \in 1 .. Len(fs) : p \in Matched(fs[k].text)) =>
                  p \in MeantByDefault(d)
      /\ vpn \in IPv4 =>
           \A p \in MeantByDefault(d) :
             \A k \in 1 .. Len(fs) : p \in Matched(fs[k].text)

\* apply_default_outgoing_filter.
LEMMA DefaultsOut ==
  ASSUME vpn \in IPv4 \cup {"six"}
  PROVE  DefaultsDivert("out")
<1>1. PICK field :
        /\ Source(vpn) = << <<Literal(<<field, vpn>>)>> >>
        /\ <<field, vpn>> \in Atoms
        /\ vpn \in IPv4 => field = "ip.SrcAddr"
        /\ vpn \notin IPv4 => field = "ip6.SrcAddr"
  BY SourceOfServer
<1> DEFINE t1 == NotText(Source(vpn))
           t2 == Flag("outbound")
           t3 == NotText(Compare("tcp.DstPort", 22))
           t4 == NotText(Flag("loopback"))
           t5 == Compare("ip.DstAddr", Fixed)
           t6 == Compare("tcp.DstPort", 8080)
           fs == << Default(t1), Default(t2), Default(t3), Default(t4),
                    Default(t5), Default(t6) >>
<1>2. DefaultFilters["out"] = fs
  BY DEF DefaultFilters, Directions
<1>3. /\ t1 \in Texts /\ Len(t1) = 1
      /\ \A p : p \in Matched(t1) <=>
                  p \in Packets /\ Passes(p, Test(<<field, vpn>>, 1))
  BY <1>1, SingleText
<1>4. /\ t2 \in Texts /\ Len(t2) = 1
      /\ \A p : p \in Matched(t2) <=>
                  p \in Packets /\ Passes(p, Test(<<"outbound">>, 0))
  BY DefaultAtoms, SingleText DEF Flag
<1>5. /\ t3 \in Texts /\ Len(t3) = 1
      /\ \A p : p \in Matched(t3) <=>
                  p \in Packets /\ Passes(p, Test(<<"tcp.DstPort", 22>>, 1))
  BY DefaultAtoms, SingleText DEF Compare
<1>6. /\ t4 \in Texts /\ Len(t4) = 1
      /\ \A p : p \in Matched(t4) <=>
                  p \in Packets /\ Passes(p, Test(<<"loopback">>, 1))
  BY DefaultAtoms, SingleText DEF Flag
<1>7. /\ t5 \in Texts /\ Len(t5) = 1
      /\ \A p : p \in Matched(t5) <=>
                  p \in Packets /\ Passes(p, Test(<<"ip.DstAddr", Fixed>>, 0))
  BY DefaultAtoms, SingleText DEF Compare
<1>8. /\ t6 \in Texts /\ Len(t6) = 1
      /\ \A p : p \in Matched(t6) <=>
                  p \in Packets /\ Passes(p, Test(<<"tcp.DstPort", 8080>>, 0))
  BY DefaultAtoms, SingleText DEF Compare
<1> HIDE DEF t1, t2, t3, t4, t5, t6
<1>9. /\ Default(t1) \in FilterRecord /\ Default(t2) \in FilterRecord
      /\ Default(t3) \in FilterRecord /\ Default(t4) \in FilterRecord
      /\ Default(t5) \in FilterRecord /\ Default(t6) \in FilterRecord
  BY <1>3, <1>4, <1>5, <1>6, <1>7, <1>8, DefaultType
<1>10. fs \in Seq(FilterRecord) /\ Len(fs) = 6 /\ fs # <<>>
  BY <1>9
<1>11. /\ fs[1].text = t1 /\ fs[2].text = t2 /\ fs[3].text = t3
       /\ fs[4].text = t4 /\ fs[5].text = t5 /\ fs[6].text = t6
  BY DEF Default
<1>12. \A k \in 1 .. 6 : fs[k].meant = Packets /\ fs[k].plain
  BY DEF Default
<1> HIDE DEF fs
<1>13. \A k : k \in 1 .. 6 <=> k \in {1, 2, 3, 4, 5, 6}
  OBVIOUS
<1>14. \A k \in 1 .. 6 : Len(fs[k].text) = 1
  BY <1>3, <1>4, <1>5, <1>6, <1>7, <1>8, <1>11, <1>13
<1>15. ASSUME NEW p
       PROVE  (\A k \in 1 .. 6 : p \in Matched(fs[k].text)) <=>
                /\ p \in Packets /\ Passes(p, Test(<<field, vpn>>, 1))
                /\ p.out /\ p.proto = "tcp" /\ p.dport # 22 /\ ~p.loop
                /\ p.ver = "ip" /\ p.dst = Fixed /\ p.dport = 8080
  <2>1. (\A k \in 1 .. 6 : p \in Matched(fs[k].text)) <=>
          /\ p \in Matched(t1) /\ p \in Matched(t2) /\ p \in Matched(t3)
          /\ p \in Matched(t4) /\ p \in Matched(t5) /\ p \in Matched(t6)
    BY <1>11, <1>13
  <2>2. p \in Packets =>
          /\ Passes(p, Test(<<"outbound">>, 0)) <=> p.out
          /\ Passes(p, Test(<<"tcp.DstPort", 22>>, 1)) <=>
               p.proto = "tcp" /\ p.dport # 22
          /\ Passes(p, Test(<<"loopback">>, 1)) <=> ~p.loop
          /\ Passes(p, Test(<<"ip.DstAddr", Fixed>>, 0)) <=>
               p.ver = "ip" /\ p.dst = Fixed
          /\ Passes(p, Test(<<"tcp.DstPort", 8080>>, 0)) <=>
               p.proto = "tcp" /\ p.dport = 8080
    BY FlagPasses, ComparePasses, FieldsOfPacket
  <2> QED BY <1>3, <1>4, <1>5, <1>6, <1>7, <1>8, <2>1, <2>2
<1>16. ASSUME NEW p \in Packets
       PROVE  /\ vpn \in IPv4 =>
                   (Passes(p, Test(<<field, vpn>>, 1)) <=>
                      p.ver = "ip" /\ p.src # vpn)
              /\ vpn \notin IPv4 => ~Passes(p, Test(<<field, vpn>>, 1))
  BY <1>1, ComparePasses, FieldsOfPacket, NoSuchField
<1>17. \A p : (\A k \in 1 .. 6 : p \in Matched(fs[k].text)) =>
                p \in MeantByDefault("out")
  BY <1>15, <1>16 DEF MeantByDefault
<1>18. vpn \in IPv4 =>
         \A p \in MeantByDefault("out") :
           \A k \in 1 .. 6 : p \in Matched(fs[k].text)
  <2> SUFFICES ASSUME vpn \in IPv4, NEW p \in MeantByDefault("out")
               PROVE  \A k \in 1 .. 6 : p \in Matched(fs[k].text)
    OBVIOUS
  <2>1. /\ p \in Packets /\ p.ver = "ip" /\ p.proto = "tcp" /\ ~p.loop
        /\ p.out /\ p.src # vpn /\ p.dst = Fixed /\ p.dport = 8080
    BY DEF MeantByDefault
  <2>2. p.dport # 22
    BY <2>1
  <2> QED BY <1>15, <1>16, <2>1, <2>2
<1> QED BY <1>2, <1>10, <1>12, <1>14, <1>17, <1>18 DEF DefaultsDivert

\* apply_default_incoming_filter.
LEMMA DefaultsIn ==
  ASSUME vpn \in IPv4 \cup {"six"}
  PROVE  DefaultsDivert("in")
<1>1. PICK field :
        /\ Source(vpn) = << <<Literal(<<field, vpn>>)>> >>
        /\ <<field, vpn>> \in Atoms
        /\ vpn \in IPv4 => field = "ip.SrcAddr"
        /\ vpn \notin IPv4 => field = "ip6.SrcAddr"
  BY SourceOfServer
<1> DEFINE t1 == Flag("inbound")
           t2 == Source(vpn)
           t3 == NotText(Compare("tcp.SrcPort", 22))
           t4 == NotText(Flag("loopback"))
           t5 == Compare("ip.SrcAddr", Fixed)
           fs == << Default(t1), Default(t2), Default(t3), Default(t4),
                    Default(t5) >>
<1>2. DefaultFilters["in"] = fs
  BY DEF DefaultFilters, Directions
<1>3. /\ t1 \in Texts /\ Len(t1) = 1
      /\ \A p : p \in Matched(t1) <=>
                  p \in Packets /\ Passes(p, Test(<<"inbound">>, 0))
  BY DefaultAtoms, SingleText DEF Flag
<1>4. /\ t2 \in Texts /\ Len(t2) = 1
      /\ \A p : p \in Matched(t2) <=>
                  p \in Packets /\ Passes(p, Test(<<field, vpn>>, 0))
  BY <1>1, SingleText
<1>5. /\ t3 \in Texts /\ Len(t3) = 1
      /\ \A p : p \in Matched(t3) <=>
                  p \in Packets /\ Passes(p, Test(<<"tcp.SrcPort", 22>>, 1))
  BY DefaultAtoms, SingleText DEF Compare
<1>6. /\ t4 \in Texts /\ Len(t4) = 1
      /\ \A p : p \in Matched(t4) <=>
                  p \in Packets /\ Passes(p, Test(<<"loopback">>, 1))
  BY DefaultAtoms, SingleText DEF Flag
<1>7. /\ t5 \in Texts /\ Len(t5) = 1
      /\ \A p : p \in Matched(t5) <=>
                  p \in Packets /\ Passes(p, Test(<<"ip.SrcAddr", Fixed>>, 0))
  BY DefaultAtoms, SingleText DEF Compare
<1> HIDE DEF t1, t2, t3, t4, t5
<1>9. /\ Default(t1) \in FilterRecord /\ Default(t2) \in FilterRecord
      /\ Default(t3) \in FilterRecord /\ Default(t4) \in FilterRecord
      /\ Default(t5) \in FilterRecord
  BY <1>3, <1>4, <1>5, <1>6, <1>7, DefaultType
<1>10. fs \in Seq(FilterRecord) /\ Len(fs) = 5 /\ fs # <<>>
  BY <1>9
<1>11. /\ fs[1].text = t1 /\ fs[2].text = t2 /\ fs[3].text = t3
       /\ fs[4].text = t4 /\ fs[5].text = t5
  BY DEF Default
<1>12. \A k \in 1 .. 5 : fs[k].meant = Packets /\ fs[k].plain
  BY DEF Default
<1> HIDE DEF fs
<1>13. \A k : k \in 1 .. 5 <=> k \in {1, 2, 3, 4, 5}
  OBVIOUS
<1>14. \A k \in 1 .. 5 : Len(fs[k].text) = 1
  BY <1>3, <1>4, <1>5, <1>6, <1>7, <1>11, <1>13
<1>15. ASSUME NEW p
       PROVE  (\A k \in 1 .. 5 : p \in Matched(fs[k].text)) <=>
                /\ p \in Packets /\ Passes(p, Test(<<field, vpn>>, 0))
                /\ ~p.out /\ p.proto = "tcp" /\ p.sport # 22 /\ ~p.loop
                /\ p.ver = "ip" /\ p.src = Fixed
  <2>1. (\A k \in 1 .. 5 : p \in Matched(fs[k].text)) <=>
          /\ p \in Matched(t1) /\ p \in Matched(t2) /\ p \in Matched(t3)
          /\ p \in Matched(t4) /\ p \in Matched(t5)
    BY <1>11, <1>13
  <2>2. p \in Packets =>
          /\ Passes(p, Test(<<"inbound">>, 0)) <=> ~p.out
          /\ Passes(p, Test(<<"tcp.SrcPort", 22>>, 1)) <=>
               p.proto = "tcp" /\ p.sport # 22
          /\ Passes(p, Test(<<"loopback">>, 1)) <=> ~p.loop
          /\ Passes(p, Test(<<"ip.SrcAddr", Fixed>>, 0)) <=>
               p.ver = "ip" /\ p.src = Fixed
    BY FlagPasses, ComparePasses, FieldsOfPacket
  <2> QED BY <1>3, <1>4, <1>5, <1>6, <1>7, <2>1, <2>2, Zenon
<1>16. ASSUME NEW p \in Packets
       PROVE  /\ vpn \in IPv4 =>
                   (Passes(p, Test(<<field, vpn>>, 0)) <=>
                      p.ver = "ip" /\ p.src = vpn)
              /\ vpn \notin IPv4 => ~Passes(p, Test(<<field, vpn>>, 0))
  BY <1>1, ComparePasses, FieldsOfPacket, NoSuchField
<1>17. "in" # "out"
  OBVIOUS
<1>18. \A p : (\A k \in 1 .. 5 : p \in Matched(fs[k].text)) =>
                p \in MeantByDefault("in")
  BY <1>15, <1>16, <1>17, Zenon DEF MeantByDefault
<1>19. vpn \in IPv4 =>
         \A p \in MeantByDefault("in") :
           \A k \in 1 .. 5 : p \in Matched(fs[k].text)
  <2> SUFFICES ASSUME vpn \in IPv4, NEW p \in MeantByDefault("in")
               PROVE  \A k \in 1 .. 5 : p \in Matched(fs[k].text)
    OBVIOUS
  <2>1. /\ p \in Packets /\ p.ver = "ip" /\ p.proto = "tcp" /\ ~p.loop
        /\ ~p.out /\ p.src = vpn /\ p.src = Fixed /\ p.sport # 22
    BY <1>17 DEF MeantByDefault
  <2> QED BY <1>15, <1>16, <2>1, Zenon
<1> QED BY <1>2, <1>10, <1>12, <1>14, <1>18, <1>19 DEF DefaultsDivert

----------------------------------------------------------------------------
(* The inductive invariant *)

\* The types of the variables.
FilterTypeOK ==
  /\ vpn \in IPv4 \cup {"six"}
  /\ filter \in [Named -> FilterRecord]
  /\ filters \in [Directions -> Seq(FilterRecord)]
  /\ data \in [Directions -> Texts]
  /\ started \in BOOLEAN
  /\ captured \in [Directions -> SUBSET Packets]
  /\ steps \in 0 .. MaxSteps

\* WinDivert reads a plain filter as it was meant, at least for the packets
\* of IPv4: a test of an address fails for a packet of IPv6 whether it is
\* negated or not.
ReadAsMeant(f) ==
  f.plain /\ f.text # <<>> =>
    /\ Len(f.text) = 1
    /\ \A p \in Packets :
         p.ver = "ip" => (p \in Matched(f.text) <=> p \in f.meant)

\* Until the capture starts, what a program has in hand and what it has
\* added is read as it was meant, and nothing is captured.
FilterInv ==
  /\ FilterTypeOK
  /\ \A r \in Named : ReadAsMeant(filter[r])
  /\ ~started =>
       /\ \A d \in Directions : \A i \in DOMAIN filters[d] :
            filters[d][i].text # <<>> /\ ReadAsMeant(filters[d][i])
       /\ captured = [d \in Directions |-> {}]

\* What starting the capture of a direction makes of the filters.
LEMMA CaptureOf ==
  ASSUME NEW d, DefaultsDivert(d), NEW pre \in Seq(FilterRecord), NEW fs,
         fs = pre \o DefaultFilters[d]
  PROVE  /\ fs \in Seq(FilterRecord)
         /\ (\A i \in DOMAIN fs : Len(fs[i].text) = 1) =>
              Matched(Calculate(fs)) \subseteq MeantByDefault(d)
         /\ /\ vpn \in IPv4
            /\ \A i \in DOMAIN pre : pre[i].text # <<>> /\ ReadAsMeant(pre[i])
            /\ \A i \in DOMAIN fs : fs[i].plain
            => Matched(Calculate(fs)) =
                 {p \in MeantByDefault(d) : \A i \in DOMAIN fs : p \in fs[i].meant}
<1> DEFINE D == DefaultFilters[d]
           n == Len(pre)
           m == Len(D)
<1>1. D \in Seq(FilterRecord) /\ D # <<>> /\ fs = pre \o D
  BY DEF DefaultsDivert
<1>2. \A k \in 1 .. m : Len(D[k].text) = 1 /\ D[k].meant = Packets /\ D[k].plain
  BY DEF DefaultsDivert
<1>3. \A p : (\A k \in 1 .. m : p \in Matched(D[k].text)) => p \in MeantByDefault(d)
  BY DEF DefaultsDivert
<1>4. vpn \in IPv4 => \A p \in MeantByDefault(d) :
                        \A k \in 1 .. m : p \in Matched(D[k].text)
  BY DEF DefaultsDivert
<1> HIDE DEF D
<1>5. n \in Nat /\ m \in Nat /\ m # 0
  BY <1>1, EmptySeq
<1>6. fs \in Seq(FilterRecord) /\ Len(fs) = n + m
  BY <1>1
<1>7. DOMAIN fs = 1 .. n + m /\ DOMAIN pre = 1 .. n
  BY <1>6
<1>8. /\ \A k \in 1 .. n : fs[k] = pre[k]
      /\ \A k \in 1 .. m : fs[n + k] = D[k]
  BY <1>1
<1> HIDE DEF n, m
<1>9. /\ \A k \in 1 .. n : k \in 1 .. n + m
      /\ \A k \in 1 .. m : n + k \in 1 .. n + m
      /\ \A i \in 1 .. n + m : i \in 1 .. n \/ \E k \in 1 .. m : i = n + k
  <2>1. ASSUME NEW i \in 1 .. n + m, i \notin 1 .. n
        PROVE  i - n \in 1 .. m /\ i = n + (i - n)
    BY <1>5, <2>1
  <2>2. \A i \in 1 .. n + m : i \in 1 .. n \/ \E k \in 1 .. m : i = n + k
    BY <2>1
  <2> QED BY <1>5, <2>2
<1>10. fs # <<>>
  BY <1>5, <1>6, EmptySeq
<1>11. ASSUME \A i \in DOMAIN fs : Len(fs[i].text) = 1, NEW p
       PROVE  p \in Matched(Calculate(fs)) <=>
                \A i \in 1 .. n + m : p \in Matched(fs[i].text)
  BY <1>6, <1>7, <1>10, <1>11, CalculateMatched
<1>12. ASSUME \A i \in DOMAIN fs : Len(fs[i].text) = 1
       PROVE  Matched(Calculate(fs)) \subseteq MeantByDefault(d)
  <2> SUFFICES ASSUME NEW p \in Matched(Calculate(fs))
               PROVE  p \in MeantByDefault(d)
    OBVIOUS
  <2>1. \A i \in 1 .. n + m : p \in Matched(fs[i].text)
    BY <1>11, <1>12
  <2>2. \A k \in 1 .. m : p \in Matched(D[k].text)
    BY <1>8, <1>9, <2>1
  <2> QED BY <1>3, <2>2
<1>13. ASSUME vpn \in IPv4,
              \A i \in DOMAIN pre : pre[i].text # <<>> /\ ReadAsMeant(pre[i]),
              \A i \in DOMAIN fs : fs[i].plain
       PROVE  Matched(Calculate(fs)) =
                {p \in MeantByDefault(d) : \A i \in DOMAIN fs : p \in fs[i].meant}
  <2>1. \A k \in 1 .. n : pre[k].plain /\ pre[k].text # <<>> /\ ReadAsMeant(pre[k])
    BY <1>7, <1>8, <1>9, <1>13
  <2>2. \A k \in 1 .. n :
          /\ Len(pre[k].text) = 1
          /\ \A p \in Packets :
               p.ver = "ip" => (p \in Matched(pre[k].text) <=> p \in pre[k].meant)
    BY <2>1, Zenon DEF ReadAsMeant
  <2>3. \A i \in DOMAIN fs : Len(fs[i].text) = 1
    <3>1. \A k \in 1 .. n : Len(fs[k].text) = 1
      BY <1>8, <2>2
    <3>2. \A k \in 1 .. m : Len(fs[n + k].text) = 1
      BY <1>2, <1>8
    <3> QED BY <1>7, <1>9, <3>1, <3>2
  <2>4. ASSUME NEW p \in MeantByDefault(d)
        PROVE  p \in Matched(Calculate(fs)) <=> \A i \in DOMAIN fs : p \in fs[i].meant
    <3>1. p \in Packets /\ p.ver = "ip"
      BY DEF MeantByDefault
    <3>2. \A k \in 1 .. m : p \in Matched(D[k].text) /\ p \in D[k].meant
      BY <1>2, <1>4, <1>13, <3>1
    <3>3. \A k \in 1 .. n : p \in Matched(pre[k].text) <=> p \in pre[k].meant
      BY <2>2, <3>1
    <3>4. \A i \in 1 .. n + m : p \in Matched(fs[i].text) <=> p \in fs[i].meant
      BY <1>8, <1>9, <3>2, <3>3
    <3>5. p \in Matched(Calculate(fs)) <=> \A i \in 1 .. n + m : p \in Matched(fs[i].text)
      BY <1>11, <2>3
    <3> QED BY <1>7, <3>4, <3>5
  <2>5. Matched(Calculate(fs)) \subseteq MeantByDefault(d)
    BY <1>12, <2>3
  <2> QED BY <2>4, <2>5
<1> QED BY <1>6, <1>12, <1>13

\* The defaults of both directions, in every state.
LEMMA DefaultsOfBoth ==
  ASSUME FilterTypeOK, NEW d \in Directions
  PROVE  DefaultsDivert(d)
BY DefaultsOut, DefaultsIn DEF FilterTypeOK, Directions

\* The initial state.
LEMMA FilterInitially ==
  FilterInit => FilterInv /\ PlainFiltersMeanWhatTheySay /\ NoOrNeverWidens
<1> SUFFICES ASSUME FilterInit
             PROVE  FilterInv /\ PlainFiltersMeanWhatTheySay /\ NoOrNeverWidens
  OBVIOUS
<1>1. [text |-> <<>>, meant |-> Packets, plain |-> TRUE] \in FilterRecord
  BY DEF FilterRecord, Texts
<1>2. /\ filter \in [Named -> FilterRecord]
      /\ \A r \in Named : filter[r].text = <<>>
  BY <1>1 DEF FilterInit
<1>3. FilterTypeOK
  <2>1. <<>> \in Seq(FilterRecord) /\ <<>> \in Texts
    BY DEF Texts
  <2>2. 0 \in 0 .. MaxSteps
    BY FilterAssumption
  <2> QED BY <1>2, <2>1, <2>2 DEF FilterInit, FilterTypeOK
<1>4. \A d \in Directions : DOMAIN filters[d] = {} /\ captured[d] = {}
  BY DEF FilterInit
<1>5. \A r \in Named : ReadAsMeant(filter[r])
  BY <1>2 DEF ReadAsMeant
<1>6. FilterInv
  BY <1>3, <1>4, <1>5 DEF FilterInv, FilterInit
<1>7. PlainFiltersMeanWhatTheySay
  BY DEF FilterInit, PlainFiltersMeanWhatTheySay
<1>8. NoOrNeverWidens
  BY <1>4 DEF NoOrNeverWidens
<1> QED BY <1>6, <1>7, <1>8

\* Making a filter and joining filters: the new filter has to be one that is
\* read as it was meant.
LEMMA JoinStep ==
  ASSUME FilterInv, NEW r \in Named, NEW text \in Texts,
         NEW meant \in SUBSET Packets, NEW plain \in BOOLEAN,
         plain => /\ Len(text) = 1
                  /\ \A p \in Packets :
                       p.ver = "ip" => (p \in Matched(text) <=> p \in meant),
         Join(r, text, meant, plain)
  PROVE  FilterInv' /\ ~started'
<1> DEFINE f == [text |-> text, meant |-> meant, plain |-> plain]
<1>1. f \in FilterRecord /\ f.text = text /\ f.meant = meant /\ f.plain = plain
  BY DEF FilterRecord
<1>2. ReadAsMeant(f)
  BY <1>1 DEF ReadAsMeant
<1>3. filter' = [filter EXCEPT ![r] = f] /\ filter \in [Named -> FilterRecord]
  BY DEF Join, FilterInv, FilterTypeOK
<1> HIDE DEF f
<1>4. filter' \in [Named -> FilterRecord] /\ \A q \in Named : ReadAsMeant(filter'[q])
  <2>1. \A q \in Named : filter'[q] = f \/ filter'[q] = filter[q]
    BY <1>3
  <2>2. \A q \in Named : ReadAsMeant(filter[q])
    BY DEF FilterInv
  <2>3. filter' \in [Named -> FilterRecord]
    BY <1>1, <1>3
  <2>4. ASSUME NEW q \in Named PROVE ReadAsMeant(filter'[q])
    <3>1. CASE filter'[q] = f
      BY <3>1, <1>2
    <3>2. CASE filter'[q] = filter[q]
      BY <3>2, <2>2
    <3> QED BY <2>1, <3>1, <3>2
  <2> QED BY <2>3, <2>4
<1>5. /\ vpn' = vpn /\ filters' = filters /\ data' = data /\ started' = started
      /\ captured' = captured /\ ~started /\ steps' \in 0 .. MaxSteps
  BY FilterAssumption DEF Join, FilterInv, FilterTypeOK
<1>6. FilterTypeOK'
  BY <1>4, <1>5 DEF FilterInv, FilterTypeOK
<1>7. (\A q \in Named : ReadAsMeant(filter[q]))'
  BY <1>4 DEF ReadAsMeant, Matched, Valid, LiteralHolds, IsComparison
<1>8. /\ \A d \in Directions : \A i \in DOMAIN filters[d] :
           filters[d][i].text # <<>> /\ ReadAsMeant(filters[d][i])
      /\ captured = [d \in Directions |-> {}]
  BY <1>5 DEF FilterInv
<1>9. (/\ \A d \in Directions : \A i \in DOMAIN filters[d] :
            filters[d][i].text # <<>> /\ ReadAsMeant(filters[d][i])
       /\ captured = [d \in Directions |-> {}])'
  BY <1>5, <1>8 DEF ReadAsMeant
<1> QED BY <1>5, <1>6, <1>7, <1>9 DEF FilterInv

\* A filter in hand has the type of a filter.
LEMMA InHand ==
  ASSUME FilterInv, NEW r \in Named
  PROVE  /\ filter[r] \in FilterRecord
         /\ filter[r].text \in Texts /\ filter[r].meant \in SUBSET Packets
         /\ filter[r].plain \in BOOLEAN /\ ReadAsMeant(filter[r])
<1>1. filter[r] \in FilterRecord
  BY DEF FilterInv, FilterTypeOK
<1>2. ReadAsMeant(filter[r])
  BY DEF FilterInv
<1> QED BY <1>1, <1>2 DEF FilterRecord

\* WinDivertTrafficFilter_ makes a filter.
LEMMA MakeStep ==
  ASSUME FilterInv, NEW r \in Named, NEW text \in Offered, Make(r, text)
  PROVE  FilterInv' /\ ~started'
<1>1. text \in Texts
  BY FilterAssumption
<1>2. Matched(text) \in SUBSET Packets
  BY DEF Matched
<1>3. (Len(text) = 1) \in BOOLEAN
  OBVIOUS
<1> DEFINE meant == Matched(text)
           plain == Len(text) = 1
<1>4. Join(r, text, meant, plain)
  BY DEF Make
<1>5. plain => /\ Len(text) = 1
               /\ \A p \in Packets :
                    p.ver = "ip" => (p \in Matched(text) <=> p \in meant)
  OBVIOUS
<1>6. meant \in SUBSET Packets /\ plain \in BOOLEAN
  BY <1>2, <1>3
<1> HIDE DEF meant, plain
<1> QED BY <1>1, <1>4, <1>5, <1>6, JoinStep

\* operator&&.
LEMMA AndStep ==
  ASSUME FilterInv, NEW r \in Named, NEW s \in Named, And(r, s)
  PROVE  FilterInv' /\ ~started'
<1> DEFINE x == filter[r].text
           y == filter[s].text
           text == AndText(x, y)
           meant == filter[r].meant \cap filter[s].meant
           plain == filter[r].plain /\ filter[s].plain
<1>1. /\ x \in Texts /\ filter[r].meant \in SUBSET Packets
      /\ filter[r].plain \in BOOLEAN /\ ReadAsMeant(filter[r])
  BY InHand
<1>2. /\ y \in Texts /\ filter[s].meant \in SUBSET Packets
      /\ filter[s].plain \in BOOLEAN /\ ReadAsMeant(filter[s])
  BY InHand
<1>3. x # <<>> /\ y # <<>> /\ Join(r, text, meant, plain)
  BY DEF And
<1>4. text \in Texts
  BY <1>1, <1>2, AndTextType
<1>5. meant \in SUBSET Packets
  BY <1>1, <1>2
<1>6. plain \in BOOLEAN
  OBVIOUS
<1>7. ASSUME plain
      PROVE  /\ Len(text) = 1
             /\ \A p \in Packets :
                  p.ver = "ip" => (p \in Matched(text) <=> p \in meant)
  <2>1. /\ Len(x) = 1
        /\ \A p \in Packets :
             p.ver = "ip" => (p \in Matched(x) <=> p \in filter[r].meant)
    BY <1>1, <1>3, <1>7 DEF ReadAsMeant
  <2>2. /\ Len(y) = 1
        /\ \A p \in Packets :
             p.ver = "ip" => (p \in Matched(y) <=> p \in filter[s].meant)
    BY <1>2, <1>3, <1>7 DEF ReadAsMeant
  <2>3. Len(text) = 1 /\ Matched(text) = Matched(x) \cap Matched(y)
    BY <1>1, <1>2, <2>1, <2>2, MatchedAnd
  <2> HIDE DEF x, y, text
  <2> QED BY <2>1, <2>2, <2>3
<1> HIDE DEF text, meant, plain
<1> QED BY <1>3, <1>4, <1>5, <1>6, <1>7, JoinStep

\* operator||: the result is not plain.
LEMMA OrStep ==
  ASSUME FilterInv, NEW r \in Named, NEW s \in Named, Or(r, s)
  PROVE  FilterInv' /\ ~started'
<1> DEFINE x == filter[r].text
           y == filter[s].text
           text == OrText(x, y)
           meant == filter[r].meant \cup filter[s].meant
<1>1. x \in Texts /\ filter[r].meant \in SUBSET Packets
  BY InHand
<1>2. y \in Texts /\ filter[s].meant \in SUBSET Packets
  BY InHand
<1>3. Join(r, text, meant, FALSE)
  BY DEF Or
<1>4. text \in Texts
  BY <1>1, <1>2 DEF OrText, Texts
<1>5. meant \in SUBSET Packets
  BY <1>1, <1>2
<1> HIDE DEF text, meant
<1> QED BY <1>3, <1>4, <1>5, JoinStep

\* operator!.
LEMMA NotStep ==
  ASSUME FilterInv, NEW r \in Named, Not(r)
  PROVE  FilterInv' /\ ~started'
<1> DEFINE x == filter[r].text
           text == NotText(x)
           meant == Packets \ filter[r].meant
           plain == /\ filter[r].plain
                    /\ Cardinality(Positions(x)) = 1
                    /\ IsComparison(x[1][1]) =>
                         /\ x[1][1].neg = 0
                         /\ x[1][1].atom[1] \in {"ip.SrcAddr", "ip.DstAddr"}
<1>1. /\ x \in Texts /\ filter[r].meant \in SUBSET Packets
      /\ filter[r].plain \in BOOLEAN /\ ReadAsMeant(filter[r])
  BY InHand
<1>2. x # <<>> /\ Join(r, text, meant, plain)
  BY DEF Not
<1>3. text \in Texts /\ Len(text) = Len(x)
  BY <1>1, NotTextType
<1>4. meant \in SUBSET Packets
  OBVIOUS
<1>5. plain \in BOOLEAN
  OBVIOUS
<1>6. ASSUME plain
      PROVE  /\ Len(text) = 1
             /\ \A p \in Packets :
                  p.ver = "ip" => (p \in Matched(text) <=> p \in meant)
  <2>1. /\ Len(x) = 1
        /\ \A p \in Packets :
             p.ver = "ip" => (p \in Matched(x) <=> p \in filter[r].meant)
    BY <1>1, <1>2, <1>6 DEF ReadAsMeant
  <2>2. ASSUME NEW p \in Packets, p.ver = "ip"
        PROVE  p \in Matched(text) <=> p \notin Matched(x)
    BY <1>1, <1>6, <2>1, <2>2, NotMatched
  <2> HIDE DEF x, text
  <2> QED BY <1>3, <2>1, <2>2
<1> HIDE DEF text, meant, plain
<1> QED BY <1>2, <1>3, <1>4, <1>5, <1>6, JoinStep

\* add_outgoing_traffic_filter and add_incoming_traffic_filter.
LEMMA AddFilterStep ==
  ASSUME FilterInv, NEW d \in Directions, NEW r \in Named, AddFilter(d, r)
  PROVE  FilterInv' /\ ~started'
<1>1. PICK f : f = filter[r]
  OBVIOUS
<1>2. f \in FilterRecord /\ ReadAsMeant(f) /\ f.text # <<>>
  BY <1>1, InHand DEF AddFilter
<1>3. PICK old : old = filters
  OBVIOUS
<1>4. old \in [Directions -> Seq(FilterRecord)]
  BY <1>3 DEF FilterInv, FilterTypeOK
<1>5. PICK new : new = filters'
  OBVIOUS
<1>6. new = [old EXCEPT ![d] = Append(@, f)]
  BY <1>1, <1>3, <1>5 DEF AddFilter
<1>7. /\ vpn' = vpn /\ filter' = filter /\ ~started /\ started' = started
      /\ captured' = captured /\ steps' \in 0 .. MaxSteps
      /\ data' = [data EXCEPT ![d] = Calculate(new[d])]
  BY <1>5, FilterAssumption DEF AddFilter, FilterInv, FilterTypeOK
<1>8. new \in [Directions -> Seq(FilterRecord)]
  BY <1>2, <1>4, <1>6
<1>9. data' \in [Directions -> Texts]
  <2>1. Calculate(new[d]) \in Texts
    BY <1>8, CalculateType
  <2>2. data \in [Directions -> Texts]
    BY DEF FilterInv, FilterTypeOK
  <2> QED BY <1>7, <2>1, <2>2
<1>10. FilterTypeOK'
  BY <1>5, <1>7, <1>8, <1>9 DEF FilterInv, FilterTypeOK
<1>11. \A e \in Directions : \A i \in DOMAIN old[e] :
         old[e][i].text # <<>> /\ ReadAsMeant(old[e][i])
  BY <1>3, <1>7 DEF FilterInv
<1>12. ASSUME NEW e \in Directions, NEW i \in DOMAIN new[e]
       PROVE  new[e][i].text # <<>> /\ ReadAsMeant(new[e][i])
  <2>1. CASE e # d
    <3>1. new[e] = old[e]
      BY <1>4, <1>6, <2>1
    <3> QED BY <1>11, <1>12, <3>1
  <2>2. CASE e = d
    <3>1. new[e] = Append(old[e], f) /\ old[e] \in Seq(FilterRecord)
      BY <1>4, <1>6, <2>2
    <3>2. DOMAIN new[e] = 1 .. Len(old[e]) + 1 /\ DOMAIN old[e] = 1 .. Len(old[e])
          /\ Len(old[e]) \in Nat
      BY <3>1
    <3>3. CASE i = Len(old[e]) + 1
      <4>1. new[e][i] = f
        BY <3>1, <3>3
      <4> QED BY <1>2, <4>1
    <3>4. CASE i # Len(old[e]) + 1
      <4>1. i \in DOMAIN old[e]
        BY <1>12, <3>2, <3>4
      <4>2. new[e][i] = old[e][i]
        BY <3>1, <3>2, <4>1
      <4> QED BY <1>11, <4>1, <4>2
    <3> QED BY <3>3, <3>4
  <2> QED BY <2>1, <2>2
<1>13. (\A q \in Named : ReadAsMeant(filter[q]))'
  BY <1>7 DEF FilterInv, ReadAsMeant
<1>14. (\A e \in Directions : \A i \in DOMAIN filters[e] :
          filters[e][i].text # <<>> /\ ReadAsMeant(filters[e][i]))'
  BY <1>5, <1>12 DEF ReadAsMeant
<1>15. (captured = [e \in Directions |-> {}])'
  BY <1>7 DEF FilterInv
<1> QED BY <1>7, <1>10, <1>13, <1>14, <1>15 DEF FilterInv

\* start_capture_outgoing_traffic and start_capture_incoming_traffic.
LEMMA StartCaptureStep ==
  ASSUME FilterInv, StartCapture
  PROVE  FilterInv' /\ PlainFiltersMeanWhatTheySay' /\ NoOrNeverWidens'
<1>1. PICK old : old = filters
  OBVIOUS
<1>2. PICK new : new = filters'
  OBVIOUS
<1>4. old \in [Directions -> Seq(FilterRecord)]
  BY <1>1 DEF FilterInv, FilterTypeOK
<1>5. ASSUME NEW d \in Directions
      PROVE  new[d] = old[d] \o DefaultFilters[d]
  BY <1>1, <1>2 DEF StartCapture
<1>6. /\ vpn' = vpn /\ filter' = filter /\ ~started /\ started' = TRUE
      /\ steps' = steps
      /\ new = [d \in Directions |-> old[d] \o DefaultFilters[d]]
      /\ data' = [d \in Directions |-> Calculate(new[d])]
      /\ captured' = [d \in Directions |-> Matched(Calculate(new[d]))]
  BY <1>1, <1>2 DEF StartCapture
<1>7. \A d \in Directions : \A i \in DOMAIN old[d] :
        old[d][i].text # <<>> /\ ReadAsMeant(old[d][i])
  BY <1>1, <1>6 DEF FilterInv
<1>8. ASSUME NEW d \in Directions
      PROVE  /\ new[d] \in Seq(FilterRecord)
             /\ (\A i \in DOMAIN new[d] : Len(new[d][i].text) = 1) =>
                  captured'[d] \subseteq MeantByDefault(d)
             /\ vpn \in IPv4 /\ (\A i \in DOMAIN new[d] : new[d][i].plain)
                  => captured'[d] =
                       {p \in MeantByDefault(d) :
                          \A i \in DOMAIN new[d] : p \in new[d][i].meant}
  <2>1. DefaultsDivert(d)
    BY DefaultsOfBoth DEF FilterInv
  <2>2. old[d] \in Seq(FilterRecord) /\ new[d] = old[d] \o DefaultFilters[d]
    BY <1>4, <1>5
  <2>3. captured'[d] = Matched(Calculate(new[d]))
    BY <1>6
  <2>4. \A i \in DOMAIN old[d] : old[d][i].text # <<>> /\ ReadAsMeant(old[d][i])
    BY <1>7
  <2> QED BY <2>1, <2>2, <2>3, <2>4, CaptureOf
<1>9. FilterTypeOK'
  <2>1. new \in [Directions -> Seq(FilterRecord)]
    BY <1>6, <1>8
  <2>2. data' \in [Directions -> Texts]
    BY <1>6, <1>8, CalculateType
  <2>3. captured' \in [Directions -> SUBSET Packets]
    BY <1>6 DEF Matched
  <2> QED BY <1>2, <1>6, <2>1, <2>2, <2>3 DEF FilterInv, FilterTypeOK
<1>10. (\A q \in Named : ReadAsMeant(filter[q]))'
  BY <1>6 DEF FilterInv, ReadAsMeant
<1>11. FilterInv'
  BY <1>6, <1>9, <1>10 DEF FilterInv
<1>12. \A d : MeantByDefault(d)' = MeantByDefault(d)
  BY <1>6 DEF MeantByDefault
<1>13. PlainFiltersMeanWhatTheySay'
  BY <1>2, <1>6, <1>8, <1>12 DEF PlainFiltersMeanWhatTheySay
<1>14. NoOrNeverWidens'
  BY <1>2, <1>6, <1>8, <1>12 DEF NoOrNeverWidens
<1> QED BY <1>11, <1>13, <1>14

\* Every step keeps the invariant and both properties.
LEMMA FilterStep ==
  FilterInv /\ PlainFiltersMeanWhatTheySay /\ NoOrNeverWidens /\ [FilterNext]_filterVars
    => FilterInv' /\ PlainFiltersMeanWhatTheySay' /\ NoOrNeverWidens'
<1> SUFFICES ASSUME FilterInv, PlainFiltersMeanWhatTheySay, NoOrNeverWidens,
                    [FilterNext]_filterVars
             PROVE  FilterInv' /\ PlainFiltersMeanWhatTheySay' /\ NoOrNeverWidens'
  OBVIOUS
<1>1. ASSUME FilterInv', ~started'
      PROVE  PlainFiltersMeanWhatTheySay' /\ NoOrNeverWidens'
  <2>1. \A d \in Directions : captured'[d] = {}
    BY <1>1 DEF FilterInv
  <2> QED BY <1>1, <2>1 DEF PlainFiltersMeanWhatTheySay, NoOrNeverWidens
<1>2. ASSUME NEW r \in Named, NEW text \in Offered, Make(r, text)
      PROVE  FilterInv' /\ ~started'
  BY <1>2, MakeStep
<1>3. ASSUME NEW r \in Named, NEW s \in Named \ {r}, And(r, s)
      PROVE  FilterInv' /\ ~started'
  BY <1>3, AndStep
<1>4. ASSUME NEW r \in Named, NEW s \in Named \ {r}, Or(r, s)
      PROVE  FilterInv' /\ ~started'
  BY <1>4, OrStep
<1>5. ASSUME NEW r \in Named, Not(r)
      PROVE  FilterInv' /\ ~started'
  BY <1>5, NotStep
<1>6. ASSUME NEW r \in Named, NEW d \in Directions, AddFilter(d, r)
      PROVE  FilterInv' /\ ~started'
  BY <1>6, AddFilterStep
<1>7. CASE StartCapture
  BY <1>7, StartCaptureStep
<1>8. CASE UNCHANGED filterVars
  <2>1. /\ vpn' = vpn /\ filter' = filter /\ filters' = filters /\ data' = data
        /\ started' = started /\ captured' = captured /\ steps' = steps
    BY <1>8 DEF filterVars
  <2>2. FilterInv'
    BY <2>1 DEF FilterInv, FilterTypeOK, ReadAsMeant
  <2>3. PlainFiltersMeanWhatTheySay' /\ NoOrNeverWidens'
    BY <2>1 DEF PlainFiltersMeanWhatTheySay, NoOrNeverWidens, MeantByDefault
  <2> QED BY <2>2, <2>3
<1> QED BY <1>1, <1>2, <1>3, <1>4, <1>5, <1>6, <1>7, <1>8 DEF FilterNext

\* The variables keep their types: operator! never leaves the text it is
\* given, and what calculate_..._filters pastes together is text.
THEOREM TextTypeCorrect == FilterSpec => []FilterTypeOK
<1>1. FilterInv => FilterTypeOK
  BY DEF FilterInv
<1> QED BY <1>1, FilterInitially, FilterStep, PTL DEF FilterSpec

\* Filters made of single tests and && alone are read by WinDivert as they
\* were meant, whichever program makes, joins and adds them.
THEOREM PlainCorrect == FilterSpec => []PlainFiltersMeanWhatTheySay
BY FilterInitially, FilterStep, PTL DEF FilterSpec

\* Without an "or" no filter widens what is captured beyond what the default
\* filters are there for.
THEOREM NoOrCorrect == FilterSpec => []NoOrNeverWidens
BY FilterInitially, FilterStep, PTL DEF FilterSpec
=============================================================================
