----------------------------- MODULE WireProofs -----------------------------
(***************************************************************************)
(* Proofs about what comes over the wire: about SafeReceive for every      *)
(* stream, header size and number of tries, and that it implements         *)
(* RecordChannel; and about PacketTransit for any addresses, ports and bytes *)
(* of a packet.                                                            *)
(***************************************************************************)
EXTENDS SafeReceive, PacketTransit, NaturalsInduction,
        WellFoundedInduction, SequenceTheorems, TLAPS

----------------------------------------------------------------------------
(* What a CHOOSE of a smallest element rests on *)

\* A nonempty set of naturals has a least element.
LEMMA Least ==
  ASSUME NEW S \in SUBSET Nat, S # {}
  PROVE  \E i \in S : \A j \in S : i <= j
<1>1. \E i \in S : \A j \in S : ~(<<j, i>> \in OpToRel(<, Nat))
  BY WFMin, NatLessThanWellFounded
<1>2. ASSUME NEW i \in Nat, NEW j \in Nat, j < i
      PROVE  <<j, i>> \in OpToRel(<, Nat)
  <2> DEFINE p == <<j, i>>
  <2>1. p \in Nat \X Nat /\ p[1] = j /\ p[2] = i
    OBVIOUS
  <2> HIDE DEF p
  <2>2. p[1] < p[2]
    BY <2>1, <1>2
  <2>3. p \in OpToRel(<, Nat)
    BY <2>1, <2>2, Zenon DEF OpToRel
  <2> QED BY <2>3 DEF p
<1>3. \A i \in Nat, j \in Nat : j < i => <<j, i>> \in OpToRel(<, Nat)
  BY <1>2
<1>4. PICK i \in S : \A j \in S : ~(<<j, i>> \in OpToRel(<, Nat))
  BY <1>1
<1>5. \A j \in S : ~(j < i)
  BY <1>3, <1>4
<1>6. \A j \in S : i <= j
  BY <1>5
<1> QED BY <1>6

----------------------------------------------------------------------------
(* Positions of the stream *)

\* A stream has a last record end.
LEMMA TotalIsLast ==
  ASSUME ends \in Streams
  PROVE  /\ ends \subseteq Nat
         /\ Total \in ends /\ Total \in Nat
         /\ \A f \in ends : f <= Total
<1>1. ends \subseteq Nat /\ \E e \in ends : \A f \in ends : f <= e
  BY ReceiveAssumption
<1> QED BY <1>1 DEF Total

\* Every position before the last end lies in a record that ends.
LEMMA EndAfterIsNext ==
  ASSUME ends \in Streams, NEW p \in Nat, p < Total
  PROVE  /\ EndAfter(p) \in ends /\ EndAfter(p) \in Nat
         /\ p < EndAfter(p) /\ EndAfter(p) <= Total
<1> DEFINE S == {e \in ends : e > p}
<1>1. S \in SUBSET Nat /\ S # {}
  BY TotalIsLast
<1>2. \E e \in S : \A f \in S : e <= f
  BY <1>1, Least
<1>3. \E e \in ends : e > p /\ \A f \in ends : f > p => e <= f
  BY <1>2
<1>4. EndAfter(p) \in ends /\ EndAfter(p) > p
  BY <1>3 DEF EndAfter
<1> QED BY <1>4, TotalIsLast

\* What bytes_parse tells of n bytes at any position, read as a record or not.
LEMMA ParseType ==
  ASSUME ends \in Streams, NEW p \in Nat, NEW n \in Int, NEW r \in BytesParse(p, n)
  PROVE  /\ r.bp \in {"full", "not_full", "and_tail"}
         /\ r.bp = "full" => n > 0
         /\ r.bp = "and_tail" => r.len \in Nat /\ r.len < n /\ n >= Hdr
<1>1. Hdr \in Nat \ {0} /\ MaxLen \in Nat
  BY ReceiveAssumption
<1>2. CASE n < Hdr
  BY <1>1, <1>2 DEF BytesParse
<1>3. CASE ~(n < Hdr)
  <2>1. \A l \in Lengths(p) : l \in Nat
    BY <1>1, EndAfterIsNext DEF Lengths
  <2>2. PICK l \in Lengths(p) :
          r = [bp  |-> IF l = n THEN "full" ELSE IF l > n THEN "not_full"
                       ELSE "and_tail",
               len |-> l]
    BY <1>3 DEF BytesParse
  <2>3. r.len = l /\ (r.bp = IF l = n THEN "full" ELSE IF l > n THEN "not_full"
                       ELSE "and_tail")
    BY <2>2
  <2> QED BY <1>1, <1>3, <2>1, <2>2, <2>3
<1> QED BY <1>2, <1>3

\* At the start of a record the parse is right.
LEMMA ParseAtRecord ==
  ASSUME ends \in Streams, NEW p \in Nat, p \in ends \cup {0}, p < Total,
         NEW n \in Nat, NEW r \in BytesParse(p, n)
  PROVE  /\ r.bp = "full" => EndAfter(p) = p + n
         /\ r.bp = "and_tail" => EndAfter(p) = p + r.len
<1>1. EndAfter(p) \in Nat /\ p < EndAfter(p)
  BY EndAfterIsNext
<1>2. Lengths(p) = {EndAfter(p) - p}
  BY DEF Lengths
<1>3. CASE n < Hdr
  BY <1>3 DEF BytesParse
<1>4. CASE ~(n < Hdr)
  <2> DEFINE l == EndAfter(p) - p
  <2>1. r = [bp  |-> IF l = n THEN "full" ELSE IF l > n THEN "not_full"
                     ELSE "and_tail",
             len |-> l]
    BY <1>2, <1>4 DEF BytesParse
  <2> HIDE DEF l
  <2>2. r.len = l /\ (r.bp = "full" => l = n)
    BY <2>1
  <2> QED BY <1>1, <2>2 DEF l
<1> QED BY <1>3, <1>4

\* While framing holds, a call that is not waiting stands at the start of a
\* record, and one that waits is inside or at the end of its last object.
LEMMA StandsAtRecord ==
  ASSUME Framed, ~crossed
  PROVE  /\ signal # "wait" => got \in ends \cup {0}
         /\ separators # <<>> =>
              LET last == separators[Len(separators)]
              IN  /\ last.to = got /\ last.from \in Nat /\ last.from < got
                  /\ last.from \in ends \cup {0}
<1>1. TypeOK /\ FramingHolds /\ ObjectsFollow /\ ends \in Streams
      /\ (signal = "no_data" <=> separators = <<>>)
  BY DEF Framed, TypeOK
<1>2. CASE separators = <<>>
  BY <1>1, <1>2 DEF FramingHolds
<1>3. CASE separators # <<>>
  <2> DEFINE L == Len(separators)
  <2>1. separators \in Seq(Objects) /\ L \in Nat /\ L > 0
    BY <1>1, <1>3, EmptySeq, LenProperties DEF TypeOK
  <2>2. L \in 1 .. L /\ separators[L] \in Objects
    BY <2>1
  <2>3. separators[L].from \in Nat /\ separators[L].to \in Nat
    BY <2>2 DEF Objects
  <2>4. separators[L].to = got /\ (signal = "full" => IsRecord(separators[L]))
    BY <1>1, <2>2 DEF FramingHolds
  <2>5. separators[L].from \in ends \cup {0} /\ separators[L].from < separators[L].to
    BY <1>1, <2>2 DEF ObjectsFollow
  <2>6. IsRecord(separators[L]) => separators[L].to \in ends
    BY <1>1, <2>3, EndAfterIsNext DEF IsRecord
  <2>7. signal = "full" \/ signal = "wait"
    BY <1>1, <1>3 DEF TypeOK
  <2> QED BY <2>3, <2>4, <2>5, <2>6, <2>7
<1> QED BY <1>2, <1>3

\* parse_data on the first bytes of a call, or on more bytes after full data.
LEMMA ParseDataStep ==
  ASSUME Framed, NEW k \in Nat, k > 0, got + k <= Total, signal # "wait",
         ParseData(k), got' = got + k, UNCHANGED <<ends, base, tries, returned>>
  PROVE  Framed'
<1>1. TypeOK /\ FramingHolds /\ ObjectsFollow /\ ends \in Streams
      /\ got \in Nat /\ (signal = "no_data" <=> separators = <<>>)
  BY DEF Framed, TypeOK
<1> DEFINE L == Len(separators)
<1>2. PICK r \in BytesParse(got, k) :
        /\ separators' = separators \o
             IF r.bp = "and_tail"
             THEN <<Object(got, got + r.len), Object(got + r.len, got + k)>>
             ELSE <<Object(got, got + k)>>
        /\ signal' = IF r.bp = "full" THEN "full" ELSE "wait"
        /\ UNCHANGED <<crossed, ub>>
  BY DEF ParseData
<1>3. /\ r.bp \in {"full", "not_full", "and_tail"}
      /\ r.bp = "and_tail" => r.len \in Nat /\ r.len < k
  BY <1>1, ParseType
<1> DEFINE new == IF r.bp = "and_tail"
                  THEN <<Object(got, got + r.len), Object(got + r.len, got + k)>>
                  ELSE <<Object(got, got + k)>>
<1>4. new \in Seq(Objects) /\ Len(new) \in {1, 2} /\ (Len(new) = 2 <=> r.bp = "and_tail")
  <2>1. CASE r.bp = "and_tail"
    <3>1. Object(got, got + r.len) \in Objects /\ Object(got + r.len, got + k) \in Objects
      BY <1>1, <1>3, <2>1 DEF Object, Objects
    <3>2. new = <<Object(got, got + r.len), Object(got + r.len, got + k)>>
      BY <2>1
    <3> HIDE DEF new
    <3> QED BY <2>1, <3>1, <3>2
  <2>2. CASE r.bp # "and_tail"
    <3>1. Object(got, got + k) \in Objects
      BY <1>1 DEF Object, Objects
    <3>2. new = <<Object(got, got + k)>>
      BY <2>2
    <3> HIDE DEF new
    <3> QED BY <2>2, <3>1, <3>2
  <2> QED BY <2>1, <2>2
<1>5. /\ r.bp # "and_tail" => new[1] = [from |-> got, to |-> got + k]
      /\ r.bp = "and_tail" => /\ new[1] = [from |-> got, to |-> got + r.len]
                              /\ new[2] = [from |-> got + r.len, to |-> got + k]
  BY DEF Object
<1>6. separators' = separators \o new
  BY <1>2
<1> HIDE DEF new
<1>7. separators \in Seq(Objects) /\ L \in Nat
  BY <1>1, LenProperties DEF TypeOK
<1>8. /\ separators' \in Seq(Objects)
      /\ Len(separators') = L + Len(new)
      /\ \A i \in 1 .. L : separators'[i] = separators[i]
      /\ separators'[L + 1] = new[1]
      /\ r.bp = "and_tail" => separators'[L + 2] = new[2]
  BY <1>4, <1>6, <1>7, ConcatProperties
<1>9. TypeOK'
  BY <1>1, <1>2, <1>8 DEF TypeOK
<1>10. got' <= Total' /\ (signal' = "no_data" <=> separators' = <<>>)
  <2>1. Total' = Total
    BY DEF Total
  <2>2. Len(separators') # 0
    BY <1>4, <1>7, <1>8
  <2>3. separators' # <<>>
    BY <1>8, <2>2, EmptySeq
  <2> QED BY <1>2, <2>1, <2>3
<1>11. ASSUME ~crossed'
       PROVE  FramingHolds' /\ ObjectsFollow'
  <2>1. ~crossed /\ got \in ends \cup {0} /\ got < Total
    BY <1>1, <1>2, <1>11, StandsAtRecord, TotalIsLast
  <2>2. /\ r.bp = "full" => EndAfter(got) = got + k
        /\ r.bp = "and_tail" => EndAfter(got) = got + r.len
        /\ EndAfter(got) \in ends /\ got < EndAfter(got)
    BY <1>1, <2>1, ParseAtRecord, EndAfterIsNext
  <2>3. \A o : IsRecord(o)' <=> IsRecord(o)
    BY DEF IsRecord, Total, EndAfter
  <2>4. separators = <<>> => got = base /\ L = 0
    BY <1>1, <2>1 DEF FramingHolds
  <2>5. separators # <<>> => /\ L > 0 /\ separators[L].to = got
                             /\ \A i \in 1 .. L : IsRecord(separators[i])
    <3>1. separators # <<>> => L # 0
      BY <1>7, EmptySeq
    <3>2. separators # <<>> => signal = "full"
      BY <1>1 DEF TypeOK
    <3> QED BY <1>1, <1>7, <2>1, <3>1, <3>2, StandsAtRecord DEF FramingHolds
  <2>6. ASSUME NEW i \in 1 .. Len(separators')
        PROVE  /\ separators'[i].from = IF i = 1 THEN base ELSE separators'[i - 1].to
               /\ i < Len(separators') \/ signal' = "full" => IsRecord(separators'[i])
               /\ i = Len(separators') => separators'[i].to = got + k
               /\ separators'[i].from \in ends \cup {0}
               /\ separators'[i].from < separators'[i].to
    <3>1. CASE i \in 1 .. L
      <4>1. separators # <<>> /\ i # Len(separators')
        BY <1>4, <1>7, <1>8, <2>4, <3>1
      <4>2. separators'[i] = separators[i]
            /\ (i # 1 => separators'[i - 1] = separators[i - 1])
        <5> HIDE DEF L
        <5>1. i # 1 => i - 1 \in 1 .. L
          BY <1>7, <3>1
        <5> QED BY <1>8, <3>1, <5>1
      <4> QED BY <1>1, <2>1, <2>5, <3>1, <4>1, <4>2 DEF FramingHolds, ObjectsFollow
    <3>2. CASE i = L + 1
      <4>1. separators'[i] = new[1] /\ (i # 1 => separators'[i - 1] = separators[L])
        BY <1>7, <1>8, <3>2
      <4>2. got = IF i = 1 THEN base ELSE separators[L].to
        BY <1>7, <2>4, <2>5, <3>2
      <4>3. CASE r.bp = "and_tail"
        <5>1. separators'[i].from = got /\ separators'[i].to = EndAfter(got)
          BY <1>5, <2>2, <4>1, <4>3
        <5> HIDE DEF L
        <5>2. Len(new) = 2
          BY <1>4, <4>3
        <5>3. i # Len(separators')
          BY <1>7, <1>8, <3>2, <5>2
        <5>4. IsRecord(separators'[i])
          BY <2>1, <5>1 DEF IsRecord
        <5> QED BY <2>1, <2>2, <4>1, <4>2, <5>1, <5>3, <5>4
      <4>4. CASE r.bp # "and_tail"
        BY <1>1, <1>2, <1>4, <1>5, <1>7, <1>8, <2>1, <2>2, <3>2, <4>1, <4>2, <4>4
           DEF IsRecord
      <4> QED BY <4>3, <4>4
    <3>3. CASE i = L + 2
      <4>1. r.bp = "and_tail" /\ separators'[i] = new[2] /\ separators'[i - 1] = new[1]
        <5> HIDE DEF L
        <5>1. L + 2 \in 1 .. L + Len(new)
          BY <1>8, <3>3
        <5>2. ASSUME Len(new) = 1 PROVE FALSE
          BY <1>7, <5>1, <5>2
        <5>3. r.bp = "and_tail"
          BY <1>4, <5>2
        <5>4. i - 1 = L + 1
          BY <1>7, <3>3
        <5> QED BY <1>8, <3>3, <5>3, <5>4
      <4>2. i = Len(separators') /\ i # 1 /\ signal' = "wait"
        BY <1>2, <1>4, <1>7, <1>8, <3>3, <4>1
      <4>3. /\ separators'[i].from = got + r.len /\ separators'[i].to = got + k
            /\ separators'[i - 1].to = got + r.len
        BY <1>5, <4>1
      <4>4. got + r.len \in ends /\ got + r.len < got + k
        BY <1>1, <1>3, <2>2, <4>1
      <4>5. ~(i < Len(separators')) /\ signal' # "full"
        BY <1>8, <4>2, LenProperties
      <4>6. separators'[i].from = IF i = 1 THEN base ELSE separators'[i - 1].to
        BY <4>2, <4>3
      <4>7. separators'[i].from \in ends \cup {0} /\ separators'[i].from < separators'[i].to
        BY <4>3, <4>4
      <4> QED BY <4>3, <4>5, <4>6, <4>7
    <3>4. i \in 1 .. L \/ i = L + 1 \/ i = L + 2
      <4> HIDE DEF L
      <4>1. i \in 1 .. L + Len(new)
        BY <1>8
      <4>2. Len(new) = 1 \/ Len(new) = 2
        BY <1>4
      <4>3. CASE Len(new) = 1
        BY <1>7, <4>1, <4>3
      <4>4. CASE Len(new) = 2
        BY <1>7, <4>1, <4>4
      <4> QED BY <4>2, <4>3, <4>4
    <3> QED BY <3>1, <3>2, <3>3, <3>4
  <2>7. base \in ends \cup {0} /\ base = ReturnedTo
    BY <1>1, <2>1 DEF FramingHolds, ObjectsFollow
  <2>8. FramingHolds'
    BY <1>10, <1>2, <2>3, <2>6, <2>7 DEF FramingHolds
  <2>9. ObjectsFollow'
    BY <2>6, <2>7 DEF ObjectsFollow, ReturnedTo
  <2> QED BY <2>8, <2>9
<1>12. FramingHolds' /\ ObjectsFollow'
  BY <1>11 DEF FramingHolds, ObjectsFollow
<1> QED BY <1>9, <1>10, <1>12 DEF Framed

\* _add_data_and_parse on more bytes of a call that waits.
LEMMA AddDataStep ==
  ASSUME Framed, NEW k \in Nat, k > 0, got + k <= Total, signal = "wait",
         AddDataAndParse(k), got' = got + k, UNCHANGED <<ends, base, tries, returned>>
  PROVE  Framed' /\ (crossed => crossed')
<1>1. TypeOK /\ FramingHolds /\ ObjectsFollow /\ ends \in Streams
      /\ got \in Nat /\ (signal = "no_data" <=> separators = <<>>)
  BY DEF Framed, TypeOK
<1> DEFINE L     == Len(separators)
           start == separators[L].from
           fin   == got + k
<1>2. separators \in Seq(Objects) /\ separators # <<>> /\ L \in Nat /\ L > 0
  BY <1>1, EmptySeq, LenProperties DEF TypeOK
<1>3. L \in 1 .. L /\ separators[L] \in Objects /\ start \in Nat /\ fin \in Nat
  <2>1. L \in 1 .. L /\ separators[L] \in Objects
    BY <1>2
  <2> QED BY <1>1, <2>1 DEF Objects
<1>4. PICK r \in BytesParse(start, fin - start) :
        IF r.bp # "and_tail"
        THEN /\ separators' = [separators EXCEPT ![L].to = fin]
             /\ signal' = IF r.bp = "full" THEN "full" ELSE "wait"
             /\ UNCHANGED <<crossed, ub>>
        ELSE /\ separators' = Append([separators EXCEPT ![L].to = start + r.len],
                                Object(fin, fin + (fin - (start + r.len))))
             /\ signal' = "wait"
             /\ crossed' = TRUE
             /\ ub' = (fin - (start + r.len) >= Hdr)
  BY DEF AddDataAndParse
<1> HIDE DEF L, start, fin
<1>5. /\ r.bp \in {"full", "not_full", "and_tail"}
      /\ r.bp = "and_tail" => r.len \in Nat /\ r.len < fin - start
  <2>1. fin - start \in Int
    BY <1>3
  <2> QED BY <1>1, <1>3, <2>1, ParseType
<1>6. \A to \in Nat : /\ [separators EXCEPT ![L].to = to] \in Seq(Objects)
                      /\ Len([separators EXCEPT ![L].to = to]) = L
  <2> SUFFICES ASSUME NEW to \in Nat
               PROVE  /\ [separators EXCEPT ![L].to = to] \in Seq(Objects)
                      /\ Len([separators EXCEPT ![L].to = to]) = L
    OBVIOUS
  <2>1. [separators[L] EXCEPT !.to = to] \in Objects
    BY <1>3 DEF Objects
  <2> QED BY <1>2, <1>3, <2>1, ExceptSeq DEF L
<1>7. Total' = Total /\ got' <= Total'
  BY DEF Total
<1>8. CASE r.bp = "and_tail"
  <2> DEFINE cut == [separators EXCEPT ![L].to = start + r.len]
             obj == Object(fin, fin + (fin - (start + r.len)))
  <2>1. cut \in Seq(Objects) /\ obj \in Objects
    <3>1. start + r.len \in Nat /\ fin + (fin - (start + r.len)) \in Nat
      BY <1>3, <1>5, <1>8
    <3>2. obj \in Objects
      BY <1>3, <3>1 DEF Object, Objects
    <3> QED BY <1>6, <3>1, <3>2
  <2>2. separators' = Append(cut, obj) /\ signal' = "wait" /\ crossed' = TRUE
        /\ ub' \in BOOLEAN
    BY <1>4, <1>8
  <2> HIDE DEF cut, obj
  <2>3. separators' \in Seq(Objects) /\ separators' # <<>>
    BY <2>1, <2>2, AppendProperties
  <2>4. TypeOK'
    BY <1>1, <2>2, <2>3 DEF TypeOK
  <2> QED BY <1>7, <2>2, <2>3, <2>4 DEF Framed, FramingHolds, ObjectsFollow
<1>9. CASE r.bp # "and_tail"
  <2>1. separators' = [separators EXCEPT ![L].to = fin]
        /\ (signal' = IF r.bp = "full" THEN "full" ELSE "wait")
        /\ UNCHANGED <<crossed, ub>>
    BY <1>4, <1>9
  <2>2. separators' \in Seq(Objects) /\ Len(separators') = L
    BY <1>3, <1>6, <2>1
  <2>3. separators' # <<>> /\ signal' # "no_data"
    <3>1. Len(separators') # 0
      BY <1>2, <2>2
    <3>2. separators' # <<>>
      BY <2>2, <3>1, EmptySeq
    <3> QED BY <2>1, <3>2
  <2>4. TypeOK'
    BY <1>1, <2>1, <2>2 DEF TypeOK
  <2>5. ASSUME ~crossed
        PROVE  FramingHolds' /\ ObjectsFollow'
    <3>1. start \in ends \cup {0} /\ start < got
      BY <1>2, <2>5, StandsAtRecord DEF start, L
    <3>2. start < Total /\ fin - start \in Nat /\ start < fin
      BY <1>1, <1>3, <3>1, TotalIsLast DEF fin
    <3>3. r.bp = "full" => EndAfter(start) = fin
      BY <1>1, <1>3, <3>1, <3>2, ParseAtRecord
    <3>4. /\ \A i \in 1 .. L : i # L => separators'[i] = separators[i]
          /\ separators'[L].from = start /\ separators'[L].to = fin
      BY <1>2, <1>3, <2>1 DEF L, start, Objects
    <3>5. \A o : IsRecord(o)' <=> IsRecord(o)
      BY DEF IsRecord, Total, EndAfter
    <3>6. r.bp = "full" => IsRecord(separators'[L])
      BY <3>1, <3>2, <3>3, <3>4 DEF IsRecord
    <3>7. ASSUME NEW i \in 1 .. L
          PROVE  /\ separators'[i].from = IF i = 1 THEN base ELSE separators'[i - 1].to
                 /\ i < L \/ signal' = "full" => IsRecord(separators'[i])
                 /\ i = L => separators'[i].to = got + k
                 /\ separators'[i].from \in ends \cup {0}
                 /\ separators'[i].from < separators'[i].to
      <4>1. i \in 1 .. Len(separators) /\ (i # 1 => i - 1 \in 1 .. L /\ i - 1 # L)
        BY <1>2 DEF L
      <4>2. /\ separators[i].from = IF i = 1 THEN base ELSE separators[i - 1].to
            /\ i < L => IsRecord(separators[i])
            /\ separators[i].from \in ends \cup {0}
            /\ separators[i].from < separators[i].to
        BY <1>1, <2>5, <4>1 DEF FramingHolds, ObjectsFollow, L
      <4>3. CASE i # L
        <5>1. i < L /\ separators'[i] = separators[i]
              /\ (i # 1 => separators'[i - 1] = separators[i - 1])
          BY <1>2, <3>4, <4>1, <4>3
        <5>2. i < L => IsRecord(separators'[i])
          BY <4>2, <5>1
        <5> QED BY <4>2, <4>3, <5>1, <5>2
      <4>4. CASE i = L
        <5>1. separators'[i].from = separators[i].from
              /\ (i # 1 => separators'[i - 1] = separators[i - 1])
          BY <3>4, <4>1, <4>4 DEF start
        <5>2. ~(i < L) /\ (signal' = "full" => r.bp = "full")
          BY <1>2, <2>1, <4>4
        <5> QED BY <3>2, <3>4, <3>6, <4>2, <4>4, <5>1, <5>2 DEF fin
      <4> QED BY <4>3, <4>4
    <3>8. base \in ends \cup {0} /\ base = ReturnedTo
      BY <1>1, <2>5 DEF FramingHolds, ObjectsFollow
    <3>9. FramingHolds'
      BY <2>2, <2>3, <3>5, <3>7, <3>8 DEF FramingHolds
    <3>10. ObjectsFollow'
      BY <2>2, <3>7, <3>8 DEF ObjectsFollow, ReturnedTo
    <3> QED BY <3>9, <3>10
  <2>6. FramingHolds' /\ ObjectsFollow'
    BY <2>1, <2>5 DEF FramingHolds, ObjectsFollow
  <2> QED BY <1>7, <2>1, <2>3, <2>4, <2>6 DEF Framed
<1> QED BY <1>8, <1>9

\* The objects a call hands over follow those of the calls before.
LEMMA ReturnedSeq ==
  ASSUME Framed, Return
  PROVE  /\ separators # <<>> /\ signal = "full"
         /\ returned' \in Seq(Objects) /\ returned' = returned \o separators
         /\ Len(returned) \in Nat /\ Len(separators) \in Nat /\ Len(separators) > 0
         /\ Len(returned') = Len(returned) + Len(separators)
         /\ \A i \in 1 .. Len(returned) : returned'[i] = returned[i]
         /\ \A i \in 1 .. Len(separators) :
              returned'[Len(returned) + i] = separators[i]
<1>1. returned \in Seq(Objects) /\ separators \in Seq(Objects) /\ signal = "full"
  BY DEF Framed, TypeOK, Return, Looping
<1>2. separators # <<>>
  BY <1>1 DEF Framed
<1>3. Len(separators) \in Nat /\ Len(separators) > 0 /\ Len(returned) \in Nat
  BY <1>1, <1>2, EmptySeq, LenProperties
<1>4. returned' = returned \o separators
  BY DEF Return
<1>5. returned' \in Seq(Objects) /\ Len(returned') = Len(returned) + Len(separators)
  BY <1>1, <1>4, ConcatProperties
<1>6. \A i \in 1 .. Len(returned) : returned'[i] = returned[i]
  BY <1>1, <1>3, <1>4, ConcatProperties
<1>7. \A i \in 1 .. Len(separators) : returned'[Len(returned) + i] = separators[i]
  BY <1>1, <1>3, <1>4, ConcatProperties
<1> QED BY <1>1, <1>2, <1>3, <1>4, <1>5, <1>6, <1>7

\* The return of safe_recv and the next call.
LEMMA ReturnStep ==
  ASSUME Framed, Return
  PROVE  Framed'
<1>1. /\ base' = got /\ separators' = <<>> /\ signal' = "no_data"
      /\ tries' = NumTries /\ UNCHANGED <<ends, got, crossed, ub>>
  BY DEF Return
<1>2. TypeOK'
  <2>1. separators' \in Seq(Objects) /\ NumTries \in 0 .. NumTries
    BY <1>1, ReceiveAssumption
  <2> QED BY <1>1, <2>1, ReturnedSeq DEF Framed, TypeOK
<1>3. got' <= Total'
  BY <1>1 DEF Framed, Total
<1>4. ~crossed => got \in ends \cup {0} /\ ReturnedTo' = got
  <2> DEFINE L == Len(separators)
             N == Len(returned)
  <2>1. returned'[N + L] = separators[L] /\ Len(returned') = N + L
        /\ N \in Nat /\ L \in Nat /\ L > 0
    BY ReturnedSeq
  <2>2. returned' # <<>>
    BY <2>1, ReturnedSeq, EmptySeq
  <2>3. ReturnedTo' = separators[L].to
    BY <2>1, <2>2 DEF ReturnedTo
  <2> QED BY <2>3, ReturnedSeq, StandsAtRecord
<1>5. Len(separators') = 0
  BY <1>1
<1>6. FramingHolds'
  BY <1>1, <1>4, <1>5 DEF FramingHolds
<1>7. ObjectsFollow'
  BY <1>1, <1>4, <1>5 DEF ObjectsFollow
<1> QED BY <1>1, <1>2, <1>3, <1>6, <1>7 DEF Framed

\* A step that only counts a try, or nothing at all.
LEMMA NothingReceived ==
  ASSUME Framed, tries' \in 0 .. NumTries,
         UNCHANGED <<ends, got, base, separators, signal, crossed, ub, returned>>
  PROVE  Framed'
<1>1. TypeOK'
  BY DEF Framed, TypeOK
<1>2. Total' = Total /\ \A o : IsRecord(o)' <=> IsRecord(o)
  BY DEF Total, EndAfter, IsRecord
<1>3. FramingHolds'
  BY <1>2 DEF Framed, FramingHolds
<1>4. ObjectsFollow'
  BY DEF Framed, ObjectsFollow, ReturnedTo
<1> QED BY <1>1, <1>2, <1>3, <1>4 DEF Framed

\* Every step keeps the invariant; framing that is lost stays lost.
LEMMA FramedStep ==
  ASSUME Framed, [Next]_vars
  PROVE  Framed' /\ (crossed => crossed')
<1>1. CASE UNCHANGED vars
  <2>1. tries' \in 0 .. NumTries
    BY <1>1 DEF vars, Framed, TypeOK
  <2> QED BY <1>1, <2>1, NothingReceived DEF vars
<1>2. CASE ReceiveSome
  <2>1. PICK k \in 1 .. Total - got : Receive(k)
    BY <1>2 DEF ReceiveSome
  <2>2. k \in Nat /\ k > 0 /\ got + k <= Total
    BY <2>1, TotalIsLast DEF Framed, TypeOK
  <2>3. CASE signal = "wait"
    BY <2>1, <2>2, <2>3, AddDataStep DEF Receive
  <2>4. CASE signal # "wait"
    <3>1. ParseData(k) /\ got' = got + k /\ UNCHANGED <<ends, base, tries, returned>>
      BY <2>1, <2>4 DEF Receive
    <3>2. Framed'
      BY <2>2, <2>4, <3>1, ParseDataStep
    <3> QED BY <3>1, <3>2 DEF ParseData
  <2> QED BY <2>3, <2>4
<1>3. CASE ReceiveFails
  <2>1. tries' \in 0 .. NumTries
    BY <1>3, ReceiveAssumption DEF ReceiveFails, Framed, TypeOK
  <2> QED BY <1>3, <2>1, NothingReceived DEF ReceiveFails
<1>4. CASE Return
  BY <1>4, ReturnStep DEF Return
<1> QED BY <1>1, <1>2, <1>3, <1>4 DEF Next

----------------------------------------------------------------------------
(* The theorems *)

\* A receiver that has been given no bytes.
LEMMA InitFramed == Init => Framed
<1> SUFFICES ASSUME Init PROVE Framed
  OBVIOUS
<1>1. TypeOK
  <2>1. separators \in Seq(Objects) /\ returned \in Seq(Objects)
    BY DEF Init
  <2>2. tries \in 0 .. NumTries
    BY ReceiveAssumption DEF Init
  <2> QED BY <2>1, <2>2 DEF Init, TypeOK
<1>2. got <= Total
  BY TotalIsLast DEF Init
<1>3. Len(separators) = 0
  BY DEF Init
<1> QED BY <1>1, <1>2, <1>3 DEF Init, Framed, FramingHolds, ObjectsFollow, ReturnedTo

\* In every call of safe_recv the separators and the signal fit the bytes
\* received, however the stream is cut and however often receive fails.
THEOREM ReceiveCorrect == Spec => []Framed
<1>1. Framed /\ [Next]_vars => Framed'
  BY FramedStep
<1> QED BY <1>1, InitFramed, PTL DEF Spec

\* Until a receive completes one object and brings bytes of the next, the
\* objects of a call are whole records laid end to end, all but the last.
THEOREM FramingCorrect == Spec => []FramingHolds
<1>1. Framed => FramingHolds
  BY DEF Framed
<1> QED BY <1>1, ReceiveCorrect, PTL

\* safe_recv implements the record channel: it hands over whole records, in
\* order, none missing and none twice, until such a receive.
THEOREM ReceiveImplementsChannel == Spec => ImplementsChannel
<1>1. Init => Channel!ChannelInit
  BY DEF Init, Channel!ChannelInit
<1>2. ASSUME Framed, [Next]_vars
      PROVE  [Channel!ChannelNext]_(Channel!channelVars)
  <2>1. CASE UNCHANGED vars
    BY <2>1 DEF vars, Channel!channelVars
  <2>2. CASE ReceiveSome \/ ReceiveFails
    <3>1. UNCHANGED <<ends, returned>>
      BY <2>2 DEF ReceiveSome, Receive, ReceiveFails
    <3>2. crossed \in BOOLEAN /\ crossed' \in BOOLEAN /\ (crossed => crossed')
      BY <1>2, FramedStep DEF Framed, TypeOK
    <3> QED BY <3>1, <3>2 DEF Channel!ChannelNext, Channel!Break, Channel!channelVars
  <2>3. CASE Return /\ crossed
    BY <2>3 DEF Return, Channel!ChannelNext, Channel!Lost
  <2>4. CASE Return /\ ~crossed
    <3> DEFINE N == Len(returned)
               L == Len(separators)
    <3>1. /\ separators # <<>> /\ signal = "full"
          /\ returned \in Seq(Objects) /\ returned' \in Seq(Objects)
          /\ N \in Nat /\ L \in Nat /\ L > 0 /\ Len(returned') = N + L
          /\ \A i \in 1 .. N : returned'[i] = returned[i]
          /\ \A i \in 1 .. L : returned'[N + i] = separators[i]
      BY <1>2, <2>4, ReturnedSeq DEF Framed, TypeOK
    <3> HIDE DEF N, L
    <3>2. SubSeq(returned', 1, N) = returned
      <4>1. SubSeq(returned', 1, N) \in Seq(Objects) /\ Len(SubSeq(returned', 1, N)) = N
            /\ \A i \in 1 .. N : SubSeq(returned', 1, N)[i] = returned'[i]
        BY <3>1, SubSeqProperties
      <4> QED BY <3>1, <4>1, SeqEqual DEF N
    <3>3. ASSUME NEW i \in N + 1 .. Len(returned')
          PROVE  /\ Channel!IsRecord(returned'[i])
                 /\ returned'[i].from = Channel!BeginsAt(returned', i)
      <4> DEFINE j == i - N
      <4>1. j \in 1 .. L /\ i = N + j /\ returned'[i] = separators[j]
        <5>1. i \in N + 1 .. N + L
          BY <3>1
        <5>2. j \in 1 .. L /\ i = N + j
          BY <3>1, <5>1
        <5> HIDE DEF j
        <5> QED BY <3>1, <5>2
      <4>2. /\ IsRecord(separators[j])
            /\ separators[j].from = IF j = 1 THEN base ELSE separators[j - 1].to
            /\ base = ReturnedTo
        BY <1>2, <2>4, <3>1, <4>1 DEF Framed, FramingHolds, ObjectsFollow, L
      <4>3. Channel!IsRecord(separators[j])
        BY <1>2, <4>2, TotalIsLast
           DEF IsRecord, EndAfter, Channel!IsRecord, Channel!EndAfter, Framed, TypeOK
      <4>4. CASE j = 1
        <5>1. N = 0 => returned = <<>>
          BY <3>1, EmptySeq DEF N
        <5>2. N # 0 => returned # <<>> /\ returned'[N] = returned[N]
          BY <3>1, EmptySeq DEF N
        <5>3. i = N + 1 /\ (i = 1 <=> N = 0) /\ i - 1 = N
          BY <3>1, <4>1, <4>4
        <5> QED BY <4>1, <4>2, <4>3, <4>4, <5>1, <5>2, <5>3
                DEF ReturnedTo, Channel!BeginsAt, N
      <4>5. CASE j # 1
        <5>1. i # 1 /\ j - 1 \in 1 .. L /\ i - 1 = N + (j - 1)
          BY <3>1, <4>1, <4>5
        <5>2. returned'[i - 1] = separators[j - 1]
          BY <3>1, <5>1
        <5> QED BY <4>1, <4>2, <4>3, <4>5, <5>1, <5>2 DEF Channel!BeginsAt
      <4> QED BY <4>4, <4>5
    <3>4. Len(returned') > Len(returned) /\ UNCHANGED <<ends, crossed>>
      BY <2>4, <3>1 DEF Return, N
    <3>5. Channel!Hand
      BY <2>4, <3>2, <3>3, <3>4 DEF Channel!Hand, N
    <3> QED BY <3>5 DEF Channel!ChannelNext
  <2> QED BY <1>2, <2>1, <2>2, <2>3, <2>4 DEF Next
<1> QED BY <1>1, <1>2, ReceiveCorrect, PTL
        DEF Spec, ImplementsChannel, Channel!ChannelSpec

----------------------------------------------------------------------------
(* Bits of a byte *)

\* A byte is the sum of its bits.
LEMMA SumOfBits ==
  ASSUME NEW b \in Bytes
  PROVE  OrByte(b, b) = b /\ OrByte(0, b) = b
<1>1. PICK b0, b1, b2, b3, b4, b5, b6, b7 \in {0, 1} :
        b = b0 + 2 * b1 + 4 * b2 + 8 * b3 + 16 * b4 + 32 * b5 + 64 * b6 + 128 * b7
  <2>1. b \in Int /\ 0 <= b /\ b < 256
    BY DEF Bytes
  <2> DEFINE q1 == b \div 2
             q2 == q1 \div 2
             q3 == q2 \div 2
             q4 == q3 \div 2
             q5 == q4 \div 2
             q6 == q5 \div 2
             q7 == q6 \div 2
  <2>2. b = 2 * q1 + (b % 2) /\ b % 2 \in {0, 1} /\ q1 \in Int /\ 0 <= q1 /\ q1 < 128
    BY <2>1
  <2> HIDE DEF q1
  <2>3. q1 = 2 * q2 + (q1 % 2) /\ q1 % 2 \in {0, 1} /\ q2 \in Int /\ 0 <= q2 /\ q2 < 64
    BY <2>2
  <2> HIDE DEF q2
  <2>4. q2 = 2 * q3 + (q2 % 2) /\ q2 % 2 \in {0, 1} /\ q3 \in Int /\ 0 <= q3 /\ q3 < 32
    BY <2>3
  <2> HIDE DEF q3
  <2>5. q3 = 2 * q4 + (q3 % 2) /\ q3 % 2 \in {0, 1} /\ q4 \in Int /\ 0 <= q4 /\ q4 < 16
    BY <2>4
  <2> HIDE DEF q4
  <2>6. q4 = 2 * q5 + (q4 % 2) /\ q4 % 2 \in {0, 1} /\ q5 \in Int /\ 0 <= q5 /\ q5 < 8
    BY <2>5
  <2> HIDE DEF q5
  <2>7. q5 = 2 * q6 + (q5 % 2) /\ q5 % 2 \in {0, 1} /\ q6 \in Int /\ 0 <= q6 /\ q6 < 4
    BY <2>6
  <2> HIDE DEF q6
  <2>8. q6 = 2 * q7 + (q6 % 2) /\ q6 % 2 \in {0, 1} /\ q7 \in {0, 1}
    BY <2>7
  <2> HIDE DEF q7
  <2>9. PICK r0, r1, r2, r3, r4, r5, r6 \in {0, 1} :
          /\ b = 2 * q1 + r0 /\ q1 = 2 * q2 + r1 /\ q2 = 2 * q3 + r2
          /\ q3 = 2 * q4 + r3 /\ q4 = 2 * q5 + r4 /\ q5 = 2 * q6 + r5
          /\ q6 = 2 * q7 + r6
    BY <2>2, <2>3, <2>4, <2>5, <2>6, <2>7, <2>8
  <2>10. b = r0 + 2 * r1 + 4 * r2 + 8 * r3 + 16 * r4 + 32 * r5 + 64 * r6 + 128 * q7
    BY <2>2, <2>3, <2>4, <2>5, <2>6, <2>7, <2>8, <2>9
  <2> QED BY <2>8, <2>10
<1>2. /\ (b \div 1) % 2 = b0 /\ (b \div 2) % 2 = b1 /\ (b \div 4) % 2 = b2
      /\ (b \div 8) % 2 = b3
  BY <1>1
<1>3. /\ (b \div 16) % 2 = b4 /\ (b \div 32) % 2 = b5
      /\ (b \div 64) % 2 = b6 /\ (b \div 128) % 2 = b7
  BY <1>1
<1>4. /\ (0 \div 1) % 2 = 0 /\ (0 \div 2) % 2 = 0 /\ (0 \div 4) % 2 = 0
      /\ (0 \div 8) % 2 = 0 /\ (0 \div 16) % 2 = 0 /\ (0 \div 32) % 2 = 0
      /\ (0 \div 64) % 2 = 0 /\ (0 \div 128) % 2 = 0
  OBVIOUS
<1>5. \A a \in {0, b} :
        /\ OrBit(a, b, 1) = b0 /\ OrBit(a, b, 2) = 2 * b1
        /\ OrBit(a, b, 4) = 4 * b2 /\ OrBit(a, b, 8) = 8 * b3
        /\ OrBit(a, b, 16) = 16 * b4 /\ OrBit(a, b, 32) = 32 * b5
        /\ OrBit(a, b, 64) = 64 * b6 /\ OrBit(a, b, 128) = 128 * b7
  BY <1>1, <1>2, <1>3, <1>4 DEF OrBit
<1> QED BY <1>1, <1>5 DEF OrByte

\* The "or" of two numbers is a byte.
LEMMA OrByteType ==
  ASSUME NEW a \in Int, NEW b \in Int
  PROVE  OrByte(a, b) \in Bytes
<1>1. /\ OrBit(a, b, 1) \in {0, 1} /\ OrBit(a, b, 2) \in {0, 2}
      /\ OrBit(a, b, 4) \in {0, 4} /\ OrBit(a, b, 8) \in {0, 8}
      /\ OrBit(a, b, 16) \in {0, 16} /\ OrBit(a, b, 32) \in {0, 32}
      /\ OrBit(a, b, 64) \in {0, 64} /\ OrBit(a, b, 128) \in {0, 128}
  BY DEF OrBit
<1> QED BY <1>1 DEF OrByte, Bytes

----------------------------------------------------------------------------
(* Sequences of bytes *)

\* Sequences of bytes, their length, concatenation and SubSeq, under names
\* of their own: the facts that follow say all that is used of them.
ByteSeqs == Seq(Bytes)

Size(t) == Len(t)

Cat(a, b) == a \o b

Piece(t, i, j) == SubSeq(t, i, j)

\* A byte is a number.
LEMMA ByteIsInt ==
  ASSUME NEW b \in Bytes
  PROVE  b \in Int /\ 0 <= b /\ b < 256
BY DEF Bytes

\* An element of a sequence of bytes is a byte.
LEMMA ByteAt ==
  ASSUME NEW t \in ByteSeqs, NEW i \in 1 .. Size(t)
  PROVE  t[i] \in Bytes
BY ElementOfSeq DEF ByteSeqs, Size

\* Its length is a natural number.
LEMMA LenIsNat ==
  ASSUME NEW t \in ByteSeqs
  PROVE  Size(t) \in Nat
BY DEF ByteSeqs, Size

\* Two bytes.
LEMMA PairOfBytes ==
  ASSUME NEW x \in Bytes, NEW y \in Bytes
  PROVE  /\ <<x, y>> \in ByteSeqs /\ Size(<<x, y>>) = 2
         /\ <<x, y>>[1] = x /\ <<x, y>>[2] = y
BY DEF ByteSeqs, Size

LEMMA FourIsByte == 4 \in Bytes
BY DEF Bytes

LEMMA ZeroIsByte == 0 \in Bytes
BY DEF Bytes

\* What concatenation puts where.
LEMMA Glue ==
  ASSUME NEW a \in ByteSeqs, NEW b \in ByteSeqs
  PROVE  /\ Cat(a, b) \in ByteSeqs /\ Size(Cat(a, b)) = Size(a) + Size(b)
         /\ Size(a) \in Nat /\ Size(b) \in Nat
         /\ \A i \in 1 .. Size(a) : Cat(a, b)[i] = a[i]
         /\ \A i \in Size(a) + 1 .. Size(a) + Size(b) : Cat(a, b)[i] = b[i - Size(a)]
BY DEF ByteSeqs, Size, Cat

\* What SubSeq cuts out.
LEMMA Cut ==
  ASSUME NEW t \in ByteSeqs, NEW i \in Nat, NEW j \in Nat,
         1 <= i, i <= j + 1, j <= Size(t)
  PROVE  /\ Piece(t, i, j) \in ByteSeqs /\ Size(Piece(t, i, j)) = j - i + 1
         /\ \A k \in 1 .. j - i + 1 : Piece(t, i, j)[k] = t[k + i - 1]
BY DEF ByteSeqs, Size, Piece

\* Two sequences with the same bytes are the same.
LEMMA SameSeq ==
  ASSUME NEW a \in ByteSeqs, NEW b \in ByteSeqs, Size(a) = Size(b),
         \A i \in 1 .. Size(a) : a[i] = b[i]
  PROVE  a = b
BY DEF ByteSeqs, Size

\* A piece of the front part stays where it is, and the back part is found
\* behind it.
LEMMA CutGlued ==
  ASSUME NEW a \in ByteSeqs, NEW b \in ByteSeqs
  PROVE  /\ \A i \in 1 .. Size(a), j \in 0 .. Size(a) :
              i <= j + 1 => Piece(Cat(a, b), i, j) = Piece(a, i, j)
         /\ Piece(Cat(a, b), Size(a) + 1, Size(a) + Size(b)) = b
<1> DEFINE c == Cat(a, b)
<1>1. /\ c \in ByteSeqs /\ Size(c) = Size(a) + Size(b)
      /\ Size(a) \in Nat /\ Size(b) \in Nat
      /\ \A i \in 1 .. Size(a) : c[i] = a[i]
      /\ \A i \in Size(a) + 1 .. Size(a) + Size(b) : c[i] = b[i - Size(a)]
  BY Glue
<1> HIDE DEF c
<1>2. ASSUME NEW i \in 1 .. Size(a), NEW j \in 0 .. Size(a), i <= j + 1
      PROVE  Piece(c, i, j) = Piece(a, i, j)
  <2> DEFINE x == Piece(c, i, j)
             y == Piece(a, i, j)
  <2>0. i \in Nat /\ j \in Nat /\ 1 <= i /\ j <= Size(a) /\ j <= Size(c)
    BY <1>1, <1>2
  <2>1. /\ x \in ByteSeqs /\ Size(x) = j - i + 1
        /\ \A k \in 1 .. j - i + 1 : x[k] = c[k + i - 1]
    BY <1>1, <1>2, <2>0, Cut
  <2>2. /\ y \in ByteSeqs /\ Size(y) = j - i + 1
        /\ \A k \in 1 .. j - i + 1 : y[k] = a[k + i - 1]
    BY <1>1, <1>2, <2>0, Cut
  <2>3. \A k \in 1 .. j - i + 1 : k + i - 1 \in 1 .. Size(a)
    BY <1>1, <1>2
  <2> HIDE DEF x, y
  <2>4. \A k \in 1 .. Size(x) : x[k] = y[k]
    BY <1>1, <2>1, <2>2, <2>3
  <2>5. x = y
    BY <2>1, <2>2, <2>4, SameSeq
  <2> QED BY <2>5 DEF x, y
<1>3. Piece(c, Size(a) + 1, Size(a) + Size(b)) = b
  <2> DEFINE x == Piece(c, Size(a) + 1, Size(a) + Size(b))
             n == Size(a)
             m == Size(b)
  <2>0. n \in Nat /\ m \in Nat /\ n + 1 \in Nat /\ n + m \in Nat /\ 1 <= n + 1
        /\ n + 1 <= (n + m) + 1 /\ n + m <= Size(c)
    BY <1>1
  <2> HIDE DEF n, m
  <2>1. /\ x \in ByteSeqs /\ Size(x) = (n + m) - (n + 1) + 1
        /\ \A k \in 1 .. (n + m) - (n + 1) + 1 : x[k] = c[k + (n + 1) - 1]
    BY <1>1, <2>0, Cut DEF n, m
  <2> HIDE DEF x
  <2>2. Size(x) = m /\ \A k \in 1 .. m : x[k] = c[k + n]
    BY <2>0, <2>1
  <2>3. \A k \in 1 .. m : k + n \in n + 1 .. n + m /\ (k + n) - n = k
    BY <2>0
  <2>4. \A i \in n + 1 .. n + m : c[i] = b[i - n]
    BY <1>1 DEF n, m
  <2>5. \A k \in 1 .. m : x[k] = b[k]
    BY <2>2, <2>3, <2>4
  <2>6. x = b
    BY <2>1, <2>2, <2>5, SameSeq DEF m
  <2> QED BY <2>6 DEF x
<1> QED BY <1>2, <1>3 DEF c

\* The same for one piece, with its place given by numbers.
LEMMA Kept ==
  ASSUME NEW a \in ByteSeqs, NEW b \in ByteSeqs, NEW i \in Nat, NEW j \in Nat,
         1 <= i, i <= j, j <= Size(a)
  PROVE  /\ Piece(Cat(a, b), i, j) = Piece(a, i, j)
         /\ Cat(a, b)[i] = a[i]
<1>1. Size(a) \in Nat
  BY LenIsNat
<1>2. i \in 1 .. Size(a) /\ j \in 0 .. Size(a) /\ i <= j + 1
  BY <1>1
<1>3. Piece(Cat(a, b), i, j) = Piece(a, i, j)
  BY <1>2, CutGlued
<1>4. Cat(a, b)[i] = a[i]
  BY <1>2, Glue
<1> QED BY <1>3, <1>4

LEMMA Behind ==
  ASSUME NEW a \in ByteSeqs, NEW b \in ByteSeqs, NEW i, NEW j,
         i = Size(a) + 1, j = Size(a) + Size(b)
  PROVE  Piece(Cat(a, b), i, j) = b
BY CutGlued

\* The k-th byte of the back part.
LEMMA Then ==
  ASSUME NEW a \in ByteSeqs, NEW b \in ByteSeqs, NEW k \in 1 .. Size(b),
         NEW i, i = Size(a) + k
  PROVE  Cat(a, b)[i] = b[k]
<1>1. Size(a) \in Nat /\ Size(b) \in Nat
  BY LenIsNat
<1>2. i \in Size(a) + 1 .. Size(a) + Size(b) /\ i - Size(a) = k
  BY <1>1
<1>3. \A j \in Size(a) + 1 .. Size(a) + Size(b) : Cat(a, b)[j] = b[j - Size(a)]
  BY Glue, Zenon
<1> QED BY <1>2, <1>3

\* The size of a piece and its bytes, with their places given by numbers.
LEMMA CutSize ==
  ASSUME NEW t \in ByteSeqs, NEW i \in Nat, NEW j \in Nat, NEW n,
         1 <= i, i <= j + 1, j <= Size(t), n = j - i + 1
  PROVE  Piece(t, i, j) \in ByteSeqs /\ Size(Piece(t, i, j)) = n
BY Cut

LEMMA CutAt ==
  ASSUME NEW t \in ByteSeqs, NEW i \in Nat, NEW j \in Nat, NEW k \in Nat, NEW l,
         1 <= i, j <= Size(t), 1 <= k, l = k + i - 1, l <= j
  PROVE  Piece(t, i, j)[k] = t[l]
<1>1. \A q \in 1 .. j - i + 1 : Piece(t, i, j)[q] = t[q + i - 1]
  <2>1. i <= j + 1
    OBVIOUS
  <2> QED BY <2>1, Cut, Zenon
<1>2. k \in 1 .. j - i + 1
  OBVIOUS
<1> QED BY <1>1, <1>2

\* The bytes of the front part.
LEMMA First ==
  ASSUME NEW a \in ByteSeqs, NEW b \in ByteSeqs
  PROVE  \A k \in 1 .. Size(a) : Cat(a, b)[k] = a[k]
BY Glue, Zenon

----------------------------------------------------------------------------
(* QTunnelData *)

\* The constructor of QTunnelData finds what generate_object_bytes wrote, if
\* the protocol data state their own length.
LEMMA ParseBack ==
  ASSUME NEW proto \in Bytes,
         NEW src \in ByteSeqs, Size(src) = 4,
         NEW sport \in ByteSeqs, Size(sport) = 2,
         NEW dst \in ByteSeqs, Size(dst) = 4,
         NEW dport \in ByteSeqs, Size(dport) = 2,
         NEW pd \in ByteSeqs, Size(pd) >= 2, Size(pd) = 2 + Number(pd),
         NEW payload \in ByteSeqs
  PROVE  ParseTunnelData(TunnelData(proto, src, sport, dst, dport, pd, payload))
           = [net |-> 4, proto |-> proto, src |-> src, sport |-> sport,
              dst |-> dst, dport |-> dport, pd |-> pd, payload |-> payload]
<1> DEFINE p1 == <<4, proto>>
           p2 == Cat(p1, src)
           p3 == Cat(p2, sport)
           p4 == Cat(p3, dst)
           p5 == Cat(p4, dport)
           p6 == Cat(p5, pd)
           d == Cat(p6, payload)
           n == Size(pd)
           m == Size(payload)
<1>0. n \in Nat /\ m \in Nat /\ n >= 2 /\ n = Size(pd) /\ m = Size(payload)
  BY LenIsNat
<1> HIDE DEF n, m
<1>1. p1 \in ByteSeqs /\ Size(p1) = 2 /\ p1[1] = 4 /\ p1[2] = proto
  BY PairOfBytes, FourIsByte
<1>25. TunnelData(proto, src, sport, dst, dport, pd, payload) = d
  BY Zenon DEF TunnelData, Cat
<1> HIDE DEF p1
<1>2. p2 \in ByteSeqs /\ Size(p2) = 6
  BY <1>1, Glue
<1>3. p2[1] = 4 /\ p2[2] = proto
  BY <1>1, Kept
<1>4. Piece(p2, 3, 6) = src
  BY <1>1, Behind
<1> HIDE DEF p2
<1>5. p3 \in ByteSeqs /\ Size(p3) = 8
  BY <1>2, Glue
<1>6. p3[1] = 4 /\ p3[2] = proto /\ Piece(p3, 3, 6) = src
  BY <1>2, <1>3, <1>4, Kept
<1>7. Piece(p3, 7, 8) = sport
  BY <1>2, Behind
<1> HIDE DEF p3
<1>8. p4 \in ByteSeqs /\ Size(p4) = 12
  BY <1>5, Glue
<1>9. /\ p4[1] = 4 /\ p4[2] = proto /\ Piece(p4, 3, 6) = src
      /\ Piece(p4, 7, 8) = sport
  BY <1>5, <1>6, <1>7, Kept
<1>10. Piece(p4, 9, 12) = dst
  BY <1>5, Behind
<1> HIDE DEF p4
<1>11. p5 \in ByteSeqs /\ Size(p5) = 14
  BY <1>8, Glue
<1>12. /\ p5[1] = 4 /\ p5[2] = proto /\ Piece(p5, 3, 6) = src
       /\ Piece(p5, 7, 8) = sport /\ Piece(p5, 9, 12) = dst
  BY <1>8, <1>9, <1>10, Kept
<1>13. Piece(p5, 13, 14) = dport
  BY <1>8, Behind
<1> HIDE DEF p5
<1>14. p6 \in ByteSeqs /\ Size(p6) = 14 + n
  BY <1>0, <1>11, Glue
<1>15. /\ p6[1] = 4 /\ p6[2] = proto /\ Piece(p6, 3, 6) = src
       /\ Piece(p6, 7, 8) = sport /\ Piece(p6, 9, 12) = dst
       /\ Piece(p6, 13, 14) = dport
  BY <1>11, <1>12, <1>13, Kept
<1>16. Piece(p6, 15, 14 + n) = pd
  BY <1>0, <1>11, Behind
<1>17. p6[15] = pd[1] /\ p6[16] = pd[2]
  <2>1. 1 \in 1 .. Size(pd) /\ 2 \in 1 .. Size(pd)
    BY <1>0
  <2> QED BY <1>11, <2>1, Then
<1> HIDE DEF p6
<1>18. d \in ByteSeqs /\ Size(d) = (14 + n) + m
  BY <1>0, <1>14, Glue
<1>19. /\ d[1] = 4 /\ d[2] = proto /\ Piece(d, 3, 6) = src
       /\ Piece(d, 7, 8) = sport /\ Piece(d, 9, 12) = dst
       /\ Piece(d, 13, 14) = dport
  <2>1. 6 <= 14 + n /\ 8 <= 14 + n /\ 12 <= 14 + n /\ 14 <= 14 + n
        /\ 1 <= 14 + n /\ 2 <= 14 + n
    BY <1>0
  <2> QED BY <1>14, <1>15, <2>1, Kept
<1>20. Piece(d, 15, 14 + n) = pd /\ d[15] = pd[1] /\ d[16] = pd[2]
  <2>1. 15 <= 14 + n /\ 16 <= 14 + n /\ 14 + n \in Nat
    BY <1>0
  <2> QED BY <1>14, <1>16, <1>17, <2>1, Kept
<1>21. Piece(d, (14 + n) + 1, (14 + n) + m) = payload
  BY <1>0, <1>14, Behind
<1> HIDE DEF d
<1>22. Number(Piece(d, 15, 16)) = n - 2
  <2>1. 16 <= Size(d)
    BY <1>0, <1>18
  <2>2. \A k \in 1 .. 16 - 15 + 1 : Piece(d, 15, 16)[k] = d[k + 15 - 1]
    BY <1>18, <2>1, Cut
  <2>3. Piece(d, 15, 16)[1] = d[15] /\ Piece(d, 15, 16)[2] = d[16]
    BY <2>2
  <2>4. Number(Piece(d, 15, 16)) = Number(pd)
    BY <1>20, <2>3 DEF Number
  <2>5. Number(pd) \in Int
    <3>1. 1 \in 1 .. Size(pd) /\ 2 \in 1 .. Size(pd)
      BY <1>0
    <3>2. pd[1] \in Bytes /\ pd[2] \in Bytes
      BY <3>1, ByteAt
    <3>3. pd[1] \in Int /\ pd[2] \in Int
      BY <3>2, ByteIsInt
    <3> QED BY <3>3 DEF Number
  <2> QED BY <1>0, <2>4, <2>5
<1>23. 16 + (n - 2) = 14 + n /\ 17 + (n - 2) = (14 + n) + 1
  BY <1>0
<1>24. Piece(d, 15, 16 + (n - 2)) = pd
       /\ Piece(d, 17 + (n - 2), Size(d)) = payload
  BY <1>18, <1>20, <1>21, <1>23
<1> QED BY <1>25, <1>19, <1>22, <1>24 DEF ParseTunnelData, Piece, Size

----------------------------------------------------------------------------
(* Protocol data of TCP *)

\* The two bytes of a number below 65536 make that number.
LEMMA TwoBytesOf ==
  ASSUME NEW n \in Nat, n < 65536
  PROVE  /\ TwoBytes(n) \in ByteSeqs /\ Size(TwoBytes(n)) = 2
         /\ TwoBytes(n)[1] = n \div 256 /\ TwoBytes(n)[2] = n % 256
         /\ 256 * (n \div 256) + (n % 256) = n
<1> DEFINE x == (n \div 256) % 256
           y == n % 256
<1>1. x \in Bytes /\ y \in Bytes /\ x = n \div 256 /\ 256 * (n \div 256) + y = n
  BY DEF Bytes
<1>2. TwoBytes(n) = <<x, y>>
  BY DEF TwoBytes
<1> HIDE DEF x, y
<1>3. /\ <<x, y>> \in ByteSeqs /\ Size(<<x, y>>) = 2
      /\ <<x, y>>[1] = x /\ <<x, y>>[2] = y
  BY <1>1, PairOfBytes
<1>4. TwoBytes(n) \in ByteSeqs /\ Size(TwoBytes(n)) = 2
  BY <1>2, <1>3
<1>5. TwoBytes(n)[1] = x /\ TwoBytes(n)[2] = y
  BY <1>2, <1>3
<1> QED BY <1>1, <1>4, <1>5 DEF x, y

\* One byte.
LEMMA OneByte ==
  ASSUME NEW x \in Bytes
  PROVE  <<x>> \in ByteSeqs /\ Size(<<x>>) = 1 /\ <<x>>[1] = x
BY DEF ByteSeqs, Size

\* The bytes of a TCP header that the views read.
LEMMA HeaderBytes ==
  ASSUME NEW t \in ByteSeqs, HeaderLength(t) \in 20 .. Size(t)
  PROVE  /\ \A i \in 1 .. 20 : t[i] \in Bytes
         /\ TcpFlags(t) \in Bytes /\ t[13] \div 16 \in 0 .. 15
         /\ HeaderLength(t) = 4 * (t[13] \div 16) /\ HeaderLength(t) \in Nat
         /\ HeaderLength(t) >= 20 /\ HeaderLength(t) <= 60
         /\ t[13] % 16 = 0 => t[13] = 16 * (t[13] \div 16) /\ TcpFlags(t) = t[14]
<1>0. Size(t) \in Nat
  BY LenIsNat
<1>1. \A i \in 1 .. 20 : t[i] \in Bytes
  <2>1. \A i \in 1 .. 20 : i \in 1 .. Size(t)
    BY <1>0
  <2> QED BY <2>1, ByteAt
<1>2. PICK b \in Bytes : b = t[13]
  BY <1>1
<1>3. PICK c \in Bytes : c = t[14]
  BY <1>1
<1>4. b \in Int /\ 0 <= b /\ b < 256 /\ c \in Int
  BY ByteIsInt
<1>5. b \div 16 \in 0 .. 15 /\ b % 2 \in {0, 1}
  BY <1>4
<1>6. TcpFlags(t) = OrByte(2 * (b % 2), c)
  BY <1>2, <1>3 DEF TcpFlags
<1>7. TcpFlags(t) \in Bytes
  BY <1>4, <1>5, <1>6, OrByteType
<1>8. HeaderLength(t) = 4 * (b \div 16)
  BY <1>2 DEF HeaderLength
<1>9. ASSUME b % 16 = 0
      PROVE  b = 16 * (b \div 16) /\ TcpFlags(t) = c
  <2>1. b = 16 * (b \div 16) /\ b % 2 = 0
    BY <1>4, <1>9
  <2>2. OrByte(0, c) = c
    BY SumOfBits
  <2> QED BY <1>6, <2>1, <2>2
<1>10. HeaderLength(t) \in Nat /\ HeaderLength(t) >= 20 /\ HeaderLength(t) <= 60
  BY <1>0, <1>5, <1>8
<1> QED BY <1>1, <1>2, <1>3, <1>5, <1>7, <1>8, <1>9, <1>10

\* QTunnelTCPViewScheme::generate_object_bytes, byte by byte.
LEMMA TcpDataBytes ==
  ASSUME NEW t \in ByteSeqs, HeaderLength(t) \in 20 .. Size(t)
  PROVE  /\ TcpProtoData(t) \in ByteSeqs
         /\ Size(TcpProtoData(t)) = HeaderLength(t) - 3
         /\ Size(TcpProtoData(t)) = 2 + Number(TcpProtoData(t))
         /\ \A k \in 3 .. 10 : TcpProtoData(t)[k] = t[k + 2]
         /\ TcpProtoData(t)[11] = 0 /\ TcpProtoData(t)[12] = TcpFlags(t)
         /\ TcpProtoData(t)[13] = t[13] \div 16
         /\ TcpProtoData(t)[14] = t[15] /\ TcpProtoData(t)[15] = t[16]
         /\ TcpProtoData(t)[16] = t[19] /\ TcpProtoData(t)[17] = t[20]
         /\ \A k \in 18 .. HeaderLength(t) - 3 : TcpProtoData(t)[k] = t[k + 3]
<1>1. PICK H : H = HeaderLength(t)
  OBVIOUS
<1>2. PICK F : F = TcpFlags(t)
  OBVIOUS
<1>3. PICK o : o = t[13] \div 16
  OBVIOUS
<1>4. PICK N : N = Size(t)
  OBVIOUS
<1>5. /\ H \in Nat /\ 20 <= H /\ H <= 60 /\ N \in Nat /\ H <= N
      /\ F \in Bytes /\ o \in Bytes
  BY <1>1, <1>2, <1>3, <1>4, HeaderBytes, LenIsNat DEF Bytes
<1> DEFINE c1 == Piece(t, 5, 12)
           c2 == TwoBytes(F)
           c3 == <<o>>
           c4 == Piece(t, 15, 16)
           c5 == Piece(t, 19, 20)
           c6 == Piece(t, 21, H)
           b2 == Cat(c1, c2)
           b3 == Cat(b2, c3)
           b4 == Cat(b3, c4)
           b5 == Cat(b4, c5)
           body == Cat(b5, c6)
           c0 == TwoBytes(Size(body))
           pd == Cat(c0, body)
<1>6. TcpProtoData(t) = pd
  BY <1>1, <1>2, <1>3, Zenon DEF TcpProtoData, Cat, Piece, Size
<1>7. /\ c1 \in ByteSeqs /\ Size(c1) = 8
      /\ \A k \in 1 .. 8 : c1[k] = t[k + 4]
  <2>1. 12 <= Size(t)
    BY <1>4, <1>5
  <2>2. c1 \in ByteSeqs /\ Size(c1) = 8
    BY <2>1, CutSize
  <2>3. ASSUME NEW k \in 1 .. 8 PROVE c1[k] = t[k + 4]
    <3>1. k \in Nat /\ 1 <= k /\ k + 4 = k + 5 - 1 /\ k + 4 <= 12
      OBVIOUS
    <3> QED BY <2>1, <3>1, CutAt
  <2> QED BY <2>2, <2>3
<1>8. c2 \in ByteSeqs /\ Size(c2) = 2 /\ c2[1] = 0 /\ c2[2] = F
  <2>1. F \in Nat /\ F < 256
    BY <1>5, ByteIsInt
  <2>2. F \div 256 = 0 /\ F % 256 = F
    BY <2>1
  <2> QED BY <2>1, <2>2, TwoBytesOf
<1>9. c3 \in ByteSeqs /\ Size(c3) = 1 /\ c3[1] = o
  BY <1>5, OneByte
<1>10. c4 \in ByteSeqs /\ Size(c4) = 2 /\ c4[1] = t[15] /\ c4[2] = t[16]
  <2>1. 16 <= Size(t)
    BY <1>4, <1>5
  <2>2. c4 \in ByteSeqs /\ Size(c4) = 2
    BY <2>1, CutSize
  <2>3. c4[1] = t[15]
    BY <2>1, CutAt
  <2>4. c4[2] = t[16]
    BY <2>1, CutAt
  <2> QED BY <2>2, <2>3, <2>4
<1>11. c5 \in ByteSeqs /\ Size(c5) = 2 /\ c5[1] = t[19] /\ c5[2] = t[20]
  <2>1. 20 <= Size(t)
    BY <1>4, <1>5
  <2>2. c5 \in ByteSeqs /\ Size(c5) = 2
    BY <2>1, CutSize
  <2>3. c5[1] = t[19]
    BY <2>1, CutAt
  <2>4. c5[2] = t[20]
    BY <2>1, CutAt
  <2> QED BY <2>2, <2>3, <2>4
<1>12. /\ c6 \in ByteSeqs /\ Size(c6) = H - 20
       /\ \A k \in 1 .. H - 20 : c6[k] = t[k + 20]
  <2>1. H <= Size(t) /\ 21 <= H + 1 /\ H - 20 = H - 21 + 1
    BY <1>4, <1>5
  <2>2. c6 \in ByteSeqs /\ Size(c6) = H - 20
    BY <1>5, <2>1, CutSize
  <2>3. ASSUME NEW k \in 1 .. H - 20 PROVE c6[k] = t[k + 20]
    <3>1. k \in Nat /\ 1 <= k /\ k + 20 = k + 21 - 1 /\ k + 20 <= H
      BY <1>5
    <3> QED BY <1>5, <2>1, <3>1, CutAt
  <2> QED BY <2>2, <2>3
<1> HIDE DEF c1, c2, c3, c4, c5, c6
<1>13. /\ b2 \in ByteSeqs /\ Size(b2) = 10
       /\ (\A k \in 1 .. 8 : b2[k] = t[k + 4]) /\ b2[9] = 0 /\ b2[10] = F
  <2>1. b2 \in ByteSeqs /\ Size(b2) = 10
    BY <1>7, <1>8, Glue
  <2>4. \A k \in 1 .. Size(c1) : b2[k] = c1[k]
    BY <1>7, <1>8, First
  <2>2. b2[9] = 0 /\ b2[10] = F
    BY <1>7, <1>8, Then
  <2> QED BY <1>7, <2>1, <2>2, <2>4
<1> HIDE DEF b2
<1>14. /\ b3 \in ByteSeqs /\ Size(b3) = 11
       /\ (\A k \in 1 .. 8 : b3[k] = t[k + 4]) /\ b3[9] = 0 /\ b3[10] = F
       /\ b3[11] = o
  <2>1. b3 \in ByteSeqs /\ Size(b3) = 11
    BY <1>9, <1>13, Glue
  <2>4. \A k \in 1 .. Size(b2) : b3[k] = b2[k]
    BY <1>9, <1>13, First
  <2>2. b3[11] = o
    BY <1>9, <1>13, Then
  <2> HIDE DEF b3
  <2> QED BY <1>13, <2>1, <2>2, <2>4
<1> HIDE DEF b3
<1>15. /\ b4 \in ByteSeqs /\ Size(b4) = 13
       /\ (\A k \in 1 .. 8 : b4[k] = t[k + 4]) /\ b4[9] = 0 /\ b4[10] = F
       /\ b4[11] = o /\ b4[12] = t[15] /\ b4[13] = t[16]
  <2>1. b4 \in ByteSeqs /\ Size(b4) = 13
    BY <1>10, <1>14, Glue
  <2>4. \A k \in 1 .. Size(b3) : b4[k] = b3[k]
    BY <1>10, <1>14, First
  <2>2. b4[12] = t[15] /\ b4[13] = t[16]
    BY <1>10, <1>14, Then
  <2> HIDE DEF b4
  <2> QED BY <1>14, <2>1, <2>2, <2>4
<1> HIDE DEF b4
<1>16. /\ b5 \in ByteSeqs /\ Size(b5) = 15
       /\ (\A k \in 1 .. 8 : b5[k] = t[k + 4]) /\ b5[9] = 0 /\ b5[10] = F
       /\ b5[11] = o /\ b5[12] = t[15] /\ b5[13] = t[16]
       /\ b5[14] = t[19] /\ b5[15] = t[20]
  <2>1. b5 \in ByteSeqs /\ Size(b5) = 15
    BY <1>11, <1>15, Glue
  <2>4. \A k \in 1 .. Size(b4) : b5[k] = b4[k]
    BY <1>11, <1>15, First
  <2>2. b5[14] = t[19] /\ b5[15] = t[20]
    BY <1>11, <1>15, Then
  <2> HIDE DEF b5
  <2> QED BY <1>15, <2>1, <2>2, <2>4
<1> HIDE DEF b5
<1>17. /\ body \in ByteSeqs /\ Size(body) = H - 5
       /\ \A k \in 1 .. 15 : body[k] = b5[k]
       /\ \A k \in 1 .. H - 20 : body[15 + k] = t[k + 20]
  <2>1. body \in ByteSeqs /\ Size(body) = 15 + (H - 20)
    BY <1>12, <1>16, Glue
  <2>4. \A k \in 1 .. Size(b5) : body[k] = b5[k]
    BY <1>12, <1>16, First
  <2>2. \A k \in 1 .. H - 20 : body[15 + k] = c6[k]
    BY <1>12, <1>16, Then
  <2>3. 15 + (H - 20) = H - 5
    BY <1>5
  <2> HIDE DEF body
  <2> QED BY <1>12, <1>16, <2>1, <2>2, <2>3, <2>4
<1> HIDE DEF body
<1>18. /\ c0 \in ByteSeqs /\ Size(c0) = 2
       /\ 256 * c0[1] + c0[2] = H - 5
  <2>1. H - 5 \in Nat /\ H - 5 < 65536
    BY <1>5
  <2> QED BY <1>17, <2>1, TwoBytesOf
<1> HIDE DEF c0
<1>19. /\ pd \in ByteSeqs /\ Size(pd) = H - 3
       /\ pd[1] = c0[1] /\ pd[2] = c0[2]
       /\ \A k \in 1 .. H - 5 : pd[2 + k] = body[k]
  <2>1. pd \in ByteSeqs /\ Size(pd) = 2 + (H - 5)
    BY <1>17, <1>18, Glue
  <2>4. \A k \in 1 .. Size(c0) : pd[k] = c0[k]
    BY <1>17, <1>18, First
  <2>2. \A k \in 1 .. H - 5 : pd[2 + k] = body[k]
    BY <1>17, <1>18, Then
  <2>3. 2 + (H - 5) = H - 3
    BY <1>5
  <2> HIDE DEF pd
  <2> QED BY <1>18, <2>1, <2>2, <2>3, <2>4
<1> HIDE DEF pd
<1>20. Size(pd) = 2 + Number(pd)
  <2>1. Number(pd) = H - 5
    BY <1>18, <1>19 DEF Number
  <2> QED BY <1>5, <1>19, <2>1
<1>21. \A k \in 1 .. 15 : pd[2 + k] = b5[k]
  <2>1. \A k \in 1 .. 15 : k \in 1 .. H - 5
    BY <1>5
  <2> QED BY <1>17, <1>19, <2>1
<1>22. \A k \in 3 .. 10 : pd[k] = t[k + 2]
  <2> TAKE k \in 3 .. 10
  <2>1. k - 2 \in 1 .. 8 /\ k - 2 \in 1 .. 15 /\ 2 + (k - 2) = k /\ (k - 2) + 4 = k + 2
    OBVIOUS
  <2>2. pd[2 + (k - 2)] = b5[k - 2] /\ b5[k - 2] = t[(k - 2) + 4]
    BY <1>16, <1>21, <2>1
  <2> QED BY <2>1, <2>2
<1>23. /\ pd[11] = 0 /\ pd[12] = F /\ pd[13] = o /\ pd[14] = t[15] /\ pd[15] = t[16]
       /\ pd[16] = t[19] /\ pd[17] = t[20]
  BY <1>16, <1>21
<1>24. \A k \in 18 .. H - 3 : pd[k] = t[k + 3]
  <2> TAKE k \in 18 .. H - 3
  <2>1. k - 17 \in 1 .. H - 20 /\ k - 2 \in 1 .. H - 5 /\ 2 + (k - 2) = k
        /\ 15 + (k - 17) = k - 2 /\ (k - 17) + 20 = k + 3
    BY <1>5
  <2>2. pd[2 + (k - 2)] = body[k - 2]
    BY <1>19, <2>1
  <2>3. body[15 + (k - 17)] = t[(k - 17) + 20]
    BY <1>17, <2>1
  <2> QED BY <2>1, <2>2, <2>3
<1> QED BY <1>1, <1>2, <1>3, <1>6, <1>19, <1>20, <1>22, <1>23, <1>24

----------------------------------------------------------------------------
(* TCP headers made from protocol data *)

\* A piece of two bytes.
LEMMA CutTwo ==
  ASSUME NEW t \in ByteSeqs, NEW i \in Nat, NEW j, NEW k,
         1 <= i, j = i + 1, j <= Size(t), k = 2
  PROVE  /\ Piece(t, i, j) \in ByteSeqs /\ Size(Piece(t, i, j)) = k
         /\ Piece(t, i, j)[1] = t[i] /\ Piece(t, i, j)[2] = t[j]
<1>1. j \in Nat
  OBVIOUS
<1>2. Piece(t, i, j) \in ByteSeqs /\ Size(Piece(t, i, j)) = k
  BY <1>1, CutSize
<1>3. Piece(t, i, j)[1] = t[i]
  BY <1>1, CutAt
<1>4. Piece(t, i, j)[2] = t[j]
  BY <1>1, CutAt
<1> QED BY <1>2, <1>3, <1>4

\* Read returns the bytes that are there.
LEMMA ReadBytes ==
  ASSUME NEW pd \in ByteSeqs, Size(pd) >= 17, NEW j
  PROVE  /\ Read(pd, 17, j) \in ByteSeqs /\ Size(Read(pd, 17, j)) = 17
         /\ \A k \in 1 .. 17 : Read(pd, 17, j)[k] = pd[k]
<1>1. Len(pd) \in Nat /\ Len(pd) >= 17
  BY LenIsNat DEF Size
<1>2. \A k \in 1 .. 17 : Read(pd, 17, j)[k] = pd[k] /\ pd[k] \in Bytes
  <2>1. \A k \in 1 .. 17 : k <= Len(pd) /\ k \in 1 .. Len(pd)
    BY <1>1
  <2>2. \A k \in 1 .. 17 : pd[k] \in Bytes
    BY <2>1, ByteAt DEF Size
  <2>3. \A k \in 1 .. 17 : Read(pd, 17, j)[k] = pd[k]
    BY <2>1 DEF Read
  <2> QED BY <2>2, <2>3
<1>3. DOMAIN Read(pd, 17, j) = 1 .. 17 /\ Read(pd, 17, j) \in [1 .. 17 -> Bytes]
  <2> DEFINE r == Read(pd, 17, j)
  <2>1. r = [k \in 1 .. 17 |-> r[k]]
    BY DEF Read
  <2> HIDE DEF r
  <2>2. r \in [1 .. 17 -> Bytes] /\ DOMAIN r = 1 .. 17
    BY <1>2, <2>1 DEF r
  <2> QED BY <2>2 DEF r
<1>4. Read(pd, 17, j) \in Seq(Bytes) /\ Len(Read(pd, 17, j)) = 17
  <2> DEFINE r == Read(pd, 17, j)
  <2>1. r \in [1 .. 17 -> Bytes] /\ DOMAIN r = 1 .. 17
    BY <1>3
  <2> HIDE DEF r
  <2>2. r \in Seq(Bytes)
    BY <2>1, SeqDef, 17 \in Nat
  <2>3. Len(r) = 17
    BY <2>1, <2>2, LenProperties
  <2> QED BY <2>2, <2>3 DEF r
<1> QED BY <1>2, <1>4 DEF ByteSeqs, Size

\* TcpPacketLittleEndian::generate_object_bytes, byte by byte, from protocol
\* data of at least the fixed size.
LEMMA TcpHeaderBytes ==
  ASSUME NEW sport \in ByteSeqs, Size(sport) = 2,
         NEW dport \in ByteSeqs, Size(dport) = 2,
         NEW pd \in ByteSeqs, Size(pd) >= 17, NEW j,
         NEW h, h = TcpHeader(sport, dport, pd, j)
  PROVE  /\ h \in ByteSeqs /\ Size(h) = Size(pd) + 3
         /\ h[1] = sport[1] /\ h[2] = sport[2]
         /\ h[3] = dport[1] /\ h[4] = dport[2]
         /\ \A k \in 5 .. 12 : h[k] = pd[k - 2]
         /\ h[13] = (16 * pd[13] + (pd[11] % 2)) % 256 /\ h[14] = pd[12]
         /\ h[15] = pd[14] /\ h[16] = pd[15] /\ h[17] = 0 /\ h[18] = 0
         /\ h[19] = pd[16] /\ h[20] = pd[17]
         /\ \A k \in 21 .. Size(pd) + 3 : h[k] = pd[k - 3]
<1>1. PICK s : s = Read(pd, 17, j)
  OBVIOUS
<1>2. s \in ByteSeqs /\ Size(s) = 17 /\ \A k \in 1 .. 17 : s[k] = pd[k]
  BY <1>1, ReadBytes
<1>3. PICK N : N = Size(pd)
  OBVIOUS
<1>4. N \in Nat /\ 17 <= N
  BY <1>3, LenIsNat
<1>5. PICK x : x = (16 * s[13] + (s[11] % 2)) % 256
  OBVIOUS
<1>6. x \in Bytes /\ s[12] \in Bytes
  <2>1. s[11] \in Bytes /\ s[12] \in Bytes /\ s[13] \in Bytes
    BY <1>2, ByteAt
  <2>2. s[11] \in Int /\ s[13] \in Int
    BY <2>1, ByteIsInt
  <2>3. s[11] % 2 \in Int
    BY <2>2
  <2>4. 16 * s[13] + (s[11] % 2) \in Int
    BY <2>2, <2>3
  <2>5. x \in 0 .. 255
    BY <1>5, <2>4
  <2> QED BY <2>1, <2>5 DEF Bytes
<1> DEFINE e1 == Piece(s, 3, 10)
           e2 == <<x, s[12]>>
           e3 == Piece(s, 14, 15)
           e4 == <<0, 0>>
           e5 == Piece(s, 16, 17)
           e6 == Piece(pd, 18, Size(pd))
           h2 == Cat(sport, dport)
           h3 == Cat(h2, e1)
           h4 == Cat(h3, e2)
           h5 == Cat(h4, e3)
           h6 == Cat(h5, e4)
           h7 == Cat(h6, e5)
<1>7. h = Cat(h7, e6)
  <2>1. TcpHeader(sport, dport, pd, j)
          = sport \o dport \o SubSeq(s, 3, 10) \o <<x, s[12]>>
              \o SubSeq(s, 14, 15) \o <<0, 0>> \o SubSeq(s, 16, 17)
              \o SubSeq(pd, 18, Len(pd))
    BY <1>1, <1>5, Zenon DEF TcpHeader
  <2> QED BY <2>1, Zenon DEF Cat, Piece, Size
<1>8. e1 \in ByteSeqs /\ Size(e1) = 8 /\ \A k \in 1 .. 8 : e1[k] = pd[k + 2]
  <2>1. e1 \in ByteSeqs /\ Size(e1) = 8
    BY <1>2, CutSize
  <2>2. ASSUME NEW k \in 1 .. 8 PROVE e1[k] = pd[k + 2]
    <3>1. k \in Nat /\ 1 <= k /\ k + 2 = k + 3 - 1 /\ k + 2 <= 10 /\ k + 2 \in 1 .. 17
      OBVIOUS
    <3>2. e1[k] = s[k + 2]
      <4>1. s \in ByteSeqs /\ 10 <= Size(s)
        BY <1>2
      <4> QED BY <3>1, <4>1, CutAt
    <3> QED BY <1>2, <3>1, <3>2
  <2> QED BY <2>1, <2>2
<1>9. e2 \in ByteSeqs /\ Size(e2) = 2 /\ e2[1] = x /\ e2[2] = pd[12]
  BY <1>2, <1>6, PairOfBytes
<1>10. e3 \in ByteSeqs /\ Size(e3) = 2 /\ e3[1] = pd[14] /\ e3[2] = pd[15]
  BY <1>2, CutTwo
<1>11. e4 \in ByteSeqs /\ Size(e4) = 2 /\ e4[1] = 0 /\ e4[2] = 0
  BY PairOfBytes, ZeroIsByte
<1>12. e5 \in ByteSeqs /\ Size(e5) = 2 /\ e5[1] = pd[16] /\ e5[2] = pd[17]
  BY <1>2, CutTwo
<1>13. /\ e6 \in ByteSeqs /\ Size(e6) = N - 17
       /\ \A k \in 1 .. N - 17 : e6[k] = pd[k + 17]
  <2>1. N <= Size(pd) /\ 18 <= N + 1 /\ N - 17 = N - 18 + 1
    BY <1>3, <1>4
  <2>2. e6 \in ByteSeqs /\ Size(e6) = N - 17
    BY <1>3, <1>4, <2>1, CutSize
  <2>3. ASSUME NEW k \in 1 .. N - 17 PROVE e6[k] = pd[k + 17]
    <3>1. k \in Nat /\ 1 <= k /\ k + 17 = k + 18 - 1 /\ k + 17 <= N
      BY <1>4
    <3> QED BY <1>3, <1>4, <2>1, <3>1, CutAt
  <2> QED BY <2>2, <2>3
<1> HIDE DEF e1, e2, e3, e4, e5, e6
<1>14. /\ h2 \in ByteSeqs /\ Size(h2) = 4
       /\ h2[1] = sport[1] /\ h2[2] = sport[2]
       /\ h2[3] = dport[1] /\ h2[4] = dport[2]
  <2>1. h2 \in ByteSeqs /\ Size(h2) = 4
    BY Glue
  <2>2. \A k \in 1 .. Size(sport) : h2[k] = sport[k]
    BY First
  <2>3. h2[3] = dport[1] /\ h2[4] = dport[2]
    BY Then
  <2> QED BY <2>1, <2>2, <2>3
<1> HIDE DEF h2
<1>15. /\ h3 \in ByteSeqs /\ Size(h3) = 12
       /\ h3[1] = sport[1] /\ h3[2] = sport[2]
       /\ h3[3] = dport[1] /\ h3[4] = dport[2]
       /\ \A k \in 5 .. 12 : h3[k] = pd[k - 2]
  <2>1. h3 \in ByteSeqs /\ Size(h3) = 12
    BY <1>8, <1>14, Glue
  <2>2. \A k \in 1 .. Size(h2) : h3[k] = h2[k]
    BY <1>8, <1>14, First
  <2>3. ASSUME NEW k \in 5 .. 12 PROVE h3[k] = pd[k - 2]
    <3>1. k - 4 \in 1 .. 8 /\ k = 4 + (k - 4) /\ (k - 4) + 2 = k - 2
      OBVIOUS
    <3>2. h3[k] = e1[k - 4]
      BY <1>8, <1>14, <3>1, Then
    <3> QED BY <1>8, <3>1, <3>2
  <2> HIDE DEF h3
  <2> QED BY <1>14, <2>1, <2>2, <2>3
<1> HIDE DEF h3
<1>16. /\ h4 \in ByteSeqs /\ Size(h4) = 14
       /\ h4[1] = sport[1] /\ h4[2] = sport[2]
       /\ h4[3] = dport[1] /\ h4[4] = dport[2]
       /\ \A k \in 5 .. 12 : h4[k] = pd[k - 2]
       /\ h4[13] = x /\ h4[14] = pd[12]
  <2>1. h4 \in ByteSeqs /\ Size(h4) = 14
    BY <1>9, <1>15, Glue
  <2>2. \A k \in 1 .. Size(h3) : h4[k] = h3[k]
    BY <1>9, <1>15, First
  <2>3. h4[13] = x /\ h4[14] = pd[12]
    BY <1>9, <1>15, Then
  <2> HIDE DEF h4
  <2> QED BY <1>15, <2>1, <2>2, <2>3
<1> HIDE DEF h4
<1>17. /\ h5 \in ByteSeqs /\ Size(h5) = 16
       /\ h5[1] = sport[1] /\ h5[2] = sport[2]
       /\ h5[3] = dport[1] /\ h5[4] = dport[2]
       /\ \A k \in 5 .. 12 : h5[k] = pd[k - 2]
       /\ h5[13] = x /\ h5[14] = pd[12]
       /\ h5[15] = pd[14] /\ h5[16] = pd[15]
  <2>1. h5 \in ByteSeqs /\ Size(h5) = 16
    BY <1>10, <1>16, Glue
  <2>2. \A k \in 1 .. Size(h4) : h5[k] = h4[k]
    BY <1>10, <1>16, First
  <2>3. h5[15] = pd[14] /\ h5[16] = pd[15]
    BY <1>10, <1>16, Then
  <2> HIDE DEF h5
  <2> QED BY <1>16, <2>1, <2>2, <2>3
<1> HIDE DEF h5
<1>18. /\ h6 \in ByteSeqs /\ Size(h6) = 18
       /\ h6[1] = sport[1] /\ h6[2] = sport[2]
       /\ h6[3] = dport[1] /\ h6[4] = dport[2]
       /\ \A k \in 5 .. 12 : h6[k] = pd[k - 2]
       /\ h6[13] = x /\ h6[14] = pd[12]
       /\ h6[15] = pd[14] /\ h6[16] = pd[15]
       /\ h6[17] = 0 /\ h6[18] = 0
  <2>1. h6 \in ByteSeqs /\ Size(h6) = 18
    BY <1>11, <1>17, Glue
  <2>2. \A k \in 1 .. Size(h5) : h6[k] = h5[k]
    BY <1>11, <1>17, First
  <2>3. h6[17] = 0 /\ h6[18] = 0
    BY <1>11, <1>17, Then
  <2> HIDE DEF h6
  <2> QED BY <1>17, <2>1, <2>2, <2>3
<1> HIDE DEF h6
<1>19. /\ h7 \in ByteSeqs /\ Size(h7) = 20
       /\ h7[1] = sport[1] /\ h7[2] = sport[2]
       /\ h7[3] = dport[1] /\ h7[4] = dport[2]
       /\ \A k \in 5 .. 12 : h7[k] = pd[k - 2]
       /\ h7[13] = x /\ h7[14] = pd[12]
       /\ h7[15] = pd[14] /\ h7[16] = pd[15]
       /\ h7[17] = 0 /\ h7[18] = 0
       /\ h7[19] = pd[16] /\ h7[20] = pd[17]
  <2>1. h7 \in ByteSeqs /\ Size(h7) = 20
    BY <1>12, <1>18, Glue
  <2>2. \A k \in 1 .. Size(h6) : h7[k] = h6[k]
    BY <1>12, <1>18, First
  <2>3. h7[19] = pd[16] /\ h7[20] = pd[17]
    BY <1>12, <1>18, Then
  <2> HIDE DEF h7
  <2> QED BY <1>18, <2>1, <2>2, <2>3
<1> HIDE DEF h7
<1>20. h \in ByteSeqs /\ Size(h) = N + 3
  <2>1. h \in ByteSeqs /\ Size(h) = 20 + (N - 17)
    BY <1>7, <1>13, <1>19, Glue
  <2> QED BY <1>4, <2>1
<1>21. \A k \in 1 .. 20 : h[k] = h7[k]
  <2>1. \A k \in 1 .. Size(h7) : h[k] = h7[k]
    BY <1>7, <1>13, <1>19, First
  <2> QED BY <1>19, <2>1
<1>22. ASSUME NEW k \in 21 .. N + 3 PROVE h[k] = pd[k - 3]
  <2>1. k - 20 \in 1 .. N - 17 /\ k = 20 + (k - 20) /\ (k - 20) + 17 = k - 3
    BY <1>4
  <2>2. h[k] = e6[k - 20]
    BY <1>7, <1>13, <1>19, <2>1, Then
  <2> QED BY <1>13, <2>1, <2>2
<1>23. x = (16 * pd[13] + (pd[11] % 2)) % 256
  BY <1>2, <1>5
<1>24. \A k \in 5 .. 12 : h[k] = pd[k - 2]
  BY <1>19, <1>21
<1>25. /\ h[1] = sport[1] /\ h[2] = sport[2]
       /\ h[3] = dport[1] /\ h[4] = dport[2]
       /\ h[13] = x /\ h[14] = pd[12]
       /\ h[15] = pd[14] /\ h[16] = pd[15] /\ h[17] = 0 /\ h[18] = 0
       /\ h[19] = pd[16] /\ h[20] = pd[17]
  BY <1>19, <1>21
<1> QED BY <1>3, <1>20, <1>22, <1>23, <1>24, <1>25

\* The header made from the protocol data of a TCP header is that header,
\* but for the ports, the checksum, the reserved bits and the flags.
LEMMA Rebuilt ==
  ASSUME NEW t \in ByteSeqs, HeaderLength(t) \in 20 .. Size(t),
         NEW sport \in ByteSeqs, Size(sport) = 2,
         NEW dport \in ByteSeqs, Size(dport) = 2, NEW j,
         NEW h, h = TcpHeader(sport, dport, TcpProtoData(t), j)
  PROVE  /\ h \in ByteSeqs /\ Size(h) = HeaderLength(t)
         /\ h[1] = sport[1] /\ h[2] = sport[2]
         /\ h[3] = dport[1] /\ h[4] = dport[2]
         /\ h[13] = 16 * (t[13] \div 16) /\ h[14] = TcpFlags(t)
         /\ h[17] = 0 /\ h[18] = 0
         /\ \A k \in (5 .. HeaderLength(t)) \ {13, 14, 17, 18} : h[k] = t[k]
<1>1. PICK pd : pd = TcpProtoData(t)
  OBVIOUS
<1>2. PICK H : H = HeaderLength(t)
  OBVIOUS
<1>3. H \in Nat /\ 20 <= H
  BY <1>2, HeaderBytes
<1>4. /\ pd \in ByteSeqs /\ Size(pd) = H - 3
      /\ \A k \in 3 .. 10 : pd[k] = t[k + 2]
      /\ pd[11] = 0 /\ pd[12] = TcpFlags(t) /\ pd[13] = t[13] \div 16
      /\ pd[14] = t[15] /\ pd[15] = t[16] /\ pd[16] = t[19] /\ pd[17] = t[20]
      /\ \A k \in 18 .. H - 3 : pd[k] = t[k + 3]
  BY <1>1, <1>2, TcpDataBytes
<1>5. Size(pd) >= 17 /\ Size(pd) + 3 = H
  BY <1>3, <1>4
<1>6. /\ h \in ByteSeqs /\ Size(h) = Size(pd) + 3
      /\ h[1] = sport[1] /\ h[2] = sport[2]
      /\ h[3] = dport[1] /\ h[4] = dport[2]
      /\ \A k \in 5 .. 12 : h[k] = pd[k - 2]
      /\ h[13] = (16 * pd[13] + (pd[11] % 2)) % 256 /\ h[14] = pd[12]
      /\ h[15] = pd[14] /\ h[16] = pd[15] /\ h[17] = 0 /\ h[18] = 0
      /\ h[19] = pd[16] /\ h[20] = pd[17]
      /\ \A k \in 21 .. Size(pd) + 3 : h[k] = pd[k - 3]
  BY <1>1, <1>4, <1>5, TcpHeaderBytes
<1>7. h[13] = 16 * (t[13] \div 16)
  <2>1. PICK o \in 0 .. 15 : o = t[13] \div 16
    BY HeaderBytes
  <2>2. (16 * o + (0 % 2)) % 256 = 16 * o
    OBVIOUS
  <2> QED BY <1>4, <1>6, <2>1, <2>2
<1>8. \A k \in 5 .. 12 : h[k] = t[k]
  <2> TAKE k \in 5 .. 12
  <2>1. k - 2 \in 3 .. 10 /\ (k - 2) + 2 = k
    OBVIOUS
  <2> QED BY <1>4, <1>6, <2>1
<1>9. \A k \in 21 .. H : h[k] = t[k]
  <2> TAKE k \in 21 .. H
  <2>1. k - 3 \in 18 .. H - 3 /\ (k - 3) + 3 = k
    BY <1>3
  <2> QED BY <1>4, <1>5, <1>6, <2>1
<1>10. h[15] = t[15] /\ h[16] = t[16] /\ h[19] = t[19] /\ h[20] = t[20]
  BY <1>4, <1>6
<1>11. ASSUME NEW k \in (5 .. H) \ {13, 14, 17, 18} PROVE h[k] = t[k]
  <2>1. k \in 5 .. 12 \/ k \in {15, 16, 19, 20} \/ k \in 21 .. H
    BY <1>3
  <2> QED BY <1>8, <1>9, <1>10, <2>1
<1>12. Size(h) = H /\ h[14] = TcpFlags(t)
  BY <1>4, <1>5, <1>6
<1> QED BY <1>2, <1>6, <1>7, <1>11, <1>12

\* A new header in front of the payload of a packet.
LEMMA Replaced ==
  ASSUME NEW t \in ByteSeqs, NEW h \in ByteSeqs, NEW n \in Nat, n = Size(h),
         n <= Size(t), NEW q, q = Cat(h, Piece(t, n + 1, Size(t)))
  PROVE  /\ q \in ByteSeqs /\ Size(q) = Size(t)
         /\ \A k \in 1 .. n : q[k] = h[k]
         /\ \A k \in n + 1 .. Size(t) : q[k] = t[k]
<1>1. PICK N : N = Size(t)
  OBVIOUS
<1>2. N \in Nat
  BY <1>1, LenIsNat
<1>3. PICK v : v = Piece(t, n + 1, N)
  OBVIOUS
<1>4. n + 1 \in Nat /\ 1 <= n + 1 /\ n + 1 <= N + 1 /\ N - n = N - (n + 1) + 1 /\ N <= Size(t)
  BY <1>1, <1>2
<1>5. v \in ByteSeqs /\ Size(v) = N - n
  BY <1>2, <1>3, <1>4, CutSize
<1>6. q = Cat(h, v)
  BY <1>1, <1>3
<1>7. q \in ByteSeqs /\ Size(q) = n + (N - n)
  BY <1>5, <1>6, Glue
<1>8. \A k \in 1 .. Size(h) : q[k] = h[k]
  BY <1>5, <1>6, First
<1>9. ASSUME NEW k \in n + 1 .. N PROVE q[k] = t[k]
  <2>1. k - n \in 1 .. N - n /\ k - n \in Nat /\ 1 <= k - n /\ k = n + (k - n)
        /\ k = (k - n) + (n + 1) - 1 /\ k <= N
    BY <1>2
  <2>2. q[k] = v[k - n]
    BY <1>5, <1>6, <2>1, Then
  <2>3. v[k - n] = t[k]
    BY <1>2, <1>3, <1>4, <2>1, CutAt
  <2> QED BY <2>2, <2>3
<1>10. Size(q) = N
  BY <1>2, <1>7
<1> QED BY <1>1, <1>7, <1>8, <1>9, <1>10

----------------------------------------------------------------------------
(* Packets *)

\* What a sound network stack sends.
PacketOk(p) ==
  /\ p.src \in ByteSeqs /\ Size(p.src) = 4
  /\ p.dst \in ByteSeqs /\ Size(p.dst) = 4
  /\ p.proto \in {TCP, UDP}
  /\ p.opts \in ByteSeqs /\ p.rest \in ByteSeqs
  /\ 20 + Size(p.opts) + Size(p.rest) < LengthLimit
  /\ p.proto = TCP =>
       Size(p.rest) >= 20 /\ p.rest[17] = 0 /\ p.rest[18] = 0
  /\ p.proto = UDP =>
       Size(p.rest) >= 8 /\ p.rest[7] = 0 /\ p.rest[8] = 0

LEMMA LengthLimitIsNat == LengthLimit \in Nat
BY DEF LengthLimit

\* A packet of a host whose ports have two bytes is one.
LEMMA WholePacketOk ==
  ASSUME NEW src \in ByteSeqs, Size(src) = 4, NEW dst \in ByteSeqs, Size(dst) = 4,
         NEW sport \in ByteSeqs, Size(sport) = 2,
         NEW dport \in ByteSeqs, Size(dport) = 2, NEW m \in Messages,
         NEW p, p = WholePacket(src, sport, dst, dport, m)
  PROVE  /\ PacketOk(p) /\ p.src = src /\ p.dst = dst
         /\ p.rest[1] = sport[1] /\ p.rest[2] = sport[2]
         /\ p.rest[3] = dport[1] /\ p.rest[4] = dport[2]
<1>1. PICK tail : tail = m.tail
  OBVIOUS
<1>2. PICK opts : opts = m.opts
  OBVIOUS
<1>3. PICK proto : proto = m.proto
  OBVIOUS
<1>4. PICK n : n = Size(tail)
  OBVIOUS
<1>5. /\ proto \in {TCP, UDP} /\ opts \in ByteSeqs /\ tail \in ByteSeqs
      /\ 24 + Size(opts) + n < LengthLimit
      /\ proto = TCP => n >= 16 /\ tail[13] = 0 /\ tail[14] = 0
      /\ proto = UDP => n >= 4 /\ tail[3] = 0 /\ tail[4] = 0
  <2>1. Sound(m)
    BY TransitAssumption, Zenon
  <2>3. 24 + Size(m.opts) + Size(m.tail) < LengthLimit
    BY <2>1, Zenon DEF Sound, Size
  <2>4. m.proto \in {TCP, UDP} /\ m.opts \in ByteSeqs /\ m.tail \in ByteSeqs
    BY <2>1 DEF Sound, ByteSeqs
  <2>5. m.proto = TCP =>
          Size(m.tail) >= 16 /\ m.tail[13] = 0 /\ m.tail[14] = 0
    BY <2>1 DEF Sound, Size
  <2>6. m.proto = UDP =>
          Size(m.tail) >= 4 /\ m.tail[3] = 0 /\ m.tail[4] = 0
    BY <2>1 DEF Sound, Size
  <2> QED BY <1>1, <1>2, <1>3, <1>4, <2>3, <2>4, <2>5, <2>6
<1>6. n \in Nat /\ Size(opts) \in Nat
  BY <1>4, <1>5, LenIsNat
<1>7. PICK a : a = Cat(sport, dport)
  OBVIOUS
<1>8. /\ a \in ByteSeqs /\ Size(a) = 4
      /\ a[1] = sport[1] /\ a[2] = sport[2]
      /\ a[3] = dport[1] /\ a[4] = dport[2]
  <2>1. a \in ByteSeqs /\ Size(a) = 4
    BY <1>7, Glue
  <2>2. \A k \in 1 .. Size(sport) : a[k] = sport[k]
    BY <1>7, First
  <2>3. a[3] = dport[1] /\ a[4] = dport[2]
    BY <1>7, Then
  <2> QED BY <2>1, <2>2, <2>3
<1>9. PICK r : r = Cat(a, tail)
  OBVIOUS
<1>10. r \in ByteSeqs /\ Size(r) = 4 + n
  BY <1>4, <1>5, <1>8, <1>9, Glue
<1>11. r[1] = a[1] /\ r[2] = a[2] /\ r[3] = a[3] /\ r[4] = a[4]
  <2>1. \A k \in 1 .. Size(a) : r[k] = a[k]
    BY <1>5, <1>8, <1>9, First
  <2> QED BY <1>8, <2>1
<1>12. \A k \in 1 .. n : r[4 + k] = tail[k]
  BY <1>4, <1>5, <1>8, <1>9, Then
<1>13. ASSUME proto = TCP
       PROVE  Size(r) >= 20 /\ r[17] = 0 /\ r[18] = 0
  <2>1. 13 \in 1 .. n /\ 14 \in 1 .. n
    BY <1>5, <1>6, <1>13
  <2>2. r[4 + 13] = 0 /\ r[4 + 14] = 0
    BY <1>5, <1>12, <1>13, <2>1
  <2> QED BY <1>5, <1>6, <1>10, <1>13, <2>2
<1>14. ASSUME proto = UDP
       PROVE  Size(r) >= 8 /\ r[7] = 0 /\ r[8] = 0
  <2>1. 3 \in 1 .. n /\ 4 \in 1 .. n
    BY <1>5, <1>6, <1>14
  <2>2. r[4 + 3] = 0 /\ r[4 + 4] = 0
    BY <1>5, <1>12, <1>14, <2>1
  <2> QED BY <1>5, <1>6, <1>10, <1>14, <2>2
<1>15. /\ p.src = src /\ p.dst = dst /\ p.proto = proto /\ p.opts = opts
       /\ p.rest = r
  BY <1>1, <1>2, <1>3, <1>7, <1>9, Zenon DEF WholePacket, Cat
<1>16. 20 + Size(opts) + Size(r) < LengthLimit
  BY LengthLimitIsNat, <1>5, <1>6, <1>10
<1>17. PacketOk(p)
  BY <1>5, <1>10, <1>13, <1>14, <1>15, <1>16 DEF PacketOk
<1> QED BY <1>8, <1>11, <1>15, <1>17

\* The view of what follows the IP header: whole if there are no options,
\* never shorter than what there is.
LEMMA TransportBytes ==
  ASSUME NEW p, PacketOk(p), NEW t, t = Transport(p)
  PROVE  /\ t \in ByteSeqs /\ Size(t) \in Nat
         /\ p.proto = TCP => Size(t) >= 20
         /\ p.proto = UDP => Size(t) >= 8
         /\ p.opts = <<>> => t = p.rest
<1>1. PICK o : o = p.opts
  OBVIOUS
<1>2. PICK r : r = p.rest
  OBVIOUS
<1>3. PICK n : n = Size(o)
  OBVIOUS
<1>4. PICK m : m = Size(r)
  OBVIOUS
<1>5. PICK c : c = Cat(o, r)
  OBVIOUS
<1>6. /\ o \in ByteSeqs /\ r \in ByteSeqs
      /\ p.proto = TCP => m >= 20
      /\ p.proto = UDP => m >= 8
  BY <1>1, <1>2, <1>4 DEF PacketOk
<1>7. n \in Nat /\ m \in Nat
  BY <1>3, <1>4, <1>6, LenIsNat
<1>8. c \in ByteSeqs /\ Size(c) = n + m
  BY <1>3, <1>4, <1>5, <1>6, Glue
<1>9. PICK i : i = n \div 4 + 1
  OBVIOUS
<1>10. i \in Nat /\ 1 <= i /\ i <= n + 1
  BY <1>7, <1>9
<1>11. PICK k : k = (n + m) - i + 1
  OBVIOUS
<1>12. k \in Nat /\ k >= m /\ n + m \in Nat /\ i <= (n + m) + 1
  BY <1>7, <1>10, <1>11
<1>13. t = Piece(c, i, n + m)
  <2>1. t = SubSeq(c, Len(o) \div 4 + 1, Len(c))
    BY <1>1, <1>2, <1>5, Zenon DEF Transport, Cat
  <2> QED BY <1>3, <1>8, <1>9, <2>1 DEF Piece, Size
<1>14. t \in ByteSeqs /\ Size(t) = k
  BY <1>8, <1>10, <1>11, <1>12, <1>13, CutSize
<1>15. ASSUME o = <<>> PROVE t = r
  <2>1. n = 0
    BY <1>3, <1>15 DEF Size
  <2>2. i = 1
    BY <1>9, <2>1
  <2>3. i = n + 1
    BY <2>1, <2>2
  <2>4. Piece(Cat(o, r), i, n + m) = r
    BY <1>3, <1>4, <1>6, <2>3, Behind
  <2> QED BY <1>5, <1>13, <2>4
<1>16. /\ p.proto = TCP => k >= 20
       /\ p.proto = UDP => k >= 8
  BY <1>6, <1>7, <1>12
<1> QED BY <1>1, <1>2, <1>12, <1>14, <1>15, <1>16

\* Where the payload begins.
Offset(p) == IF p.proto = TCP THEN HeaderLength(Transport(p)) ELSE 8

\* The payload is a piece of the packet.
LEMMA PayloadBytes ==
  ASSUME NEW p, PacketOk(p), Readable(p), NEW t, t = Transport(p)
  PROVE  /\ Offset(p) \in Nat /\ Offset(p) <= Size(t)
         /\ Payload(p) = Piece(t, Offset(p) + 1, Size(t))
         /\ Payload(p) \in ByteSeqs
         /\ Size(Payload(p)) = Size(t) - Offset(p)
<1>1. PICK n : n = Offset(p)
  OBVIOUS
<1>2. PICK N : N = Size(t)
  OBVIOUS
<1>3. t \in ByteSeqs /\ N \in Nat
  BY <1>2, TransportBytes
<1>4. n \in Nat /\ n <= N
  <2>1. CASE p.proto = TCP
    <3>1. n = HeaderLength(t) /\ HeaderLength(t) \in 20 .. N
      BY <1>1, <1>2, <2>1 DEF Offset, Readable, Size
    <3> QED BY <1>3, <3>1
  <2>2. CASE p.proto = UDP
    <3>1. n = 8
      BY <1>1, <2>2 DEF Offset, TCP, UDP
    <3>2. N >= 8
      BY <1>2, <2>2, TransportBytes
    <3> QED BY <1>3, <3>1, <3>2
  <2> QED BY <2>1, <2>2 DEF PacketOk
<1>5. Payload(p) = Piece(t, n + 1, N)
  BY <1>1, <1>2, Zenon DEF Payload, Offset, Piece, Size
<1>6. n + 1 \in Nat /\ 1 <= n + 1 /\ n + 1 <= N + 1 /\ N - n = N - (n + 1) + 1 /\ N <= Size(t)
  BY <1>2, <1>3, <1>4
<1>7. Payload(p) \in ByteSeqs /\ Size(Payload(p)) = N - n
  BY <1>3, <1>5, <1>6, CutSize
<1> QED BY <1>1, <1>2, <1>4, <1>5, <1>7

\* QTunnelUDPViewScheme::generate_object_bytes, byte by byte.
LEMMA UdpDataBytes ==
  ASSUME NEW t \in ByteSeqs, Size(t) >= 8, NEW pd, pd = UdpProtoData(t)
  PROVE  /\ pd \in ByteSeqs /\ Size(pd) = 4 /\ Number(pd) = 2
         /\ pd[3] = t[5] /\ pd[4] = t[6]
<1>0. Size(t) \in Nat /\ 6 <= Size(t)
  BY LenIsNat
<1>1. PICK a : a = TwoBytes(2)
  OBVIOUS
<1>2. a \in ByteSeqs /\ Size(a) = 2 /\ a[1] = 0 /\ a[2] = 2
  <2>1. 2 \div 256 = 0 /\ 2 % 256 = 2 /\ 2 \in Nat /\ 2 < 65536
    OBVIOUS
  <2> QED BY <1>1, <2>1, TwoBytesOf
<1>3. PICK b : b = Piece(t, 5, 6)
  OBVIOUS
<1>4. b \in ByteSeqs /\ Size(b) = 2 /\ b[1] = t[5] /\ b[2] = t[6]
  BY <1>0, <1>3, CutTwo
<1>5. pd = Cat(a, b)
  BY <1>1, <1>3, Zenon DEF UdpProtoData, Cat, Piece
<1>6. pd \in ByteSeqs /\ Size(pd) = 4
  BY <1>2, <1>4, <1>5, Glue
<1>7. \A k \in 1 .. Size(a) : pd[k] = a[k]
  BY <1>2, <1>4, <1>5, First
<1>8. pd[3] = b[1] /\ pd[4] = b[2]
  BY <1>2, <1>4, <1>5, Then
<1>9. pd[1] = 0 /\ pd[2] = 2
  BY <1>2, <1>7
<1>10. Number(pd) = 2
  BY <1>9 DEF Number
<1> QED BY <1>4, <1>6, <1>8, <1>10

\* UdpPacketLittleEndian::generate_object_bytes, byte by byte.
LEMMA UdpHeaderBytes ==
  ASSUME NEW sport \in ByteSeqs, Size(sport) = 2,
         NEW dport \in ByteSeqs, Size(dport) = 2,
         NEW pd \in ByteSeqs, Size(pd) = 4,
         NEW h, h = UdpHeader(sport, dport, pd)
  PROVE  /\ h \in ByteSeqs /\ Size(h) = 8
         /\ h[1] = sport[1] /\ h[2] = sport[2]
         /\ h[3] = dport[1] /\ h[4] = dport[2]
         /\ h[5] = pd[3] /\ h[6] = pd[4] /\ h[7] = 0 /\ h[8] = 0
<1>1. PICK b : b = Piece(pd, 3, 4)
  OBVIOUS
<1>2. b \in ByteSeqs /\ Size(b) = 2 /\ b[1] = pd[3] /\ b[2] = pd[4]
  BY <1>1, CutTwo
<1>3. PICK z : z = <<0, 0>>
  OBVIOUS
<1>4. z \in ByteSeqs /\ Size(z) = 2 /\ z[1] = 0 /\ z[2] = 0
  BY <1>3, PairOfBytes, ZeroIsByte
<1>5. PICK h2 : h2 = Cat(sport, dport)
  OBVIOUS
<1>6. PICK h3 : h3 = Cat(h2, b)
  OBVIOUS
<1>7. h = Cat(h3, z)
  BY <1>1, <1>3, <1>5, <1>6, Zenon DEF UdpHeader, Cat, Piece
<1>8. /\ h2 \in ByteSeqs /\ Size(h2) = 4
      /\ h2[1] = sport[1] /\ h2[2] = sport[2]
      /\ h2[3] = dport[1] /\ h2[4] = dport[2]
  <2>1. h2 \in ByteSeqs /\ Size(h2) = 4
    BY <1>5, Glue
  <2>2. \A k \in 1 .. Size(sport) : h2[k] = sport[k]
    BY <1>5, First
  <2>3. h2[3] = dport[1] /\ h2[4] = dport[2]
    BY <1>5, Then
  <2> QED BY <2>1, <2>2, <2>3
<1>9. /\ h3 \in ByteSeqs /\ Size(h3) = 6
      /\ (\A k \in 1 .. 4 : h3[k] = h2[k]) /\ h3[5] = pd[3] /\ h3[6] = pd[4]
  <2>1. h3 \in ByteSeqs /\ Size(h3) = 6
    BY <1>2, <1>6, <1>8, Glue
  <2>2. \A k \in 1 .. Size(h2) : h3[k] = h2[k]
    BY <1>2, <1>6, <1>8, First
  <2>3. h3[5] = b[1] /\ h3[6] = b[2]
    BY <1>2, <1>6, <1>8, Then
  <2> QED BY <1>2, <1>8, <2>1, <2>2, <2>3
<1>10. /\ h \in ByteSeqs /\ Size(h) = 8
       /\ (\A k \in 1 .. 6 : h[k] = h3[k]) /\ h[7] = 0 /\ h[8] = 0
  <2>1. h \in ByteSeqs /\ Size(h) = 8
    BY <1>4, <1>7, <1>9, Glue
  <2>2. \A k \in 1 .. Size(h3) : h[k] = h3[k]
    BY <1>4, <1>7, <1>9, First
  <2>3. h[7] = z[1] /\ h[8] = z[2]
    BY <1>4, <1>7, <1>9, Then
  <2> QED BY <1>4, <1>9, <2>1, <2>2, <2>3
<1> QED BY <1>8, <1>9, <1>10

\* The protocol data of a packet state their own length.
LEMMA ProtoDataOk ==
  ASSUME NEW p, PacketOk(p), Readable(p), NEW pd, pd = CollectProtoData(p)
  PROVE  pd \in ByteSeqs /\ Size(pd) >= 2 /\ Size(pd) = 2 + Number(pd)
<1>1. PICK t : t = Transport(p)
  OBVIOUS
<1>2. t \in ByteSeqs
  BY <1>1, TransportBytes
<1>3. CASE p.proto = TCP
  <2>1. HeaderLength(t) \in 20 .. Size(t)
    BY <1>1, <1>3 DEF Readable, Size
  <2>2. pd = TcpProtoData(t)
    BY <1>1, <1>3 DEF CollectProtoData
  <2>3. pd \in ByteSeqs /\ Size(pd) = HeaderLength(t) - 3 /\ Size(pd) = 2 + Number(pd)
    BY <1>2, <2>1, <2>2, TcpDataBytes
  <2>4. HeaderLength(t) \in Nat /\ HeaderLength(t) >= 20
    BY <1>2, <2>1, HeaderBytes
  <2>5. Size(pd) >= 2
    BY <2>3, <2>4
  <2> QED BY <2>3, <2>5
<1>4. CASE p.proto = UDP
  <2>1. Size(t) >= 8
    BY <1>1, <1>4, TransportBytes
  <2>2. pd = UdpProtoData(t)
    BY <1>1, <1>4 DEF CollectProtoData, TCP, UDP
  <2>3. pd \in ByteSeqs /\ Size(pd) = 4 /\ Number(pd) = 2
    BY <1>2, <2>1, <2>2, UdpDataBytes
  <2> QED BY <2>3
<1> QED BY <1>3, <1>4 DEF PacketOk

\* The record of a packet is taken apart into what it was made of.
LEMMA DataParsed ==
  ASSUME NEW p, PacketOk(p), Readable(p),
         NEW src \in ByteSeqs, Size(src) = 4,
         NEW sport \in ByteSeqs, Size(sport) = 2,
         NEW dst \in ByteSeqs, Size(dst) = 4,
         NEW dport \in ByteSeqs, Size(dport) = 2
  PROVE  ParseTunnelData(TunnelData(p.proto, src, sport, dst, dport,
                                    CollectProtoData(p), Payload(p)))
           = [net |-> 4, proto |-> p.proto, src |-> src, sport |-> sport,
              dst |-> dst, dport |-> dport, pd |-> CollectProtoData(p),
              payload |-> Payload(p)]
<1>1. PICK pd : pd = CollectProtoData(p)
  OBVIOUS
<1>2. PICK v : v = Payload(p)
  OBVIOUS
<1>3. PICK proto : proto = p.proto
  OBVIOUS
<1>4. pd \in ByteSeqs /\ Size(pd) >= 2 /\ Size(pd) = 2 + Number(pd)
  BY <1>1, ProtoDataOk
<1>5. v \in ByteSeqs
  BY <1>2, PayloadBytes
<1>6. proto \in Bytes
  BY <1>3 DEF PacketOk, TCP, UDP, Bytes
<1>7. ParseTunnelData(TunnelData(proto, src, sport, dst, dport, pd, v))
        = [net |-> 4, proto |-> proto, src |-> src, sport |-> sport,
           dst |-> dst, dport |-> dport, pd |-> pd, payload |-> v]
  BY <1>4, <1>5, <1>6, ParseBack
<1> QED BY <1>1, <1>2, <1>3, <1>7

\* A TCP packet rebuilt from its protocol data differs only where the
\* reserved bits and NS were.
LEMMA TcpSame ==
  ASSUME NEW r \in ByteSeqs, HeaderLength(r) \in 20 .. Size(r),
         r[17] = 0, r[18] = 0,
         NEW sport \in ByteSeqs, Size(sport) = 2,
         NEW dport \in ByteSeqs, Size(dport) = 2,
         sport[1] = r[1], sport[2] = r[2], dport[1] = r[3], dport[2] = r[4],
         NEW j, NEW h, h = TcpHeader(sport, dport, TcpProtoData(r), j),
         NEW q, q = Cat(h, Piece(r, HeaderLength(r) + 1, Size(r)))
  PROVE  /\ q \in ByteSeqs /\ Size(q) = Size(r)
         /\ \A i \in 1 .. Size(r) :
              q[i] # r[i] => r[13] % 16 # 0 /\ i \in {13, 14}
<1>1. PICK H : H = HeaderLength(r)
  OBVIOUS
<1>2. PICK N : N = Size(r)
  OBVIOUS
<1>3. H \in Nat /\ 20 <= H /\ N \in Nat /\ H <= N
  BY <1>1, <1>2, HeaderBytes, LenIsNat
<1>4. /\ h \in ByteSeqs /\ Size(h) = H
      /\ h[1] = r[1] /\ h[2] = r[2] /\ h[3] = r[3] /\ h[4] = r[4]
      /\ h[13] = 16 * (r[13] \div 16) /\ h[14] = TcpFlags(r)
      /\ h[17] = r[17] /\ h[18] = r[18]
      /\ \A k \in (5 .. H) \ {13, 14, 17, 18} : h[k] = r[k]
  BY <1>1, Rebuilt
<1>5. \A k \in (1 .. H) \ {13, 14} : h[k] = r[k]
  <2> TAKE k \in (1 .. H) \ {13, 14}
  <2>1. k \in {1, 2, 3, 4, 17, 18} \/ k \in (5 .. H) \ {13, 14, 17, 18}
    BY <1>3
  <2> QED BY <1>4, <2>1
<1>6. r[13] % 16 = 0 => h[13] = r[13] /\ h[14] = r[14]
  BY <1>4, HeaderBytes
<1>7. /\ q \in ByteSeqs /\ Size(q) = N
      /\ \A k \in 1 .. H : q[k] = h[k]
      /\ \A k \in H + 1 .. N : q[k] = r[k]
  BY <1>1, <1>2, <1>3, <1>4, Replaced
<1>8. ASSUME NEW i \in 1 .. N, q[i] # r[i]
      PROVE  r[13] % 16 # 0 /\ i \in {13, 14}
  <2>1. i \in 1 .. H
    BY <1>3, <1>7, <1>8
  <2>2. h[i] # r[i]
    BY <1>7, <1>8, <2>1
  <2>3. i \in {13, 14}
    BY <1>5, <2>1, <2>2
  <2> QED BY <1>6, <2>2, <2>3
<1> QED BY <1>2, <1>7, <1>8

\* The offset of a rebuilt header is that of the header, so that putting the
\* length on top of it leaves it alone.
LEMMA OffsetKept ==
  ASSUME NEW t \in ByteSeqs, HeaderLength(t) \in 20 .. Size(t),
         NEW sport \in ByteSeqs, Size(sport) = 2,
         NEW dport \in ByteSeqs, Size(dport) = 2,
         NEW j, NEW h, h = TcpHeader(sport, dport, TcpProtoData(t), j)
  PROVE  /\ HeaderLength(h) = HeaderLength(t)
         /\ [h EXCEPT ![13] = OrByte(@, 16 * (Len(h) \div 4))] = h
         /\ Reparsed(h, j) = h
<1>1. PICK o : o = t[13] \div 16
  OBVIOUS
<1>2. o \in 0 .. 15 /\ HeaderLength(t) = 4 * o
  BY <1>1, HeaderBytes
<1>3. h \in ByteSeqs /\ Size(h) = 4 * o /\ h[13] = 16 * o
  BY <1>1, <1>2, Rebuilt
<1>4. (16 * o) \div 16 = o /\ (4 * o) \div 4 = o
  BY <1>2
<1>5. HeaderLength(h) = HeaderLength(t)
  BY <1>2, <1>3, <1>4 DEF HeaderLength
<1>6. Len(h) \div 4 = o
  BY <1>3, <1>4 DEF Size
<1>7. 16 * o \in Bytes
  BY <1>2 DEF Bytes
<1>8. OrByte(h[13], 16 * (Len(h) \div 4)) = h[13]
  BY <1>3, <1>6, <1>7, SumOfBits
<1>9. h = [k \in DOMAIN h |-> h[k]]
  BY <1>3 DEF ByteSeqs
<1>10. [h EXCEPT ![13] = h[13]] = h
  BY <1>9
<1>11. HeaderLength(h) = Len(h)
  BY <1>2, <1>3, <1>5 DEF Size
<1>12. DOMAIN h = 1 .. Len(h) /\ Len(h) \in Nat
  BY <1>3 DEF ByteSeqs
<1>13. Reparsed(h, j) = [k \in 1 .. Len(h) |-> h[k]]
  BY <1>11, <1>12 DEF Reparsed, Read
<1> QED BY <1>5, <1>8, <1>9, <1>10, <1>12, <1>13

\* A UDP packet rebuilt from its protocol data has the same bytes.
LEMMA UdpSame ==
  ASSUME NEW r \in ByteSeqs, Size(r) >= 8, r[7] = 0, r[8] = 0,
         NEW sport \in ByteSeqs, Size(sport) = 2,
         NEW dport \in ByteSeqs, Size(dport) = 2,
         sport[1] = r[1], sport[2] = r[2], dport[1] = r[3], dport[2] = r[4],
         NEW h, h = UdpHeader(sport, dport, UdpProtoData(r)),
         NEW q, q = Cat(h, Piece(r, 8 + 1, Size(r)))
  PROVE  /\ q \in ByteSeqs /\ Size(q) = Size(r)
         /\ \A i \in 1 .. Size(r) : q[i] = r[i]
<1>1. PICK pd : pd = UdpProtoData(r)
  OBVIOUS
<1>2. PICK N : N = Size(r)
  OBVIOUS
<1>3. N \in Nat /\ 8 <= N
  BY <1>2, LenIsNat
<1>4. pd \in ByteSeqs /\ Size(pd) = 4 /\ pd[3] = r[5] /\ pd[4] = r[6]
  BY <1>1, UdpDataBytes
<1>5. /\ h \in ByteSeqs /\ Size(h) = 8
      /\ h[1] = sport[1] /\ h[2] = sport[2]
      /\ h[3] = dport[1] /\ h[4] = dport[2]
      /\ h[5] = pd[3] /\ h[6] = pd[4] /\ h[7] = 0 /\ h[8] = 0
  BY <1>1, <1>4, UdpHeaderBytes
<1>6. \A k \in 1 .. 8 : h[k] = r[k]
  <2> TAKE k \in 1 .. 8
  <2>1. k \in {1, 2, 3, 4, 5, 6, 7, 8}
    OBVIOUS
  <2> QED BY <1>4, <1>5, <2>1
<1>7. /\ q \in ByteSeqs /\ Size(q) = N
      /\ \A k \in 1 .. 8 : q[k] = h[k]
      /\ \A k \in 8 + 1 .. N : q[k] = r[k]
  BY <1>2, <1>3, <1>5, Replaced
<1>8. \A i \in 1 .. N : q[i] = r[i]
  <2> TAKE i \in 1 .. N
  <2>1. i \in 1 .. 8 \/ i \in 8 + 1 .. N
    BY <1>3
  <2> QED BY <1>6, <1>7, <2>1
<1> QED BY <1>2, <1>7, <1>8

\* SameBytes, from the sizes and the bytes.
LEMMA SameBytesOf ==
  ASSUME NEW p, NEW q, NEW r \in ByteSeqs, r = p.rest,
         NEW x, x = q.rest, Size(x) = Size(r),
         \A i \in 1 .. Size(r) :
           x[i] # r[i] => p.proto = TCP /\ r[13] % 16 # 0 /\ i \in {13, 14}
  PROVE  SameBytes(p, q)
<1>1. DOMAIN r = 1 .. Size(r)
  BY DEF ByteSeqs, Size
<1>2. Len(x) = Len(r)
  BY DEF Size
<1> QED BY <1>1, <1>2 DEF SameBytes

\* The ports of a packet.
LEMMA PortBytes ==
  ASSUME NEW t \in ByteSeqs, Size(t) >= 8
  PROVE  /\ Piece(t, 1, 2) \in ByteSeqs /\ Size(Piece(t, 1, 2)) = 2
         /\ Piece(t, 1, 2)[1] = t[1] /\ Piece(t, 1, 2)[2] = t[2]
         /\ Piece(t, 3, 4) \in ByteSeqs /\ Size(Piece(t, 3, 4)) = 2
         /\ Piece(t, 3, 4)[1] = t[3] /\ Piece(t, 3, 4)[2] = t[4]
<1>1. 2 <= Size(t) /\ 4 <= Size(t)
  BY LenIsNat
<1>2. /\ Piece(t, 1, 2) \in ByteSeqs /\ Size(Piece(t, 1, 2)) = 2
      /\ Piece(t, 1, 2)[1] = t[1] /\ Piece(t, 1, 2)[2] = t[2]
  BY <1>1, CutTwo
<1>3. /\ Piece(t, 3, 4) \in ByteSeqs /\ Size(Piece(t, 3, 4)) = 2
      /\ Piece(t, 3, 4)[1] = t[3] /\ Piece(t, 3, 4)[2] = t[4]
  BY <1>1, CutTwo
<1> QED BY <1>2, <1>3

LEMMA PacketSize ==
  ASSUME NEW p, PacketOk(p), NEW t, t = Transport(p)
  PROVE  t \in ByteSeqs /\ Size(t) >= 8
<1>1. /\ t \in ByteSeqs /\ Size(t) \in Nat
      /\ p.proto = TCP => Size(t) >= 20
      /\ p.proto = UDP => Size(t) >= 8
  BY TransportBytes
<1>2. p.proto = TCP \/ p.proto = UDP
  BY DEF PacketOk
<1> QED BY <1>1, <1>2

\* A length that fits into sixteen bits is not cut off.
LEMMA LengthFits ==
  ASSUME NEW n \in Nat, n < LengthLimit
  PROVE  n % LengthLimit = n
BY DEF LengthLimit

\* What the server sends for a packet: from its own address to the packet's
\* destination, with the packet's bytes and, for TCP, true lengths.
LEMMA SenderOf ==
  ASSUME NEW p, PacketOk(p), Readable(p), NEW t, t = Transport(p),
         NEW sport, sport = Piece(t, 1, 2), NEW dport, dport = Piece(t, 3, 4),
         NEW d, d.dst = p.dst, d.proto = p.proto, d.dport = dport,
         d.pd = CollectProtoData(p), d.payload = Payload(p),
         NEW key, key.lport = sport, NEW q, q = SenderPacket(key, d)
  PROVE  /\ q.src = Server /\ q.dst = p.dst /\ q.proto = p.proto
         /\ p.opts = <<>> =>
              SameBytes(p, q) /\ (Proper(q) \/ q.proto = UDP)
<1>1. PICK h : h = IF p.proto = TCP
                   THEN TcpHeader(sport, dport, CollectProtoData(p), 0)
                   ELSE UdpHeader(sport, dport, CollectProtoData(p))
  OBVIOUS
<1>2. PICK size : size = TransportLength(p.proto, h) + Size(Payload(p))
  OBVIOUS
<1>3. PICK x : x = Cat(h, Payload(p))
  OBVIOUS
<1>4. q = [src |-> Server, dst |-> p.dst, proto |-> p.proto, opts |-> <<>>,
           total |-> (20 + size) % LengthLimit, rest |-> x,
           over |-> size % LengthLimit]
  BY <1>1, <1>2, <1>3, Zenon DEF SenderPacket, Cat, Size
<1>5. /\ q.src = Server /\ q.dst = p.dst /\ q.proto = p.proto
      /\ q.opts = <<>> /\ q.rest = x
      /\ q.total = (20 + size) % LengthLimit /\ q.over = size % LengthLimit
  BY <1>4
<1>6. t \in ByteSeqs /\ Size(t) >= 8
  BY PacketSize
<1>7. /\ sport \in ByteSeqs /\ Size(sport) = 2 /\ sport[1] = t[1] /\ sport[2] = t[2]
      /\ dport \in ByteSeqs /\ Size(dport) = 2 /\ dport[1] = t[3] /\ dport[2] = t[4]
  BY <1>6, PortBytes
<1>8. SUFFICES ASSUME p.opts = <<>>
               PROVE  SameBytes(p, q) /\ (Proper(q) \/ q.proto = UDP)
  BY <1>5
<1>9. t = p.rest
  BY <1>8, TransportBytes
<1>10. PICK n : n = Offset(p)
  OBVIOUS
<1>11. /\ n \in Nat /\ n <= Size(t) /\ Payload(p) = Piece(t, n + 1, Size(t))
       /\ Size(Payload(p)) = Size(t) - n
  BY <1>10, PayloadBytes
<1>12. CASE p.proto = TCP
  <2>1. HeaderLength(t) \in 20 .. Size(t) /\ n = HeaderLength(t)
    BY <1>10, <1>12 DEF Readable, Size, Offset
  <2>2. h = TcpHeader(sport, dport, TcpProtoData(t), 0)
    BY <1>1, <1>12 DEF CollectProtoData
  <2>3. x = Cat(h, Piece(t, HeaderLength(t) + 1, Size(t)))
    BY <1>3, <1>11, <2>1
  <2>4. t[17] = 0 /\ t[18] = 0
    BY <1>9, <1>12 DEF PacketOk
  <2>5. /\ x \in ByteSeqs /\ Size(x) = Size(t)
        /\ \A i \in 1 .. Size(t) :
             x[i] # t[i] => t[13] % 16 # 0 /\ i \in {13, 14}
    BY <1>6, <1>7, <2>1, <2>2, <2>3, <2>4, TcpSame
  <2>6. SameBytes(p, q)
    BY <1>5, <1>6, <1>9, <1>12, <2>5, SameBytesOf
  <2>7. HeaderLength(h) = n
    BY <1>6, <1>7, <2>1, <2>2, OffsetKept
  <2>8. size = n + (Size(t) - n)
    BY <1>2, <1>11, <1>12, <2>7 DEF TransportLength
  <2>9. size \in Nat /\ size = Size(t)
    BY <1>6, <1>11, <2>8, LenIsNat
  <2>10. 20 + size \in Nat /\ 20 + size < LengthLimit /\ size < LengthLimit
    <3>1. 20 + Size(p.opts) + Size(t) < LengthLimit /\ p.opts \in ByteSeqs
      BY <1>9 DEF PacketOk
    <3>2. Size(p.opts) \in Nat
      BY <3>1, LenIsNat
    <3> QED BY <2>9, <3>1, <3>2, LengthLimitIsNat
  <2>11. q.total = 20 + size /\ q.over = size
    BY <1>5, <2>9, <2>10, LengthFits
  <2>12. Len(q.opts) = 0
    BY <1>5
  <2>13. Len(q.rest) = size
    BY <1>5, <2>5, <2>9 DEF Size
  <2>14. Proper(q)
    BY <2>9, <2>11, <2>12, <2>13 DEF Proper
  <2> QED BY <2>6, <2>14
<1>13. CASE p.proto = UDP
  <2>0. p.proto # TCP
    BY <1>13 DEF TCP, UDP
  <2>1. n = 8
    BY <1>10, <2>0 DEF Offset
  <2>2. h = UdpHeader(sport, dport, UdpProtoData(t))
    BY <1>1, <2>0 DEF CollectProtoData
  <2>3. x = Cat(h, Piece(t, 8 + 1, Size(t)))
    BY <1>3, <1>11, <2>1
  <2>4. t[7] = 0 /\ t[8] = 0
    BY <1>9, <1>13 DEF PacketOk
  <2>5. /\ x \in ByteSeqs /\ Size(x) = Size(t)
        /\ \A i \in 1 .. Size(t) : x[i] = t[i]
    BY <1>6, <1>7, <2>2, <2>3, <2>4, UdpSame
  <2>6. SameBytes(p, q)
    BY <1>5, <1>6, <1>9, <2>5, SameBytesOf
  <2> QED BY <1>5, <1>13, <2>6
<1> QED BY <1>12, <1>13 DEF PacketOk

\* What the client injects for a TCP answer.
LEMMA InjectedOf ==
  ASSUME NEW p, PacketOk(p), Readable(p), p.proto = TCP, p.opts = <<>>,
         NEW sport, sport = Piece(p.rest, 1, 2),
         NEW dport, dport = Piece(p.rest, 3, 4),
         NEW d, d.sport = sport, d.dport = dport,
         d.pd = CollectProtoData(p), d.payload = Payload(p),
         NEW j, NEW q, q = InjectedPacket(d, j)
  PROVE  /\ q.src = d.src /\ q.dst = d.dst
         /\ Piece(q.rest, 1, 2) = sport /\ Piece(q.rest, 3, 4) = dport
         /\ SameBytes(p, q) /\ Proper(q)
<1>1. PICK t : t = p.rest
  OBVIOUS
<1>2. t = Transport(p)
  BY <1>1, TransportBytes
<1>3. t \in ByteSeqs /\ Size(t) >= 8
  BY <1>2, PacketSize
<1>4. /\ sport \in ByteSeqs /\ Size(sport) = 2 /\ sport[1] = t[1] /\ sport[2] = t[2]
      /\ dport \in ByteSeqs /\ Size(dport) = 2 /\ dport[1] = t[3] /\ dport[2] = t[4]
  BY <1>1, <1>3, PortBytes
<1>5. PICK n : n = Offset(p)
  OBVIOUS
<1>6. /\ n \in Nat /\ n <= Size(t) /\ Payload(p) = Piece(t, n + 1, Size(t))
      /\ Size(Payload(p)) = Size(t) - n
  BY <1>2, <1>5, PayloadBytes
<1>7. HeaderLength(t) \in 20 .. Size(t) /\ n = HeaderLength(t)
  BY <1>2, <1>5 DEF Readable, Size, Offset
<1>8. PICK h : h = TcpHeader(sport, dport, TcpProtoData(t), j)
  OBVIOUS
<1>9. CollectProtoData(p) = TcpProtoData(t)
  BY <1>2 DEF CollectProtoData
<1>10. /\ [h EXCEPT ![13] = OrByte(@, 16 * (Len(h) \div 4))] = h
       /\ Reparsed(AnswerHeader(d, j), j) = h
  <2>1. /\ [h EXCEPT ![13] = OrByte(@, 16 * (Len(h) \div 4))] = h
        /\ Reparsed(h, j) = h
    BY <1>3, <1>4, <1>7, <1>8, OffsetKept
  <2>2. AnswerHeader(d, j) = h
    BY <1>8, <1>9, Zenon DEF AnswerHeader
  <2> QED BY <2>1, <2>2, Zenon
<1>11. PICK x : x = Cat(h, Payload(p))
  OBVIOUS
<1>12. q = [src |-> d.src, dst |-> d.dst, proto |-> TCP, opts |-> <<>>,
            total |-> 20 + Size(h) + Size(Payload(p)),
            rest |-> x, over |-> Size(h) + Size(Payload(p))]
  <2>1. q = [src |-> d.src, dst |-> d.dst, proto |-> TCP, opts |-> <<>>,
             total |-> 20 + Len(h) + Len(Payload(p)),
             rest |-> [h EXCEPT ![13] = OrByte(@, 16 * (Len(h) \div 4))] \o Payload(p),
             over |-> Len(h) + Len(Payload(p))]
    BY <1>10, Zenon DEF InjectedPacket
  <2> QED BY <1>10, <1>11, <2>1, Zenon DEF Cat, Size
<1>13. /\ q.src = d.src /\ q.dst = d.dst /\ q.opts = <<>> /\ q.rest = x
       /\ q.total = 20 + Size(h) + Size(Payload(p))
       /\ q.over = Size(h) + Size(Payload(p))
  BY <1>12
<1>14. x = Cat(h, Piece(t, HeaderLength(t) + 1, Size(t)))
  BY <1>6, <1>7, <1>11
<1>15. t[17] = 0 /\ t[18] = 0
  BY <1>1 DEF PacketOk
<1>16. /\ x \in ByteSeqs /\ Size(x) = Size(t)
       /\ \A i \in 1 .. Size(t) :
            x[i] # t[i] => t[13] % 16 # 0 /\ i \in {13, 14}
  BY <1>3, <1>4, <1>7, <1>8, <1>14, <1>15, TcpSame
<1>17. SameBytes(p, q)
  BY <1>1, <1>3, <1>13, <1>16, SameBytesOf
<1>18. h \in ByteSeqs /\ Size(h) = n
  BY <1>3, <1>4, <1>7, <1>8, Rebuilt
<1>19. Size(t) \in Nat
  BY <1>3, LenIsNat
<1>20. Proper(q)
  <2>1. Size(h) + Size(Payload(p)) = Size(t) /\ 20 + Size(h) + Size(Payload(p)) = 20 + Size(t)
    BY <1>6, <1>18, <1>19
  <2>2. Len(q.opts) = 0
    BY <1>13
  <2>3. Len(q.rest) = Size(t)
    BY <1>13, <1>16 DEF Size
  <2> QED BY <1>13, <1>19, <2>1, <2>2, <2>3 DEF Proper
<1>21. \A i \in 1 .. 4 : x[i] = t[i]
  <2> TAKE i \in 1 .. 4
  <2>1. i \in 1 .. Size(t) /\ i \notin {13, 14}
    BY <1>3, <1>19
  <2> QED BY <1>16, <2>1
<1>22. Size(x) >= 8
  BY <1>3, <1>16
<1>23. /\ Piece(x, 1, 2) \in ByteSeqs /\ Size(Piece(x, 1, 2)) = 2
       /\ Piece(x, 1, 2)[1] = x[1] /\ Piece(x, 1, 2)[2] = x[2]
       /\ Piece(x, 3, 4) \in ByteSeqs /\ Size(Piece(x, 3, 4)) = 2
       /\ Piece(x, 3, 4)[1] = x[3] /\ Piece(x, 3, 4)[2] = x[4]
  BY <1>16, <1>22, PortBytes
<1>24. /\ Piece(x, 1, 2)[1] = sport[1] /\ Piece(x, 1, 2)[2] = sport[2]
       /\ Piece(x, 3, 4)[1] = dport[1] /\ Piece(x, 3, 4)[2] = dport[2]
  BY <1>4, <1>21, <1>23
<1>25. Piece(x, 1, 2) = sport
  <2>1. \A i \in 1 .. 2 : Piece(x, 1, 2)[i] = sport[i]
    BY <1>24
  <2> QED BY <1>4, <1>23, <2>1, SameSeq
<1>26. Piece(x, 3, 4) = dport
  <2>1. \A i \in 1 .. 2 : Piece(x, 3, 4)[i] = dport[i]
    BY <1>24
  <2> QED BY <1>4, <1>23, <2>1, SameSeq
<1> QED BY <1>13, <1>17, <1>20, <1>25, <1>26

----------------------------------------------------------------------------
(* The way of a packet *)

\* The record of a captured packet, and that of an answer to the flow k.
Request(p) ==
  TunnelData(p.proto, p.src, SubSeq(Transport(p), 1, 2), p.dst,
             SubSeq(Transport(p), 3, 4), CollectProtoData(p), Payload(p))

Response(p, k) ==
  TunnelData(p.proto, p.src, SubSeq(Transport(p), 1, 2), k.client,
             k.lport, CollectProtoData(p), Payload(p))

\* k is the key of the flow that p belongs to; its ports are those of the
\* packet if there were no options to misplace them.
FlowOf(p, k) ==
  /\ k.client = p.src /\ k.raddr = p.dst
  /\ k.lport \in ByteSeqs /\ Size(k.lport) = 2
  /\ k.rport \in ByteSeqs /\ Size(k.rport) = 2
  /\ p.opts = <<>> =>
       k.lport = Piece(p.rest, 1, 2) /\ k.rport = Piece(p.rest, 3, 4)

\* a is a packet of the remote host for the flow k.
AnswerTo(a, k) ==
  /\ PacketOk(a) /\ a.src = k.raddr
  /\ Piece(a.rest, 1, 2) = k.rport /\ Piece(a.rest, 3, 4) = k.lport

\* The inductive invariant: which packet the record, the flow and the answer
\* belong to in each phase, and the two properties.
TransitInv ==
  /\ phase \notin {"idle", "lost"} => PacketOk(captured)
  /\ phase = "request" => Readable(captured) /\ record = Request(captured)
  /\ phase \in {"sent", "answered"} /\ flow # None => FlowOf(captured, flow)
  /\ phase = "answered" => flow # None /\ AnswerTo(answer, flow)
  /\ phase = "response" =>
       /\ Readable(answer)
       /\ \E k : /\ FlowOf(captured, k) /\ AnswerTo(answer, k)
                 /\ record = Response(answer, k)
  /\ injected # None => phase \in {"injected", "idle"}
  /\ RequestTravels
  /\ AnswerReturns

LEMMA TransitInitially == TransitInit => TransitInv
BY DEF TransitInit, TransitInv, RequestTravels, AnswerReturns

\* The addresses have four bytes, the ports two.
LEMMA Given ==
  /\ \A a \in {Client, Server, Remote} : a \in ByteSeqs /\ Size(a) = 4
  /\ \A p \in Ports : p \in ByteSeqs /\ Size(p) = 2
BY TransitAssumption, Zenon DEF ByteSeqs, Size

LEMMA CaptureStep ==
  ASSUME TransitInv, NEW sport \in Ports, NEW dport \in Ports,
         NEW m \in Messages, Capture(sport, dport, m)
  PROVE  TransitInv'
<1>1. PICK p : p = WholePacket(Client, sport, Remote, dport, m)
  OBVIOUS
<1>2. PacketOk(p)
  BY <1>1, Given, WholePacketOk
<1>3. /\ captured' = p /\ phase' = "captured" /\ flow' = None /\ sent' = None
      /\ injected' = None
  BY <1>1 DEF Capture
<1>4. RequestTravels' /\ AnswerReturns'
  BY <1>3 DEF RequestTravels, AnswerReturns
<1>5. PacketOk(captured)'
  BY <1>2, <1>3
<1> QED BY <1>3, <1>4, <1>5 DEF TransitInv

LEMMA EncodeStep ==
  ASSUME TransitInv, EncodeCaptured
  PROVE  TransitInv'
<1>1. /\ phase = "captured" /\ Readable(captured) /\ record' = Request(captured)
      /\ phase' = "request"
      /\ UNCHANGED <<captured, flow, sent, answer, injected>>
  BY DEF EncodeCaptured, Request
<1>2. PICK p : p = captured
  OBVIOUS
<1>3. captured' = p /\ PacketOk(p) /\ Readable(p) /\ record' = Request(p)
  BY <1>1, <1>2 DEF TransitInv
<1>4. RequestTravels' /\ AnswerReturns'
  BY <1>1 DEF TransitInv, RequestTravels, AnswerReturns
<1>5. /\ PacketOk(captured)'
      /\ (Readable(captured) /\ record = Request(captured))'
  BY <1>3
<1> QED BY <1>1, <1>4, <1>5 DEF TransitInv

LEMMA ForwardStep ==
  ASSUME TransitInv, Forward
  PROVE  TransitInv'
<1>1. PICK p : p = captured
  OBVIOUS
<1>2. PICK t : t = Transport(p)
  OBVIOUS
<1>3. PICK sport : sport = Piece(t, 1, 2)
  OBVIOUS
<1>4. PICK dport : dport = Piece(t, 3, 4)
  OBVIOUS
<1>5. PacketOk(p) /\ Readable(p) /\ record = Request(p) /\ phase = "request"
  BY <1>1 DEF TransitInv, Forward
<1>6. t \in ByteSeqs /\ Size(t) >= 8 /\ (p.opts = <<>> => t = p.rest)
  BY <1>2, <1>5, PacketSize, TransportBytes
<1>7. /\ sport \in ByteSeqs /\ Size(sport) = 2
      /\ dport \in ByteSeqs /\ Size(dport) = 2
  BY <1>3, <1>4, <1>6, PortBytes
<1>8. /\ p.src \in ByteSeqs /\ Size(p.src) = 4
      /\ p.dst \in ByteSeqs /\ Size(p.dst) = 4
  BY <1>5 DEF PacketOk
<1>9. PICK d : d = [net |-> 4, proto |-> p.proto, src |-> p.src, sport |-> sport,
                    dst |-> p.dst, dport |-> dport, pd |-> CollectProtoData(p),
                    payload |-> Payload(p)]
  OBVIOUS
<1>10. ParseTunnelData(record) = d
  <2>1. record = TunnelData(p.proto, p.src, sport, p.dst, dport,
                            CollectProtoData(p), Payload(p))
    BY <1>2, <1>3, <1>4, <1>5, Zenon DEF Request, Piece
  <2> QED BY <1>5, <1>7, <1>8, <1>9, <2>1, DataParsed
<1>11. /\ d.dst = p.dst /\ d.proto = p.proto /\ d.src = p.src
       /\ d.sport = sport /\ d.dport = dport
       /\ d.pd = CollectProtoData(p) /\ d.payload = Payload(p)
  BY <1>9
<1>12. PICK k : k = [client |-> p.src, lport |-> sport, raddr |-> p.dst,
                     rport |-> dport]
  OBVIOUS
<1>13. /\ k.client = p.src /\ k.lport = sport /\ k.raddr = p.dst
       /\ k.rport = dport
  BY <1>12
<1>14. PICK q : q = SenderPacket(k, d)
  OBVIOUS
<1>15. /\ sent' = q /\ (flow' = None \/ flow' = k) /\ phase' = "sent"
       /\ UNCHANGED <<captured, answer, injected>>
  BY <1>10, <1>11, <1>12, <1>14 DEF Forward
<1>16. /\ q.src = Server /\ q.dst = p.dst /\ q.proto = p.proto
       /\ p.opts = <<>> => SameBytes(p, q) /\ (Proper(q) \/ q.proto = UDP)
  BY <1>2, <1>3, <1>4, <1>5, <1>11, <1>13, <1>14, SenderOf
<1>17. FlowOf(p, k)
  BY <1>3, <1>4, <1>6, <1>7, <1>13 DEF FlowOf
<1>18. captured' = p
  BY <1>1, <1>15
<1>19. RequestTravels'
  BY <1>15, <1>16, <1>18 DEF RequestTravels
<1>20. AnswerReturns'
  BY <1>15 DEF TransitInv, AnswerReturns
<1>21. PacketOk(captured)'
  BY <1>5, <1>18
<1>22. (flow # None => FlowOf(captured, flow))'
  BY <1>15, <1>17, <1>18
<1>23. injected' = None
  BY <1>5, <1>15 DEF TransitInv
<1> QED BY <1>15, <1>19, <1>20, <1>21, <1>22, <1>23 DEF TransitInv

LEMMA AnswerStep ==
  ASSUME TransitInv, NEW m \in Messages, Answer(m)
  PROVE  TransitInv'
<1>1. PICK p : p = captured
  OBVIOUS
<1>2. PICK k : k = flow
  OBVIOUS
<1>3. PICK a : a = WholePacket(k.raddr, k.rport, Server, k.lport, m)
  OBVIOUS
<1>4. PacketOk(p) /\ FlowOf(p, k) /\ k # None
  BY <1>1, <1>2 DEF TransitInv, Answer
<1>5. /\ k.raddr \in ByteSeqs /\ Size(k.raddr) = 4
      /\ k.lport \in ByteSeqs /\ Size(k.lport) = 2
      /\ k.rport \in ByteSeqs /\ Size(k.rport) = 2
  BY <1>4 DEF FlowOf, PacketOk
<1>6. Server \in ByteSeqs /\ Size(Server) = 4
  BY Given
<1>7. /\ PacketOk(a) /\ a.src = k.raddr
      /\ a.rest[1] = k.rport[1] /\ a.rest[2] = k.rport[2]
      /\ a.rest[3] = k.lport[1] /\ a.rest[4] = k.lport[2]
  BY <1>3, <1>5, <1>6, WholePacketOk
<1>8. PICK r : r = a.rest
  OBVIOUS
<1>9. r \in ByteSeqs /\ Size(r) >= 8
  <2>1. r \in ByteSeqs /\ (Size(r) >= 20 \/ Size(r) >= 8)
    BY <1>7, <1>8 DEF PacketOk
  <2> QED BY <2>1, LenIsNat
<1>10. /\ Piece(r, 1, 2) \in ByteSeqs /\ Size(Piece(r, 1, 2)) = 2
       /\ Piece(r, 1, 2)[1] = r[1] /\ Piece(r, 1, 2)[2] = r[2]
       /\ Piece(r, 3, 4) \in ByteSeqs /\ Size(Piece(r, 3, 4)) = 2
       /\ Piece(r, 3, 4)[1] = r[3] /\ Piece(r, 3, 4)[2] = r[4]
  BY <1>9, PortBytes
<1>11. Piece(r, 1, 2) = k.rport
  <2>1. \A i \in 1 .. 2 : Piece(r, 1, 2)[i] = k.rport[i]
    BY <1>7, <1>8, <1>10
  <2> QED BY <1>5, <1>10, <2>1, SameSeq
<1>12. Piece(r, 3, 4) = k.lport
  <2>1. \A i \in 1 .. 2 : Piece(r, 3, 4)[i] = k.lport[i]
    BY <1>7, <1>8, <1>10
  <2> QED BY <1>5, <1>10, <2>1, SameSeq
<1>13. AnswerTo(a, k)
  BY <1>7, <1>8, <1>11, <1>12 DEF AnswerTo
<1>14. /\ answer' = a /\ captured' = p /\ flow' = k /\ phase' = "answered"
       /\ UNCHANGED <<sent, injected>> /\ phase = "sent"
  BY <1>1, <1>2, <1>3 DEF Answer
<1>15. injected' = None
  BY <1>14 DEF TransitInv
<1>16. RequestTravels' /\ AnswerReturns'
  BY <1>1, <1>14, <1>15 DEF TransitInv, RequestTravels, AnswerReturns
<1>17. /\ PacketOk(captured)' /\ FlowOf(captured, flow)' /\ (flow # None)'
       /\ AnswerTo(answer, flow)'
  BY <1>4, <1>13, <1>14
<1> QED BY <1>14, <1>15, <1>16, <1>17 DEF TransitInv

LEMMA CarryBackStep ==
  ASSUME TransitInv, CarryBack
  PROVE  TransitInv'
<1>1. PICK p : p = captured
  OBVIOUS
<1>2. PICK k : k = flow
  OBVIOUS
<1>3. PICK a : a = answer
  OBVIOUS
<1>4. /\ PacketOk(p) /\ FlowOf(p, k) /\ AnswerTo(a, k) /\ Readable(a)
      /\ injected = None
  BY <1>1, <1>2, <1>3 DEF TransitInv, CarryBack
<1>5. /\ record' = Response(a, k) /\ captured' = p /\ answer' = a
      /\ phase' = "response" /\ UNCHANGED <<sent, injected>>
  BY <1>1, <1>2, <1>3 DEF CarryBack, Response
<1>6. RequestTravels' /\ AnswerReturns'
  BY <1>1, <1>4, <1>5 DEF TransitInv, RequestTravels, AnswerReturns
<1>7. /\ PacketOk(captured)' /\ Readable(answer)'
      /\ (/\ FlowOf(captured, k) /\ AnswerTo(answer, k)
          /\ record = Response(answer, k))'
  BY <1>4, <1>5
<1>8. (\E c : /\ FlowOf(captured, c) /\ AnswerTo(answer, c)
              /\ record = Response(answer, c))'
  BY <1>7
<1> QED BY <1>4, <1>5, <1>6, <1>7, <1>8 DEF TransitInv

LEMMA InjectStep ==
  ASSUME TransitInv, Inject
  PROVE  TransitInv'
<1>1. PICK p : p = captured
  OBVIOUS
<1>2. PICK a : a = answer
  OBVIOUS
<1>3. PICK k : FlowOf(p, k) /\ AnswerTo(a, k) /\ record = Response(a, k)
  BY <1>1, <1>2 DEF TransitInv, Inject
<1>4. PacketOk(p) /\ Readable(a) /\ PacketOk(a)
  BY <1>1, <1>2, <1>3 DEF TransitInv, Inject, AnswerTo
<1>5. PICK t : t = Transport(a)
  OBVIOUS
<1>6. PICK sport : sport = Piece(t, 1, 2)
  OBVIOUS
<1>7. /\ sport \in ByteSeqs /\ Size(sport) = 2
      /\ (a.opts = <<>> => t = a.rest)
  BY <1>4, <1>5, <1>6, PacketSize, TransportBytes, PortBytes
<1>8. /\ a.src \in ByteSeqs /\ Size(a.src) = 4
      /\ k.client \in ByteSeqs /\ Size(k.client) = 4
      /\ k.lport \in ByteSeqs /\ Size(k.lport) = 2
  BY <1>3, <1>4 DEF PacketOk, FlowOf
<1>9. PICK d : d = [net |-> 4, proto |-> a.proto, src |-> a.src, sport |-> sport,
                    dst |-> k.client, dport |-> k.lport,
                    pd |-> CollectProtoData(a), payload |-> Payload(a)]
  OBVIOUS
<1>10. ParseTunnelData(record) = d
  <2>1. record = TunnelData(a.proto, a.src, sport, k.client, k.lport,
                            CollectProtoData(a), Payload(a))
    BY <1>3, <1>5, <1>6, Zenon DEF Response, Piece
  <2> QED BY <1>4, <1>7, <1>8, <1>9, <2>1, DataParsed
<1>11. /\ d.src = a.src /\ d.dst = k.client
       /\ d.sport = sport /\ d.dport = k.lport
       /\ d.pd = CollectProtoData(a) /\ d.payload = Payload(a)
  BY <1>9
<1>12. PICK j \in Junk : injected' = InjectedPacket(d, j)
  BY <1>10 DEF Inject
<1>13. PICK q : q = InjectedPacket(d, j)
  OBVIOUS
<1>14. /\ injected' = q /\ captured' = p /\ answer' = a
       /\ phase' = "injected" /\ sent' = sent /\ captured = p
  BY <1>1, <1>2, <1>12, <1>13 DEF Inject
<1>15. ASSUME p.opts = <<>>, a.opts = <<>>, a.proto = TCP
       PROVE  /\ q.src = p.dst /\ q.dst = p.src
              /\ Piece(q.rest, 1, 2) = Piece(p.rest, 3, 4)
              /\ Piece(q.rest, 3, 4) = Piece(p.rest, 1, 2)
              /\ SameBytes(a, q) /\ Proper(q)
  <2>1. sport = Piece(a.rest, 1, 2) /\ k.lport = Piece(a.rest, 3, 4)
    BY <1>3, <1>6, <1>7, <1>15 DEF AnswerTo
  <2>2. /\ q.src = d.src /\ q.dst = d.dst
        /\ Piece(q.rest, 1, 2) = sport /\ Piece(q.rest, 3, 4) = k.lport
        /\ SameBytes(a, q) /\ Proper(q)
    BY <1>4, <1>11, <1>13, <1>15, <2>1, InjectedOf
  <2>3. /\ sport = k.rport /\ a.src = k.raddr /\ k.client = p.src
        /\ k.raddr = p.dst /\ k.rport = Piece(p.rest, 3, 4)
        /\ k.lport = Piece(p.rest, 1, 2)
    BY <1>3, <1>15, <2>1 DEF FlowOf, AnswerTo
  <2> QED BY <1>11, <2>2, <2>3
<1>16. AnswerReturns'
  BY <1>14, <1>15, Zenon DEF AnswerReturns, Piece
<1>17. RequestTravels'
  BY <1>14 DEF TransitInv, RequestTravels
<1>18. PacketOk(captured)'
  BY <1>4, <1>14
<1> QED BY <1>14, <1>16, <1>17, <1>18 DEF TransitInv

\* The steps that only move on.
LEMMA MoveStep ==
  ASSUME TransitInv, Misread \/ NextPacket
  PROVE  TransitInv'
<1>1. /\ UNCHANGED <<captured, record, flow, sent, answer, injected>>
      /\ phase' \in {"lost", "idle"}
      /\ phase' = "lost" => phase \in {"captured", "answered", "response"}
  BY DEF Misread, NextPacket
<1>2. RequestTravels' /\ AnswerReturns'
  BY <1>1 DEF TransitInv, RequestTravels, AnswerReturns
<1>3. (injected # None => phase \in {"injected", "idle"})'
  BY <1>1 DEF TransitInv
<1> QED BY <1>1, <1>2, <1>3 DEF TransitInv

LEMMA TransitStutter ==
  ASSUME TransitInv, UNCHANGED transitVars
  PROVE  TransitInv'
<1>1. /\ phase' = phase /\ captured' = captured /\ record' = record
      /\ flow' = flow /\ sent' = sent /\ answer' = answer
      /\ injected' = injected
  BY DEF transitVars
<1> QED BY <1>1 DEF TransitInv, RequestTravels, AnswerReturns, PacketOk,
                    Readable, FlowOf, AnswerTo, Request, Response

\* In every phase the record, the flow and the answer are those of the packet
\* that was captured last.
THEOREM TransitCorrect == TransitSpec => []TransitInv
<1>1. TransitInv /\ [TransitNext]_transitVars => TransitInv'
  BY CaptureStep, EncodeStep, ForwardStep, AnswerStep, CarryBackStep,
     InjectStep, MoveStep, TransitStutter DEF TransitNext
<1> QED BY <1>1, TransitInitially, PTL DEF TransitSpec

\* The server sends what the client captured: outgoing_capture_loop,
\* QTunnelData and generate_sender_packet lose nothing of a packet without IP
\* options, whatever its bytes, but the reserved bits and the lengths of UDP.
THEOREM RequestCorrect == TransitSpec => []RequestTravels
<1>1. TransitInv => RequestTravels
  BY DEF TransitInv
<1> QED BY <1>1, TransitCorrect, PTL

\* A TCP answer comes back to the socket that the packet came from:
\* vpn_response_loop_iteration and new_packet_by_this undo the change of
\* address.
THEOREM AnswerCorrect == TransitSpec => []AnswerReturns
<1>1. TransitInv => AnswerReturns
  BY DEF TransitInv
<1> QED BY <1>1, TransitCorrect, PTL
=============================================================================
