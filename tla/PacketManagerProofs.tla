------------------------ MODULE PacketManagerProofs ------------------------
(***************************************************************************)
(* Proofs about PacketManager for every number of connections, every width *)
(* and every set of payloads.                                              *)
(***************************************************************************)
EXTENDS PacketManager, NaturalsInduction, WellFoundedInduction,
        FiniteSetTheorems, SequenceTheorems, TLAPS

----------------------------------------------------------------------------
(* What a CHOOSE of a smallest element rests on *)

\* A nonempty set of naturals has a least element.
LEMMA Least ==
  ASSUME NEW S \in SUBSET Nat, S # {}
  PROVE  \E i \in S : \A j \in S : i <= j
<1>1. \E i \in S : \A j \in S : ~(<<j, i>> \in OpToRel(<, Nat))
  BY WFMin, NatLessThanWellFounded
<1>2. ASSUME NEW i \in Nat, NEW j \in Nat, j < i
      PROVE  <<j, i>> \in OpToRel(<, Nat)
  <2> DEFINE p == <<j, i>>
  <2>1. p \in Nat \X Nat /\ p[1] = j /\ p[2] = i
    OBVIOUS
  <2> HIDE DEF p
  <2>2. p[1] < p[2]
    BY <2>1, <1>2
  <2>3. p \in OpToRel(<, Nat)
    BY <2>1, <2>2, Zenon DEF OpToRel
  <2> QED BY <2>3 DEF p
<1>3. \A i \in Nat, j \in Nat : j < i => <<j, i>> \in OpToRel(<, Nat)
  BY <1>2
<1>4. PICK i \in S : \A j \in S : ~(<<j, i>> \in OpToRel(<, Nat))
  BY <1>1
<1>5. \A j \in S : ~(j < i)
  BY <1>3, <1>4
<1>6. \A j \in S : i <= j
  BY <1>5
<1> QED BY <1>6

----------------------------------------------------------------------------
(* The split *)

\* The sizes derived from 2^16 and the meta data are positive naturals.
LEMMA SizesType ==
  /\ DataMax \in Nat \ {0}
  /\ Split \in Nat \ {0}
  /\ DataMax < 2 * Split
  /\ Split <= DataMax
  /\ ShortMod <= 3 * Split
  /\ 2 * Split <= DataMax + 2
  BY SizesAssumption DEF DataMax, Split

\* n < ShortMod is below 3 * Split, so a payload has one or two parts.
LEMMA Quotient ==
  ASSUME NEW n \in Nat, DataMax <= n, n < ShortMod
  PROVE  n \div Split = IF n < 2 * Split THEN 1 ELSE 2
<1> DEFINE s == Split
           q == n \div s
           r == n % s
<1>1. s \in Nat \ {0} /\ s <= n /\ n < 3 * s
  BY SizesType, SizesAssumption
<1> HIDE DEF s
<1>2. q \in Int /\ r \in 0 .. s - 1 /\ n = s * q + r
  BY <1>1
<1>3. q = IF n < 2 * s THEN 1 ELSE 2
  <2> HIDE DEF q, r
  <2>1. q >= 1
    <3>1. SUFFICES ASSUME q <= 0 PROVE FALSE
      BY <1>2
    <3>2. s * q <= 0
      BY <3>1, <1>1, <1>2
    <3> QED BY <3>2, <1>1, <1>2
  <2>2. q <= 2
    <3>1. SUFFICES ASSUME q >= 3 PROVE FALSE
      BY <1>2
    <3>2. s * q >= s * 3
      BY <3>1, <1>1, <1>2
    <3> QED BY <3>2, <1>1, <1>2
  <2>3. q = 1 \/ q = 2
    BY <2>1, <2>2, <1>2
  <2> QED BY <2>3, <1>1, <1>2
<1> QED BY <1>3 DEF s

\* One part below the limit, n \div Split parts from it on.
LEMMA PartCountValue ==
  ASSUME NEW n \in Nat, DataMax <= n, n < ShortMod
  PROVE  PartCount(n) = IF n < 2 * Split THEN 1 ELSE 2
<1>1. n \div Split = 1 \/ n \div Split = 2
  BY Quotient, SizesType
<1>2. 1 % ByteMod = 1 /\ 2 % ByteMod = 2
  BY SizesAssumption
<1> QED BY <1>1, <1>2, Quotient, SizesType DEF PartCount

\* One turn of the loop of split_packet_view, as SplitLoop writes it.
Turn(n, f, i) ==
  IF i = 0
  THEN [start |-> 0, end |-> Split, from |-> 0, to |-> 0, size |-> 0]
  ELSE LET p     == f[i - 1]
           start == p.start + (i - 1) * Split
           end   == IF n < p.end THEN n ELSE start + Split
       IN  [start |-> start, end |-> end, from |-> p.size,
            to   |-> p.size + (end - start),
            size |-> (p.size + (end - start)) % ShortMod]

\* The recursive function of the split loop satisfies its own equation.
LEMMA SplitLoopUnfold ==
  ASSUME NEW n \in Nat, DataMax <= n, n < ShortMod
  PROVE  SplitLoop(n) = [i \in 0 .. PartCount(n) |-> Turn(n, SplitLoop(n), i)]
<1> DEFINE k  == PartCount(n)
           Rec(f) == f = [i \in 0 .. k |-> Turn(n, f, i)]
           t0 == Turn(n, <<>>, 0)
           f0 == [i \in {0} |-> t0]
           t1 == Turn(n, f0, 1)
           f1 == [i \in {0, 1} |-> IF i = 0 THEN t0 ELSE t1]
           t2 == Turn(n, f1, 2)
           w  == [i \in 0 .. k |-> IF i = 0 THEN t0 ELSE IF i = 1 THEN t1 ELSE t2]
<1>1. k \in {1, 2}
  BY PartCountValue, SizesType
<1>2. \A i \in 0 .. k : w[i] = Turn(n, w, i)
  <2> HIDE DEF t0, t1, t2, k
  <2>1. w[0] = t0 /\ w[1] = t1 /\ (k = 2 => w[2] = t2)
    BY <1>1
  <2>2. f0[0] = t0 /\ f1[1] = t1
    OBVIOUS
  <2>3. t0 = Turn(n, w, 0)
    BY DEF t0, Turn
  <2> HIDE DEF f0, f1, w
  <2>4. t1 = Turn(n, w, 1)
    <3>1. f0[1 - 1] = w[1 - 1]
      BY <2>1, <2>2
    <3> QED BY <3>1 DEF t1, Turn
  <2>5. k = 2 => t2 = Turn(n, w, 2)
    <3>1. f1[2 - 1] = w[2 - 1]
      BY <2>1, <2>2
    <3> QED BY <3>1 DEF t2, Turn
  <2>6. \A i \in 0 .. k : i = 0 \/ i = 1 \/ (k = 2 /\ i = 2)
    BY <1>1
  <2> QED BY <2>1, <2>3, <2>4, <2>5, <2>6
<1>3. Rec(w)
  BY <1>2
<1>4. Rec(CHOOSE f : Rec(f))
  BY <1>3
<1>5. SplitLoop(n) = CHOOSE f : Rec(f)
  BY ZenonT(60) DEF SplitLoop, Turn
<1> QED BY <1>4, <1>5

\* The separators and the summed size of a payload of n bytes, spelled out.
LEMMA SeparatorsValue ==
  ASSUME NEW n \in Nat, n < ShortMod
  PROVE  /\ n < DataMax => /\ Separators(n) = <<[from |-> 0, to |-> n]>>
                           /\ SplitSize(n) = n
         /\ DataMax <= n /\ n < 2 * Split =>
              /\ Separators(n) = <<[from |-> 0, to |-> Split]>>
              /\ SplitSize(n) = Split
         /\ 2 * Split <= n =>
              /\ Separators(n) = <<[from |-> 0, to |-> Split],
                                   [from |-> Split, to |-> 2 * Split]>>
              /\ SplitSize(n) = 2 * Split
<1>1. ASSUME n < DataMax
      PROVE  Separators(n) = <<[from |-> 0, to |-> n]>> /\ SplitSize(n) = n
  <2>1. n % ShortMod = n
    BY SizesAssumption
  <2> QED BY <1>1, <2>1, SizesType DEF Separators, SplitSize
<1>2. ASSUME DataMax <= n
      PROVE  /\ PartCount(n) = IF n < 2 * Split THEN 1 ELSE 2
             /\ SplitLoop(n)[1].from = 0 /\ SplitLoop(n)[1].to = Split
             /\ SplitLoop(n)[1].size = Split
             /\ PartCount(n) = 2 => /\ SplitLoop(n)[2].from = Split
                                    /\ SplitLoop(n)[2].to = 2 * Split
                                    /\ SplitLoop(n)[2].size = 2 * Split
  <2> DEFINE f == SplitLoop(n)
  <2>1. f = [i \in 0 .. PartCount(n) |-> Turn(n, f, i)]
    BY <1>2, SplitLoopUnfold
  <2>2. PartCount(n) = IF n < 2 * Split THEN 1 ELSE 2
    BY <1>2, PartCountValue
  <2> HIDE DEF f
  <2>3. f[0] = [start |-> 0, end |-> Split, from |-> 0, to |-> 0, size |-> 0]
    BY <2>1, <2>2, SizesType DEF Turn
  <2>4. f[1] = Turn(n, f, 1) /\ (PartCount(n) = 2 => f[2] = Turn(n, f, 2))
    <3>1. /\ 1 \in 0 .. PartCount(n)
          /\ PartCount(n) = 2 => 2 \in 0 .. PartCount(n)
      BY <2>2, SizesType
    <3> DEFINE g == [i \in 0 .. PartCount(n) |-> Turn(n, f, i)]
    <3>2. \A i \in 0 .. PartCount(n) : g[i] = Turn(n, f, i)
      OBVIOUS
    <3> HIDE DEF g
    <3>3. f = g
      BY <2>1 DEF g
    <3> QED BY <3>1, <3>2, <3>3
  <2>5. Split % ShortMod = Split
    BY SizesType, SizesAssumption, <1>2
  <2>6. f[1] = [start |-> 0, end |-> Split, from |-> 0, to |-> Split,
                size |-> Split]
    BY <2>3, <2>4, <2>5, <1>2, SizesType DEF Turn
  <2>7. PartCount(n) = 2 => (2 * Split) % ShortMod = 2 * Split
    BY <2>2, SizesType, SizesAssumption, <1>2
  <2>8. PartCount(n) = 2 => /\ f[2].from = Split /\ f[2].to = 2 * Split
                            /\ f[2].size = 2 * Split
    BY <2>4, <2>6, <2>7, <1>2, SizesType DEF Turn
  <2> QED BY <2>2, <2>6, <2>8 DEF f
<1>3. ASSUME DataMax <= n, n < 2 * Split
      PROVE  Separators(n) = <<[from |-> 0, to |-> Split]>> /\ SplitSize(n) = Split
  BY <1>2, <1>3, SizesType DEF Separators, SplitSize
<1>4. ASSUME 2 * Split <= n
      PROVE  /\ Separators(n) = <<[from |-> 0, to |-> Split],
                                  [from |-> Split, to |-> 2 * Split]>>
             /\ SplitSize(n) = 2 * Split
  <2>1. DataMax <= n
    BY <1>4, SizesType
  <2>2. Separators(n) = <<[from |-> 0, to |-> Split],
                          [from |-> Split, to |-> 2 * Split]>>
    BY <2>1, <1>2, <1>4, SizesType DEF Separators
  <2>3. SplitSize(n) = 2 * Split
    BY <2>1, <1>2, <1>4, SizesType DEF SplitSize
  <2> QED BY <2>2, <2>3
<1> QED BY <1>1, <1>3, <1>4

\* split_packet_view never reads past the captured bytes: the parts of a
\* payload lie side by side inside it, start at its first byte, and carry
\* CarriedSize(n) of its n bytes, which is what the headers' size says.
THEOREM SplitCovers ==
  ASSUME NEW n \in Nat, n < ShortMod
  PROVE  LET seps == Separators(n)
         IN  /\ seps \in Seq([from: 0 .. n, to: 0 .. n])
             /\ Len(seps) \in {1, 2}
             /\ seps[1].from = 0
             /\ \A i \in 1 .. Len(seps) : seps[i].from <= seps[i].to
             /\ \A i \in 2 .. Len(seps) : seps[i].from = seps[i - 1].to
             /\ seps[Len(seps)].to = CarriedSize(n)
             /\ SplitSize(n) = CarriedSize(n)
<1>1. CASE n < DataMax
  <2>1. CarriedSize(n) = n
    BY <1>1 DEF CarriedSize
  <2>2. Separators(n) = <<[from |-> 0, to |-> n]>> /\ SplitSize(n) = n
    BY <1>1, SeparatorsValue
  <2> QED BY <2>1, <2>2
<1>2. CASE DataMax <= n /\ n < 2 * Split
  <2>1. CarriedSize(n) = Split
    BY <1>2, Quotient, SizesType DEF CarriedSize
  <2>2. Separators(n) = <<[from |-> 0, to |-> Split]>> /\ SplitSize(n) = Split
    BY <1>2, SeparatorsValue
  <2>3. Split \in 0 .. n
    BY <1>2, SizesType
  <2> QED BY <2>1, <2>2, <2>3
<1>3. CASE 2 * Split <= n
  <2>1. CarriedSize(n) = 2 * Split
    BY <1>3, Quotient, SizesType DEF CarriedSize
  <2>2. /\ Separators(n) = <<[from |-> 0, to |-> Split],
                             [from |-> Split, to |-> 2 * Split]>>
        /\ SplitSize(n) = 2 * Split
    BY <1>3, SeparatorsValue
  <2>3. Split \in 0 .. n /\ 2 * Split \in 0 .. n /\ Split <= 2 * Split
    BY <1>3, SizesType
  <2> QED BY <2>1, <2>2, <2>3
<1> QED BY <1>1, <1>2, <1>3, SizesType

----------------------------------------------------------------------------
(* Types of the helpers *)

\* std::find returns a place inside the bytes or their end.
LEMMA FindByteType ==
  ASSUME NEW data \in Seq(Byte), NEW offset
  PROVE  FindByte(data, offset) \in 1 .. Len(data) + 1
<1> DEFINE hits == {i \in 1 .. Len(data) : data[i] = offset}
<1>1. CASE hits = {}
  BY <1>1 DEF FindByte
<1>2. CASE hits # {}
  <2>1. hits \in SUBSET Nat
    OBVIOUS
  <2> HIDE DEF hits
  <2>2. \E i \in hits : \A j \in hits : i <= j
    BY <1>2, <2>1, Least
  <2>3. (CHOOSE i \in hits : \A j \in hits : i <= j) \in hits
    BY <2>2
  <2>4. FindByte(data, offset) = CHOOSE i \in hits : \A j \in hits : i <= j
    BY <1>2 DEF FindByte, hits
  <2>5. FindByte(data, offset) \in 1 .. Len(data)
    BY <2>3, <2>4 DEF hits
  <2> QED BY <2>5
<1> QED BY <1>1, <1>2

\* add_data keeps a builder a builder and adds the part to its sources.
LEMMA AddDataType ==
  ASSUME NEW b \in Builder, NEW part \in Part
  PROVE  AddData(b, part) \in Builder /\ (b.full => AddData(b, part).full)
<1> DEFINE at   == FindByte(b.data, part.offset)
           pre  == SubSeq(b.data, 1, at - 1)
           post == SubSeq(b.data, at, Len(b.data))
           data == pre \o part.data \o post
<1>1. /\ b.orig \in UShort /\ b.data \in Seq(Byte) /\ b.full \in BOOLEAN
      /\ b.from \in SUBSET Nat
      /\ part.data \in Seq(Byte) /\ part.uid \in Nat
  BY DEF Builder, Part
<1>2. at \in 1 .. Len(b.data) + 1
  BY <1>1, FindByteType
<1> HIDE DEF at
<1>3. pre \in Seq(Byte) /\ post \in Seq(Byte)
  <2>1. \A i \in 1 .. Len(b.data) : b.data[i] \in Byte
    BY <1>1
  <2>2. pre \in Seq(Byte)
    BY <1>1, <1>2, <2>1, SubSeqProperties
  <2>3. post \in Seq(Byte)
    BY <1>1, <1>2, <2>1, SubSeqProperties
  <2> QED BY <2>2, <2>3
<1> HIDE DEF pre, post
<1>4. data \in Seq(Byte)
  BY <1>1, <1>3, ConcatProperties
<1> HIDE DEF data
<1>5. AddData(b, part) = [orig |-> b.orig, data |-> data,
                          full |-> b.full \/ Len(data) = b.orig,
                          from |-> b.from \cup {part.uid}]
  BY DEF AddData, data, pre, post, at
<1> QED BY <1>1, <1>4, <1>5 DEF Builder

\* The constructor makes a builder.
LEMMA NewBuilderType ==
  ASSUME NEW part \in Part
  PROVE  NewBuilder(part) \in Builder
<1> DEFINE b == [orig |-> part.orig, data |-> <<>>, full |-> FALSE, from |-> {}]
<1>1. b \in Builder
  BY DEF Builder, Part
<1> HIDE DEF b
<1>2. AddData(b, part) \in Builder
  BY <1>1, AddDataType
<1> QED BY <1>2 DEF b, NewBuilder

\* encode_data makes parts whose ids, offsets and sizes fit their widths.
LEMMA PartsType ==
  ASSUME NEW c \in Conns, NEW id \in Byte, NEW uid \in Nat,
         NEW payload \in Payloads
  PROVE  Parts(c, id, uid, payload) \in Seq(Part)
<1> DEFINE n    == Len(payload)
           seps == Separators(n)
           proxy(i) == IF i = 1 THEN Proxy[c] ELSE <<>>
           data(i)  == proxy(i) \o SubSeq(payload, seps[i].from + 1, seps[i].to)
           part(i)  == [id     |-> id,
                        offset |-> seps[i].from % ShortMod,
                        orig   |-> (SplitSize(n) + Len(proxy(i))) % ShortMod,
                        data   |-> data(i),
                        uid    |-> uid]
<1>1. payload \in Seq(Byte) /\ n \in Nat /\ n < ShortMod
  BY DataAssumption
<1> HIDE DEF n
<1>2. seps \in Seq([from: 0 .. n, to: 0 .. n]) /\ SplitSize(n) \in Nat
  <2>1. SplitSize(n) \in Nat
    BY <1>1, SeparatorsValue, SizesType
  <2> QED BY <1>1, <2>1, SplitCovers
<1> HIDE DEF seps
<1>3. ASSUME NEW i \in 1 .. Len(seps)
      PROVE  part(i) \in Part
  <2>1. seps[i] \in [from: 0 .. n, to: 0 .. n]
    BY <1>2, ElementOfSeq
  <2>2. seps[i].from \in 0 .. n /\ seps[i].to \in 0 .. n
    BY <2>1
  <2>3. \A j \in 1 .. n : payload[j] \in Byte
    BY <1>1 DEF n
  <2>4. SubSeq(payload, seps[i].from + 1, seps[i].to) \in Seq(Byte)
    BY <1>1, <2>2, <2>3, SubSeqProperties
  <2>5. proxy(i) \in Seq(Byte) /\ Len(proxy(i)) \in Nat
    BY DataAssumption
  <2> HIDE DEF proxy
  <2>6. data(i) \in Seq(Byte)
    BY <2>4, <2>5, ConcatProperties
  <2> HIDE DEF data
  <2>7. /\ seps[i].from % ShortMod \in UShort
        /\ (SplitSize(n) + Len(proxy(i))) % ShortMod \in UShort
    <3>1. \A a \in Nat : a % ShortMod \in UShort
      BY SizesAssumption DEF UShort
    <3>2. seps[i].from \in Nat /\ SplitSize(n) + Len(proxy(i)) \in Nat
      BY <1>2, <2>2, <2>5
    <3> QED BY <3>1, <3>2
  <2> QED BY <2>6, <2>7 DEF Part
<1> HIDE DEF part
<1>4. Parts(c, id, uid, payload) = [i \in 1 .. Len(seps) |-> part(i)]
  BY DEF Parts, part, data, proxy, seps, n
<1>5. Len(seps) \in Nat
  BY <1>2
<1>6. [i \in 1 .. Len(seps) |-> part(i)] \in Seq(Part)
  BY <1>3, <1>5, IsASeq
<1> QED BY <1>4, <1>6

\* Cutting the stream of a connection leaves a stream of parts.
LEMMA PrefixType ==
  ASSUME NEW s \in Seq(Part), NEW m \in 0 .. Len(s)
  PROVE  SubSeq(s, 1, m) \in Seq(Part)
<1>1. \A i \in 1 .. Len(s) : s[i] \in Part
  OBVIOUS
<1>2. \A i \in 1 .. m : s[i] \in Part
  BY <1>1
<1> QED BY <1>2, SubSeqProperties

\* build_packet touches no builder but the one of the part.
LEMMA BuildPacketType ==
  ASSUME TypeOK, NEW part \in Part
  PROVE  /\ DOMAIN BuildPacket(part) \subseteq Byte
         /\ BuildPacket(part) \in [DOMAIN BuildPacket(part) -> Builder]
         /\ DOMAIN packets \subseteq DOMAIN BuildPacket(part)
         /\ \A id \in DOMAIN packets :
              packets[id].full => BuildPacket(part)[id].full
         /\ \A id \in DOMAIN BuildPacket(part) \ {part.id} :
              id \in DOMAIN packets /\ BuildPacket(part)[id] = packets[id]
<1>1. CASE ~HasBuilderData(part)
  BY <1>1 DEF BuildPacket, TypeOK
<1>2. CASE HasBuilderData(part)
  <2> DEFINE d == DOMAIN packets \cup {part.id}
             new(id) == IF id # part.id THEN packets[id]
                        ELSE IF id \in DOMAIN packets THEN AddData(packets[id], part)
                        ELSE NewBuilder(part)
  <2>1. BuildPacket(part) = [id \in d |-> new(id)]
    BY <1>2 DEF BuildPacket
  <2>2. part.id \in Byte /\ d \subseteq Byte
    BY DEF Part, TypeOK
  <2>3. \A id \in DOMAIN packets : packets[id] \in Builder
    BY DEF TypeOK
  <2>4. \A id \in d : new(id) \in Builder
    BY <2>3, AddDataType, NewBuilderType
  <2>5. \A id \in DOMAIN packets : packets[id].full => new(id).full
    BY <2>3, AddDataType
  <2>6. \A id \in d \ {part.id} : id \in DOMAIN packets /\ new(id) = packets[id]
    OBVIOUS
  <2> HIDE DEF new
  <2> QED BY <2>1, <2>2, <2>4, <2>5, <2>6
<1> QED BY <1>1, <1>2

----------------------------------------------------------------------------
(* The type invariant *)

\* Taking an id keeps the counters within a byte.
LEMMA TakeIdType ==
  ASSUME TypeOK, NEW c \in Conns, NEW payload \in Payloads, TakeId(c, payload)
  PROVE  /\ lastId' \in [Conns -> Byte]
         /\ sent' \in Seq([conn: Conns, payload: Seq(Byte)])
         /\ lastId[c] \in Byte /\ Len(sent) + 1 \in Nat
<1>1. lastId[c] \in Byte /\ (lastId[c] + 1) % ByteMod \in Byte
  BY SizesAssumption DEF TypeOK, Byte
<1>2. lastId' \in [Conns -> Byte]
  BY <1>1 DEF TypeOK, TakeId
<1>3. payload \in Seq(Byte)
  BY DataAssumption
<1>4. [conn |-> c, payload |-> payload] \in [conn: Conns, payload: Seq(Byte)]
  BY <1>3
<1>5. sent' \in Seq([conn: Conns, payload: Seq(Byte)])
  BY <1>4, AppendProperties DEF TypeOK, TakeId
<1> QED BY <1>1, <1>2, <1>5 DEF TypeOK

\* Between the calls of decode_data cache_ names a full builder; within
\* pop_last_packet it does not (see PacketCache).
CacheNamesFull ==
  cache # NoId => cache \in DOMAIN packets /\ packets[cache].full

\* Every step keeps the types; the pop needs the builder that cache_ names.
LEMMA TypeStep ==
  ASSUME TypeOK, CacheNamesFull, [Next]_vars
  PROVE  TypeOK'
<1>1. CASE UNCHANGED vars
  BY <1>1 DEF TypeOK, vars
<1>2. ASSUME NEW c \in Conns, NEW payload \in Payloads, EncodeAndSend(c, payload)
      PROVE  TypeOK'
  <2> DEFINE p == Parts(c, lastId[c], Len(sent) + 1, payload)
  <2>1. TakeId(c, payload)
    BY <1>2 DEF EncodeAndSend
  <2>2. p \in Seq(Part)
    BY <2>1, TakeIdType, PartsType
  <2>3. wire[c] \o p \in Seq(Part)
    BY <2>2, ConcatProperties DEF TypeOK
  <2>4. wire' \in [Conns -> Seq(Part)]
    BY <1>2, <2>3 DEF EncodeAndSend, TypeOK
  <2> QED BY <1>2, <2>1, <2>4, TakeIdType DEF EncodeAndSend, TypeOK
<1>3. ASSUME NEW c \in Conns, NEW payload \in Payloads, EncodeAndFail(c, payload)
      PROVE  TypeOK'
  <2> DEFINE p == Parts(c, lastId[c], Len(sent) + 1, payload)
             flight(k) == wire[c] \o SubSeq(p, 1, k)
  <2>1. TakeId(c, payload)
    BY <1>3 DEF EncodeAndFail
  <2>2. p \in Seq(Part)
    BY <2>1, TakeIdType, PartsType
  <2> HIDE DEF p
  <2>3. PICK k \in 0 .. Len(p) - 1 :
          \E m \in 0 .. Len(flight(k)) :
            /\ wire' = [wire EXCEPT ![c] = SubSeq(flight(k), 1, m)]
            /\ abandoned' = abandoned \cup {Len(sent) + 1}
                 \cup {flight(k)[i].uid : i \in m + 1 .. Len(flight(k))}
    BY <1>3 DEF EncodeAndFail, p
  <2>4. flight(k) \in Seq(Part)
    <3>1. SubSeq(p, 1, k) \in Seq(Part)
      BY <2>2, <2>3, PrefixType
    <3> QED BY <3>1, ConcatProperties DEF TypeOK
  <2> HIDE DEF flight
  <2>5. PICK m \in 0 .. Len(flight(k)) :
            /\ wire' = [wire EXCEPT ![c] = SubSeq(flight(k), 1, m)]
            /\ abandoned' = abandoned \cup {Len(sent) + 1}
                 \cup {flight(k)[i].uid : i \in m + 1 .. Len(flight(k))}
    BY <2>3
  <2>6. wire' \in [Conns -> Seq(Part)]
    BY <2>4, <2>5, PrefixType DEF TypeOK
  <2>7. \A i \in m + 1 .. Len(flight(k)) : flight(k)[i].uid \in Nat
    <3>1. \A i \in 1 .. Len(flight(k)) : flight(k)[i] \in Part
      BY <2>4
    <3>2. \A i \in m + 1 .. Len(flight(k)) : i \in 1 .. Len(flight(k))
      BY <2>4, <2>5
    <3> QED BY <3>1, <3>2 DEF Part
  <2>8. abandoned' \subseteq Nat
    BY <2>1, <2>5, <2>7, TakeIdType DEF TypeOK
  <2> QED BY <1>3, <2>1, <2>6, <2>8, TakeIdType DEF EncodeAndFail, TypeOK
<1>4. ASSUME NEW c \in Conns, Build(c)
      PROVE  TypeOK'
  <2>1. Head(wire[c]) \in Part /\ Tail(wire[c]) \in Seq(Part)
    BY <1>4 DEF Build, TypeOK
  <2>2. DOMAIN packets' \subseteq Byte /\ packets' \in [DOMAIN packets' -> Builder]
    BY <1>4, <2>1, BuildPacketType DEF Build
  <2>3. wire' \in [Conns -> Seq(Part)]
    BY <1>4, <2>1 DEF Build, TypeOK
  <2> QED BY <1>4, <2>2, <2>3 DEF Build, TypeOK
<1>5. ASSUME NEW c \in Conns, HaveFullPackets(c)
      PROVE  TypeOK'
  BY <1>5 DEF HaveFullPackets, FullIds, TypeOK
<1>6. ASSUME NEW c \in Conns, GetAndPopPacket(c), CacheNamesFull
      PROVE  TypeOK'
  <2>1. packets[cache] \in Builder
    BY <1>6 DEF GetAndPopPacket, CacheNamesFull, TypeOK
  <2>2. [conn |-> c, from |-> packets[cache].from, data |-> packets[cache].data]
          \in [conn: Conns, from: SUBSET Nat, data: Seq(Byte)]
    BY <2>1 DEF Builder
  <2> QED BY <1>6, <2>2 DEF GetAndPopPacket, TypeOK
<1>7. ASSUME NEW c \in Conns, GetAndPopUncached(c)
      PROVE  TypeOK'
  BY <1>7 DEF GetAndPopUncached, TypeOK
<1> QED BY <1>1, <1>2, <1>3, <1>4, <1>5, <1>6, <1>7 DEF Next, Decode

----------------------------------------------------------------------------
(* The cache and the full builders *)

\* Which full builders and which cache each step of the shared manager can
\* leave: only build_packet makes a builder full, at most one at a time.
LEMMA CacheStep ==
  ASSUME TypeOK, CacheNamesFull, [Next]_vars
  PROVE  CacheNamesFull'
<1>1. CASE UNCHANGED vars
  BY <1>1 DEF CacheNamesFull, vars
<1>2. ASSUME NEW c \in Conns, NEW payload \in Payloads,
             EncodeAndSend(c, payload) \/ EncodeAndFail(c, payload)
      PROVE  CacheNamesFull'
  BY <1>2 DEF CacheNamesFull, EncodeAndSend, EncodeAndFail
<1>3. ASSUME NEW c \in Conns, Build(c)
      PROVE  CacheNamesFull'
  <2>1. Head(wire[c]) \in Part
    BY <1>3 DEF Build, TypeOK
  <2> QED BY <1>3, <2>1, BuildPacketType DEF Build, CacheNamesFull
<1>4. ASSUME NEW c \in Conns, HaveFullPackets(c)
      PROVE  CacheNamesFull'
  BY <1>4 DEF HaveFullPackets, FullIds, CacheNamesFull
<1>5. ASSUME NEW c \in Conns, GetAndPopPacket(c)
      PROVE  CacheNamesFull'
  BY <1>5 DEF GetAndPopPacket, CacheNamesFull
<1>6. ASSUME NEW c \in Conns, GetAndPopUncached(c)
      PROVE  CacheNamesFull'
  BY <1>6 DEF GetAndPopUncached, CacheNamesFull
<1> QED BY <1>1, <1>2, <1>3, <1>4, <1>5, <1>6 DEF Next, Decode

\* The two facts hold in a manager nobody has used.
LEMMA InitType == Init => TypeOK /\ CacheNamesFull
<1> SUFFICES ASSUME Init PROVE TypeOK /\ CacheNamesFull
  OBVIOUS
<1>1. 0 \in Byte
  BY SizesAssumption DEF Byte
<1>2. DOMAIN packets = {} /\ packets \in [DOMAIN packets -> Builder]
  BY DEF Init
<1>3. /\ lastId \in [Conns -> Byte]
      /\ wire \in [Conns -> Seq(Part)]
      /\ pc \in [Conns -> {"decode", "query", "pop"}]
  BY <1>1 DEF Init
<1>4. /\ cache \in Byte \cup {NoId} /\ abandoned \subseteq Nat
      /\ broken \subseteq Conns
      /\ sent \in Seq([conn: Conns, payload: Seq(Byte)])
      /\ delivered \subseteq [conn: Conns, from: SUBSET Nat, data: Seq(Byte)]
  BY DEF Init
<1>5. ub \in BOOLEAN
  BY Zenon DEF Init
<1>6. CacheNamesFull
  BY DEF Init, CacheNamesFull
<1> QED BY <1>2, <1>3, <1>4, <1>5, <1>6 DEF TypeOK

\* The types and CacheNamesFull are inductive together.
LEMMA CacheNamed == Spec => [](TypeOK /\ CacheNamesFull)
<1>1. TypeOK /\ CacheNamesFull /\ [Next]_vars => (TypeOK /\ CacheNamesFull)'
  BY TypeStep, CacheStep
<1> QED BY <1>1, InitType, PTL DEF Spec

\* The type invariant alone: packet ids, offsets and sizes keep their widths.
THEOREM TypeCorrect == Spec => []TypeOK
  BY CacheNamed, PTL

\* Threads between build_packet and the return of decode_data.
Busy == {c \in Conns : pc[c] # "decode"}

\* A thread at its pop finds cache_ set, which only holds of a single thread.
CacheIsSet == ~ub /\ \A c \in Conns : pc[c] = "pop" => cache # NoId

\* One thread alone keeps it (the request loop of one tunnel needs this).
LEMMA PopStep ==
  ASSUME TypeOK, CacheIsSet, [Next]_vars,
         \A c, d \in Conns : c = d
  PROVE  CacheIsSet'
<1>1. CASE UNCHANGED vars
  BY <1>1 DEF CacheIsSet, vars
<1>2. ASSUME NEW c \in Conns, NEW payload \in Payloads,
             EncodeAndSend(c, payload) \/ EncodeAndFail(c, payload)
      PROVE  CacheIsSet'
  <2>1. UNCHANGED <<pc, cache, ub>>
    BY <1>2 DEF EncodeAndSend, EncodeAndFail
  <2> QED BY <2>1, Zenon DEF CacheIsSet
<1>3. ASSUME NEW c \in Conns, Build(c)
      PROVE  CacheIsSet'
  BY <1>3 DEF CacheIsSet, Build, TypeOK
<1>4. ASSUME NEW c \in Conns, HaveFullPackets(c)
      PROVE  CacheIsSet'
  <2>1. CASE FullIds = {}
    BY <1>4, <2>1 DEF CacheIsSet, HaveFullPackets, TypeOK
  <2>2. CASE FullIds # {}
    <3>1. PICK id \in FullIds : cache' = id
      BY <1>4, <2>2 DEF HaveFullPackets
    <3>2. cache' # NoId
      BY <3>1, BoundsAssumption DEF FullIds, TypeOK
    <3> QED BY <1>4, <3>2 DEF CacheIsSet, HaveFullPackets, TypeOK
  <2> QED BY <2>1, <2>2
<1>5. ASSUME NEW c \in Conns, GetAndPopPacket(c)
      PROVE  CacheIsSet'
  BY <1>5 DEF CacheIsSet, GetAndPopPacket, TypeOK
<1>6. ASSUME NEW c \in Conns, GetAndPopUncached(c)
      PROVE  CacheIsSet'
  BY <1>6 DEF CacheIsSet, GetAndPopUncached
<1> QED BY <1>1, <1>2, <1>3, <1>4, <1>5, <1>6 DEF Next, Decode

\* The two sets FullNeverLingers counts are finite.
LEMMA BusyAndFullFinite ==
  ASSUME TypeOK
  PROVE  /\ IsFiniteSet(Busy) /\ Cardinality(Busy) \in Nat
         /\ IsFiniteSet(FullIds) /\ Cardinality(FullIds) \in Nat
<1>1. IsFiniteSet(Busy)
  BY BoundsAssumption, FS_Subset DEF Busy
<1>2. IsFiniteSet(Byte)
  BY SizesAssumption, FS_Interval DEF Byte
<1>3. FullIds \in SUBSET Byte
  BY DEF FullIds, TypeOK
<1>4. IsFiniteSet(FullIds)
  BY <1>2, <1>3, FS_Subset
<1> QED BY <1>1, <1>4, FS_CardinalityType

\* One more element makes a finite set larger by at most one.
LEMMA AtMostOneMore ==
  ASSUME NEW S, IsFiniteSet(S), NEW x
  PROVE  IsFiniteSet(S \cup {x}) /\ Cardinality(S \cup {x}) <= Cardinality(S) + 1
<1>1. Cardinality(S) \in Nat
  BY FS_CardinalityType
<1>2. /\ IsFiniteSet(S \cup {x})
      /\ Cardinality(S \cup {x}) = IF x \in S THEN Cardinality(S) ELSE Cardinality(S) + 1
  BY FS_AddElement
<1> QED BY <1>1, <1>2

\* Every step keeps the number of full builders within the calls under way.
LEMMA LingerStep ==
  ASSUME TypeOK, TypeOK', CacheNamesFull, FullNeverLingers, [Next]_vars
  PROVE  FullNeverLingers'
<1> DEFINE full == Cardinality(FullIds)
           busy == Cardinality(Busy)
<1>1. /\ IsFiniteSet(Busy) /\ IsFiniteSet(FullIds)
      /\ full \in Nat /\ busy \in Nat /\ full <= busy
  BY BusyAndFullFinite DEF FullNeverLingers, Busy
<1>2. SUFFICES Cardinality(FullIds') <= Cardinality(Busy')
  BY DEF FullNeverLingers, Busy
<1>3. ASSUME FullIds' = FullIds, Busy' = Busy
      PROVE  Cardinality(FullIds') <= Cardinality(Busy')
  BY <1>1, <1>3
<1>4. CASE UNCHANGED vars
  <2>1. FullIds' = FullIds /\ Busy' = Busy
    BY <1>4 DEF FullIds, Busy, vars
  <2> QED BY <2>1, <1>3
<1>5. ASSUME NEW c \in Conns, NEW payload \in Payloads,
             EncodeAndSend(c, payload) \/ EncodeAndFail(c, payload)
      PROVE  Cardinality(FullIds') <= Cardinality(Busy')
  <2>1. FullIds' = FullIds /\ Busy' = Busy
    BY <1>5 DEF EncodeAndSend, EncodeAndFail, FullIds, Busy
  <2> QED BY <2>1, <1>3
<1>6. ASSUME NEW c \in Conns, Build(c)
      PROVE  Cardinality(FullIds') <= Cardinality(Busy')
  <2> DEFINE part == Head(wire[c])
  <2>1. part \in Part
    BY <1>6 DEF Build, TypeOK
  <2>2. FullIds' \subseteq FullIds \cup {part.id}
    BY <1>6, <2>1, BuildPacketType DEF Build, FullIds
  <2>3. Busy' = Busy \cup {c} /\ c \notin Busy
    BY <1>6 DEF Build, Busy, TypeOK
  <2>4. /\ IsFiniteSet(FullIds \cup {part.id})
        /\ Cardinality(FullIds \cup {part.id}) <= full + 1
    BY <1>1, AtMostOneMore
  <2>5. Cardinality(FullIds') <= full + 1
    <3>1. /\ Cardinality(FullIds') \in Nat
          /\ Cardinality(FullIds \cup {part.id}) \in Nat
          /\ Cardinality(FullIds') <= Cardinality(FullIds \cup {part.id})
      BY <2>2, <2>4, FS_Subset, FS_CardinalityType
    <3> QED BY <3>1, <2>4, <1>1
  <2>6. Cardinality(Busy') = busy + 1
    BY <1>1, <2>3, FS_AddElement
  <2>7. Cardinality(FullIds') \in Nat
    BY <2>2, <2>4, FS_Subset, FS_CardinalityType
  <2> QED BY <1>1, <2>5, <2>6, <2>7
<1>7. ASSUME NEW c \in Conns, HaveFullPackets(c)
      PROVE  Cardinality(FullIds') <= Cardinality(Busy')
  <2>1. FullIds' = FullIds
    BY <1>7 DEF HaveFullPackets, FullIds
  <2>2. CASE FullIds = {}
    <3>1. Cardinality(FullIds') = 0
      BY <2>1, <2>2, FS_EmptySet
    <3>2. Cardinality(Busy') \in Nat
      <4>1. Busy' \in SUBSET Conns
        BY DEF Busy
      <4> QED BY <4>1, BoundsAssumption, FS_Subset, FS_CardinalityType
    <3> QED BY <3>1, <3>2
  <2>3. CASE FullIds # {}
    <3>1. Busy' = Busy
      BY <1>7, <2>3 DEF HaveFullPackets, Busy, TypeOK
    <3> QED BY <2>1, <3>1, <1>3
  <2> QED BY <2>2, <2>3
<1>8. ASSUME NEW c \in Conns, GetAndPopPacket(c)
      PROVE  Cardinality(FullIds') <= Cardinality(Busy')
  <2>1. cache \in FullIds
    BY <1>8 DEF GetAndPopPacket, CacheNamesFull, FullIds
  <2>2. FullIds' = FullIds \ {cache}
    BY <1>8 DEF GetAndPopPacket, FullIds
  <2>3. Busy' = Busy \ {c} /\ c \in Busy
    BY <1>8 DEF GetAndPopPacket, Busy, TypeOK
  <2>4. Cardinality(FullIds') = full - 1
    BY <1>1, <2>1, <2>2, FS_RemoveElement
  <2>5. Cardinality(Busy') = busy - 1
    BY <1>1, <2>3, FS_RemoveElement
  <2> QED BY <1>1, <2>4, <2>5
<1>9. ASSUME NEW c \in Conns, GetAndPopUncached(c)
      PROVE  Cardinality(FullIds') <= Cardinality(Busy')
  <2>1. FullIds' = FullIds /\ Busy' = Busy
    BY <1>9 DEF GetAndPopUncached, FullIds, Busy
  <2> QED BY <2>1, <1>3
<1> QED BY <1>4, <1>5, <1>6, <1>7, <1>8, <1>9 DEF Next, Decode

\* However many threads share a manager, there are never more finished
\* packets in it than decode_data calls under way: each call that completes
\* a builder is followed by a pop of its own, though not always of that one.
THEOREM FullBuildersArePopped == Spec => []FullNeverLingers
<1>1. Init => FullNeverLingers
  <2> SUFFICES ASSUME Init PROVE FullNeverLingers
    OBVIOUS
  <2>1. FullIds = {} /\ {c \in Conns : pc[c] # "decode"} = {}
    BY DEF Init, FullIds
  <2> QED BY <2>1, FS_EmptySet DEF FullNeverLingers
<1>2. TypeOK /\ TypeOK' /\ CacheNamesFull /\ FullNeverLingers /\ [Next]_vars
        => FullNeverLingers'
  BY LingerStep
<1> QED BY <1>1, <1>2, CacheNamed, PTL DEF Spec

----------------------------------------------------------------------------
(* The bytes of the parts *)

\* What is delivered of payload p of connection c when all goes well.
WholeOf(c, p) == Proxy[c] \o SubSeq(p, 1, CarriedSize(Len(p)))

\* The payload is cut in two; the bytes of its first and its second part.
InTwo(p) == 2 * Split <= Len(p)
FirstOf(c, p) ==
  Proxy[c] \o SubSeq(p, 1, IF InTwo(p) THEN Split ELSE CarriedSize(Len(p)))
RestOf(p) == SubSeq(p, Split + 1, 2 * Split)

\* The records of packet u: the first, or only, part and the second one.
FirstPart(c, id, u, p) ==
  [id |-> id, offset |-> 0, orig |-> Len(WholeOf(c, p)),
   data |-> FirstOf(c, p), uid |-> u]
SecondPart(id, u, p) ==
  [id |-> id, offset |-> Split, orig |-> 2 * Split, data |-> RestOf(p),
   uid |-> u]

\* A piece of a payload, and what comes before it, as sequences of bytes.
LEMMA PieceType ==
  ASSUME NEW p \in Seq(Byte), NEW a \in 1 .. Len(p) + 1, NEW b \in a - 1 .. Len(p)
  PROVE  /\ SubSeq(p, a, b) \in Seq(Byte)
         /\ Len(SubSeq(p, a, b)) = b - a + 1
         /\ \A i \in 1 .. b - a + 1 : SubSeq(p, a, b)[i] = p[a + i - 1]
<1>1. \A i \in a .. b : p[i] \in Byte
  OBVIOUS
<1> QED BY <1>1, SubSeqProperties

\* The two parts of a packet, put side by side, are the whole of it; the sizes
\* stay below 2^16.
LEMMA DataShape ==
  ASSUME NEW c \in Conns, NEW p \in Payloads
  PROVE  /\ WholeOf(c, p) \in Seq(Byte) /\ FirstOf(c, p) \in Seq(Byte)
         /\ Len(WholeOf(c, p)) < ShortMod
         /\ Len(Proxy[c]) \in Nat /\ Len(Proxy[c]) > 0
         /\ Len(FirstOf(c, p)) > 0
         /\ ~InTwo(p) => FirstOf(c, p) = WholeOf(c, p)
         /\ InTwo(p) => /\ RestOf(p) \in Seq(Byte) /\ Len(RestOf(p)) = Split
                        /\ WholeOf(c, p) = FirstOf(c, p) \o RestOf(p)
                        /\ Len(FirstOf(c, p)) = Split + Len(Proxy[c])
                        /\ Len(WholeOf(c, p)) = 2 * Split + Len(Proxy[c])
<1> DEFINE n == Len(p)
           x == Proxy[c]
           k == CarriedSize(n)
<1>1. p \in Seq(Byte) /\ n \in Nat /\ n < ShortMod
  BY DataAssumption
<1>2. x \in Seq(Byte) /\ Len(x) \in Nat /\ Len(x) > 0 /\ Len(x) < Meta - 1
  BY DataAssumption, HeaderAssumption
<1> HIDE DEF x
<1>3. k = IF n < DataMax THEN n ELSE IF n < 2 * Split THEN Split ELSE 2 * Split
  BY <1>1, Quotient, SizesType DEF CarriedSize
<1>4. k \in 0 .. n /\ k + Len(x) < ShortMod
  BY <1>1, <1>2, <1>3, SizesType, SizesAssumption DEF DataMax
<1>5. InTwo(p) => k = 2 * Split
  BY <1>1, <1>3, SizesType DEF InTwo
<1>6. InTwo(p) => Split \in 0 .. n /\ 2 * Split \in 0 .. n
  BY <1>1, SizesType DEF InTwo
<1> HIDE DEF k
<1>7. SubSeq(p, 1, k) \in Seq(Byte) /\ Len(SubSeq(p, 1, k)) = k
  BY <1>1, <1>4, PieceType
<1>8. WholeOf(c, p) = x \o SubSeq(p, 1, k)
  BY DEF WholeOf, x, k
<1>9. WholeOf(c, p) \in Seq(Byte) /\ Len(WholeOf(c, p)) = Len(x) + k
  BY <1>2, <1>7, <1>8
<1>10. CASE ~InTwo(p)
  <2>1. FirstOf(c, p) = WholeOf(c, p)
    BY <1>10, <1>8 DEF FirstOf, x, k
  <2> QED BY <1>10, <2>1, <1>2, <1>4, <1>9 DEF x
<1>11. CASE InTwo(p)
  <2> DEFINE a == SubSeq(p, 1, Split)
             r == RestOf(p)
  <2>1. /\ a \in Seq(Byte) /\ Len(a) = Split
        /\ \A i \in 1 .. Split : a[i] = p[i]
    BY <1>1, <1>6, <1>11, SizesType, PieceType
  <2>2. /\ r \in Seq(Byte) /\ Len(r) = Split
        /\ \A i \in 1 .. Split : r[i] = p[Split + i]
    <3>1. Split + 1 \in 1 .. n + 1 /\ 2 * Split \in Split .. n
      BY <1>6, <1>11, SizesType
    <3>2. /\ r \in Seq(Byte) /\ Len(r) = 2 * Split - (Split + 1) + 1
          /\ \A i \in 1 .. 2 * Split - (Split + 1) + 1 : r[i] = p[Split + 1 + i - 1]
      BY <1>1, <3>1, SizesType, PieceType DEF RestOf
    <3>3. 2 * Split - (Split + 1) + 1 = Split
      BY SizesType
    <3>4. \A i \in 1 .. Split : Split + 1 + i - 1 = Split + i
      BY SizesType
    <3> QED BY <3>2, <3>3, <3>4
  <2>3. \A i \in 1 .. 2 * Split : SubSeq(p, 1, k)[i] = p[i]
    BY <1>1, <1>4, <1>5, <1>6, <1>11, PieceType
  <2>4. FirstOf(c, p) = x \o a
    BY <1>11 DEF FirstOf, x
  <2> HIDE DEF a, r
  <2>5. a \o r = SubSeq(p, 1, k)
    <3>1. Len(a \o r) = 2 * Split /\ a \o r \in Seq(Byte)
      BY <2>1, <2>2, SizesType
    <3>2. \A i \in 1 .. 2 * Split : (a \o r)[i] = p[i]
      <4> SUFFICES ASSUME NEW i \in 1 .. 2 * Split PROVE (a \o r)[i] = p[i]
        OBVIOUS
      <4>1. CASE i <= Split
        BY <4>1, <2>1, <2>2, SizesType
      <4>2. CASE i > Split
        <5>1. i - Split \in 1 .. Split /\ Split + (i - Split) = i
          BY <4>2, SizesType
        <5>2. (a \o r)[i] = r[i - Split]
          BY <4>2, <2>1, <2>2, SizesType
        <5> QED BY <5>1, <5>2, <2>2
      <4>3. i <= Split \/ i > Split
        BY SizesType
      <4> QED BY <4>1, <4>2, <4>3
    <3> QED BY <3>1, <3>2, <2>3, <1>5, <1>7, <1>11, SeqEqual
  <2>6. WholeOf(c, p) = FirstOf(c, p) \o r
    <3>1. x \in Seq(Byte) /\ a \in Seq(Byte) /\ r \in Seq(Byte)
      BY <1>2, <2>1, <2>2
    <3>2. (x \o a) \o r = x \o (a \o r)
      BY <3>1, ConcatAssociative
    <3> QED BY <3>2, <2>4, <2>5, <1>8
  <2>7. FirstOf(c, p) \in Seq(Byte) /\ Len(FirstOf(c, p)) = Split + Len(x)
    <3>1. x \in Seq(Byte) /\ a \in Seq(Byte) /\ Len(a) = Split
      BY <1>2, <2>1
    <3>2. x \o a \in Seq(Byte) /\ Len(x \o a) = Len(x) + Len(a)
      BY <3>1, ConcatProperties
    <3>3. Len(x) + Split = Split + Len(x)
      BY <1>2, SizesType
    <3> QED BY <2>4, <3>1, <3>2, <3>3
  <2>8. Len(WholeOf(c, p)) = 2 * Split + Len(x)
    BY <1>5, <1>9, <1>11, <1>2, SizesType
  <2>9. Split + Len(x) > 0
    BY <1>2, SizesType
  <2>10. Len(WholeOf(c, p)) < ShortMod
    BY <1>2, <1>4, <1>9
  <2> QED BY <1>2, <1>9, <1>11, <2>2, <2>6, <2>7, <2>8, <2>9, <2>10 DEF x, r
<1> QED BY <1>10, <1>11

\* What encode_data makes of a payload: its first part, and the second if it
\* is cut in two.
LEMMA PartsValue ==
  ASSUME NEW c \in Conns, NEW id, NEW u, NEW p \in Payloads
  PROVE  /\ Len(Parts(c, id, u, p)) = IF InTwo(p) THEN 2 ELSE 1
         /\ Parts(c, id, u, p)[1] = FirstPart(c, id, u, p)
         /\ InTwo(p) => Parts(c, id, u, p)[2] = SecondPart(id, u, p)
<1> DEFINE n     == Len(p)
           seps  == Separators(n)
           size  == SplitSize(n)
           proxy(i) == IF i = 1 THEN Proxy[c] ELSE <<>>
           data(i)  == proxy(i) \o SubSeq(p, seps[i].from + 1, seps[i].to)
           part(i)  == [id     |-> id,
                        offset |-> seps[i].from % ShortMod,
                        orig   |-> (size + Len(proxy(i))) % ShortMod,
                        data   |-> data(i),
                        uid    |-> u]
           all == [i \in 1 .. Len(seps) |-> part(i)]
<1>1. p \in Seq(Byte) /\ n \in Nat /\ n < ShortMod
  BY DataAssumption
<1>2. Parts(c, id, u, p) = all
  BY DEF Parts
<1> HIDE DEF n
<1>3. /\ InTwo(p) <=> 2 * Split <= n
      /\ seps[1].from = 0
      /\ seps[1].to = IF InTwo(p) THEN Split ELSE CarriedSize(n)
      /\ size = CarriedSize(n)
      /\ Len(seps) = IF InTwo(p) THEN 2 ELSE 1
      /\ InTwo(p) => /\ seps[2].from = Split /\ seps[2].to = 2 * Split
                     /\ CarriedSize(n) = 2 * Split
  <2>1. InTwo(p) <=> 2 * Split <= n
    BY DEF InTwo, n
  <2>2. CarriedSize(n) = IF n < DataMax THEN n ELSE IF n < 2 * Split THEN Split
                                                    ELSE 2 * Split
    BY <1>1, Quotient, SizesType DEF CarriedSize
  <2>3. size = CarriedSize(n)
    BY <1>1, SplitCovers
  <2>4. CASE n < DataMax
    <3>1. seps = <<[from |-> 0, to |-> n]>>
      BY <2>4, <1>1, SeparatorsValue
    <3>2. ~InTwo(p)
      BY <2>1, <2>4, <1>1, SizesType
    <3> QED BY <2>1, <2>2, <2>3, <2>4, <3>1, <3>2
  <2>5. CASE DataMax <= n /\ n < 2 * Split
    <3>1. seps = <<[from |-> 0, to |-> Split]>>
      BY <2>5, <1>1, SeparatorsValue
    <3>2. ~InTwo(p) /\ CarriedSize(n) = Split
      BY <2>1, <2>2, <2>5, <1>1, SizesType
    <3> QED BY <2>1, <2>3, <3>1, <3>2
  <2>6. CASE 2 * Split <= n
    <3>1. seps = <<[from |-> 0, to |-> Split], [from |-> Split, to |-> 2 * Split]>>
      BY <2>6, <1>1, SeparatorsValue
    <3>2. InTwo(p) /\ CarriedSize(n) = 2 * Split
      BY <2>1, <2>2, <2>6, <1>1, SizesType
    <3> QED BY <2>1, <2>3, <3>1, <3>2
  <2> QED BY <1>1, <2>4, <2>5, <2>6, SizesType
<1> HIDE DEF seps, size
<1>4. Len(all) = IF InTwo(p) THEN 2 ELSE 1
  BY <1>3
<1>5. all[1] = part(1) /\ (InTwo(p) => all[2] = part(2))
  <2> HIDE DEF part
  <2>1. \A i \in 1 .. Len(seps) : all[i] = part(i)
    OBVIOUS
  <2> HIDE DEF all
  <2>2. 1 \in 1 .. Len(seps) /\ (InTwo(p) => 2 \in 1 .. Len(seps))
    BY <1>3
  <2> QED BY <2>1, <2>2
<1> HIDE DEF all
<1>6. part(1) = FirstPart(c, id, u, p)
  <2>1. data(1) = FirstOf(c, p)
    <3>1. 0 + 1 = 1
      OBVIOUS
    <3>2. proxy(1) = Proxy[c]
      OBVIOUS
    <3> QED BY <1>3, <3>1, <3>2 DEF FirstOf, n
  <2>2. Len(WholeOf(c, p)) = CarriedSize(n) + Len(Proxy[c])
    <3>1. CarriedSize(n) \in 0 .. n
      BY <1>1, Quotient, SizesType DEF CarriedSize
    <3>2. /\ SubSeq(p, 1, CarriedSize(n)) \in Seq(Byte)
          /\ Len(SubSeq(p, 1, CarriedSize(n))) = CarriedSize(n)
      BY <1>1, <3>1, PieceType DEF n
    <3>3. Proxy[c] \in Seq(Byte)
      BY DataAssumption
    <3> QED BY <3>1, <3>2, <3>3 DEF WholeOf, n
  <2>3. Len(WholeOf(c, p)) \in Nat /\ Len(WholeOf(c, p)) < ShortMod
    BY DataShape
  <2>4. (size + Len(proxy(1))) % ShortMod = Len(WholeOf(c, p))
    <3>1. size + Len(proxy(1)) = Len(WholeOf(c, p))
      BY <1>3, <2>2
    <3> QED BY <3>1, <2>3, SizesAssumption
  <2>5. seps[1].from % ShortMod = 0
    BY <1>3, SizesAssumption
  <2> QED BY <2>1, <2>4, <2>5 DEF FirstPart
<1>7. ASSUME InTwo(p)
      PROVE  part(2) = SecondPart(id, u, p)
  <2>1. data(2) = RestOf(p)
    <3>1. RestOf(p) \in Seq(Byte)
      BY <1>7, DataShape
    <3>2. proxy(2) = <<>>
      OBVIOUS
    <3>3. SubSeq(p, seps[2].from + 1, seps[2].to) = RestOf(p)
      <4> HIDE DEF data, part, proxy
      <4> QED BY <1>3, <1>7 DEF RestOf
    <3>4. <<>> \o RestOf(p) = RestOf(p)
      BY <3>1
    <3> QED BY <3>2, <3>3, <3>4
  <2>2. 2 * Split < ShortMod /\ Split < ShortMod
    <3> HIDE DEF data, part, proxy
    <3>1. 2 * Split <= n
      BY <1>3, <1>7
    <3> QED BY <3>1, <1>1, SizesType, SizesAssumption
  <2>3. (size + Len(proxy(2))) % ShortMod = 2 * Split
    <3>1. size + Len(proxy(2)) = 2 * Split
      BY <1>3, <1>7, SizesType
    <3> QED BY <3>1, <2>2, SizesType, SizesAssumption
  <2>4. seps[2].from % ShortMod = Split
    BY <1>3, <1>7, <2>2, SizesType, SizesAssumption
  <2> QED BY <2>1, <2>3, <2>4 DEF SecondPart
<1> QED BY <1>2, <1>4, <1>5, <1>6, <1>7

\* No byte has the value of a second part's offset.
LEMMA OffsetIsNoByte ==
  ASSUME NEW data \in Seq(Byte)
  PROVE  FindByte(data, Split) = Len(data) + 1
<1>1. \A i \in 1 .. Len(data) : data[i] # Split
  <2>1. \A x \in Byte : x # Split
    BY SizesType, SizesAssumption, HeaderAssumption DEF Byte
  <2> QED BY <2>1
<1> QED BY <1>1 DEF FindByte

\* The constructor takes over the bytes of its part.
LEMMA NewBuilderValue ==
  ASSUME NEW part \in Part
  PROVE  NewBuilder(part) = [orig |-> part.orig, data |-> part.data,
                             full |-> Len(part.data) = part.orig,
                             from |-> {part.uid}]
<1> DEFINE b == [orig |-> part.orig, data |-> <<>>, full |-> FALSE, from |-> {}]
<1>1. part.data \in Seq(Byte)
  BY DEF Part
<1>2. FindByte(<<>>, part.offset) = 1
  BY DEF FindByte
<1>3. SubSeq(<<>>, 1, 0) \o part.data \o SubSeq(<<>>, 1, 0) = part.data
  BY <1>1
<1>4. b.orig = part.orig /\ b.data = <<>> /\ b.full = FALSE /\ b.from = {}
  OBVIOUS
<1> HIDE DEF b
<1>5. SubSeq(b.data, 1, 1 - 1) \o part.data \o SubSeq(b.data, 1, Len(b.data))
        = part.data
  BY <1>3, <1>4
<1>6. AddData(b, part) = [orig |-> b.orig, data |-> part.data,
                          full |-> b.full \/ Len(part.data) = b.orig,
                          from |-> b.from \cup {part.uid}]
  BY <1>2, <1>4, <1>5, Zenon DEF AddData
<1>7. (FALSE \/ Len(part.data) = part.orig) = (Len(part.data) = part.orig)
  OBVIOUS
<1>8. {} \cup {part.uid} = {part.uid}
  OBVIOUS
<1> QED BY <1>4, <1>6, <1>7, <1>8, Zenon DEF NewBuilder, b

\* However a part is placed in a builder, its bytes are added to those there.
LEMMA AddDataLength ==
  ASSUME NEW b \in Builder, NEW part \in Part
  PROVE  /\ Len(AddData(b, part).data) = Len(b.data) + Len(part.data)
         /\ AddData(b, part).full <=> (b.full \/ Len(b.data) + Len(part.data) = b.orig)
         /\ AddData(b, part).orig = b.orig
         /\ AddData(b, part).from = b.from \cup {part.uid}
<1> DEFINE at   == FindByte(b.data, part.offset)
           pre  == SubSeq(b.data, 1, at - 1)
           post == SubSeq(b.data, at, Len(b.data))
           all == pre \o part.data \o post
<1>1. b.data \in Seq(Byte) /\ part.data \in Seq(Byte)
  BY DEF Builder, Part
<1>2. at \in 1 .. Len(b.data) + 1
  BY <1>1, FindByteType
<1> HIDE DEF at
<1>3. pre \in Seq(Byte) /\ Len(pre) = at - 1
  <2>1. at - 1 \in 0 .. Len(b.data) /\ at - 1 - 1 + 1 = at - 1
    BY <1>1, <1>2
  <2> QED BY <1>1, <2>1, PieceType
<1>4. post \in Seq(Byte) /\ Len(post) = Len(b.data) - at + 1
  <2>1. Len(b.data) \in at - 1 .. Len(b.data)
    BY <1>1, <1>2
  <2> QED BY <1>1, <1>2, <2>1, PieceType
<1> HIDE DEF pre, post
<1>5. Len(all) = Len(b.data) + Len(part.data)
  <2>1. Len(all) = Len(pre) + Len(part.data) + Len(post)
    <3>1. /\ pre \o part.data \in Seq(Byte)
          /\ Len(pre \o part.data) = Len(pre) + Len(part.data)
      BY <1>1, <1>3, ConcatProperties
    <3>2. Len((pre \o part.data) \o post) = Len(pre \o part.data) + Len(post)
      BY <3>1, <1>4, ConcatProperties
    <3> QED BY <3>1, <3>2
  <2> HIDE DEF all
  <2>2. Len(b.data) \in Nat /\ Len(part.data) \in Nat
    BY <1>1
  <2>3. at \in Int /\ Len(pre) = at - 1 /\ Len(post) = Len(b.data) - at + 1
    BY <1>2, <1>3, <1>4, <2>2
  <2> DEFINE old   == Len(b.data)
             added == Len(part.data)
  <2> HIDE DEF old, added
  <2>4. old \in Nat /\ added \in Nat
    BY <2>2 DEF old, added
  <2>5. Len(all) = (at - 1) + added + (old - at + 1)
    BY <2>1, <2>3 DEF old, added
  <2>6. (at - 1) + added + (old - at + 1) = old + added
    BY <2>3, <2>4
  <2> QED BY <2>5, <2>6 DEF old, added
<1> HIDE DEF all
<1>6. AddData(b, part) = [orig |-> b.orig, data |-> all,
                          full |-> b.full \/ Len(all) = b.orig,
                          from |-> b.from \cup {part.uid}]
  BY DEF AddData, all, pre, post, at
<1> DEFINE new == AddData(b, part)
<1> HIDE DEF new
<1>7. new = [orig |-> b.orig, data |-> all, full |-> b.full \/ Len(all) = b.orig,
             from |-> b.from \cup {part.uid}]
  BY <1>6 DEF new
<1>8. b.full \in BOOLEAN
  BY DEF Builder
<1>9. new.full <=> (b.full \/ Len(all) = b.orig)
  BY <1>7, <1>8
<1>10. new.orig = b.orig /\ new.data = all /\ new.from = b.from \cup {part.uid}
  BY <1>7
<1> QED BY <1>5, <1>9, <1>10 DEF new

\* A second part completes the first part of its packet.
LEMMA AddSecond ==
  ASSUME NEW b \in Builder, NEW c \in Conns, NEW p \in Payloads, InTwo(p),
         NEW part \in Part, part.offset = Split, part.data = RestOf(p),
         b.data = FirstOf(c, p), b.orig = Len(WholeOf(c, p))
  PROVE  AddData(b, part).full /\ AddData(b, part).data = WholeOf(c, p)
<1> DEFINE f == FirstOf(c, p)
           r == RestOf(p)
<1>1. /\ f \in Seq(Byte) /\ r \in Seq(Byte)
      /\ WholeOf(c, p) = f \o r
  BY DataShape
<1> HIDE DEF f, r
<1>2. FindByte(f, part.offset) = Len(f) + 1
  BY <1>1, OffsetIsNoByte
<1>3. SubSeq(f, 1, Len(f)) = f /\ SubSeq(f, Len(f) + 1, Len(f)) = <<>>
  BY <1>1
<1>4. f \o r \o <<>> = f \o r
  BY <1>1
<1>5. Len(f) + 1 - 1 = Len(f)
  BY <1>1
<1>6. AddData(b, part) = [orig |-> b.orig, data |-> f \o r,
                          full |-> b.full \/ Len(f \o r) = b.orig,
                          from |-> b.from \cup {part.uid}]
  <2>1. b.data = f /\ part.data = r
    BY DEF f, r
  <2>2. SubSeq(b.data, 1, FindByte(b.data, part.offset) - 1) \o part.data
          \o SubSeq(b.data, FindByte(b.data, part.offset), Len(b.data)) = f \o r
    <3>1. SubSeq(f, 1, Len(f)) \o r \o SubSeq(f, Len(f) + 1, Len(f)) = f \o r
      BY <1>3, <1>4
    <3>2. FindByte(b.data, part.offset) = Len(f) + 1
      BY <1>2, <2>1
    <3>3. FindByte(b.data, part.offset) - 1 = Len(f)
      BY <1>5, <3>2
    <3> QED BY <3>1, <3>2, <3>3, <2>1
  <2> QED BY <2>2, Zenon DEF AddData
<1>7. Len(f \o r) = b.orig
  BY <1>1
<1>8. b.full \in BOOLEAN
  BY DEF Builder
<1> DEFINE new == AddData(b, part)
<1> HIDE DEF new
<1>9. new = [orig |-> b.orig, data |-> f \o r,
             full |-> b.full \/ Len(f \o r) = b.orig,
             from |-> b.from \cup {part.uid}]
  BY <1>6 DEF new
<1>10. new.data = f \o r /\ new.full
  BY <1>7, <1>8, <1>9
<1> QED BY <1>1, <1>10 DEF new

\* The fields of the two kinds of records.
LEMMA PartFields ==
  ASSUME NEW c, NEW id, NEW u, NEW p
  PROVE  /\ FirstPart(c, id, u, p).offset = 0 /\ FirstPart(c, id, u, p).uid = u
         /\ FirstPart(c, id, u, p).id = id
         /\ SecondPart(id, u, p).offset = Split /\ SecondPart(id, u, p).uid = u
         /\ SecondPart(id, u, p).id = id
         /\ Split # 0
  BY SizesType DEF FirstPart, SecondPart

\* What encode_and_send does to the stream, whether it succeeds or not: what is
\* in flight stays or is cut, and the parts of the new packet follow.
LEMMA EncodeStream ==
  ASSUME TypeOK, NEW c \in Conns, NEW payload \in Payloads,
         EncodeAndSend(c, payload) \/ EncodeAndFail(c, payload)
  PROVE  LET new == Len(sent) + 1
         IN  /\ abandoned \subseteq abandoned' /\ Len(wire'[c]) \in Nat
             /\ wire' = [wire EXCEPT ![c] = wire'[c]]
             /\ broken \subseteq broken'
             /\ \A i \in 1 .. Len(wire'[c]) :
                  \/ i <= Len(wire[c]) /\ wire'[c][i] = wire[c][i]
                  \/ /\ i = Len(wire[c]) + 1
                     /\ wire'[c][i] = FirstPart(c, lastId[c], new, payload)
                  \/ /\ i = Len(wire[c]) + 2 /\ InTwo(payload)
                     /\ wire'[c][i] = SecondPart(lastId[c], new, payload)
             /\ \A i \in 1 .. Len(wire[c]) :
                  i > Len(wire'[c]) => wire[c][i].uid \in abandoned'
             /\ InTwo(payload) /\ Len(wire'[c]) < Len(wire[c]) + 2 =>
                  new \in abandoned'
             /\ \/ c \in broken'
                \/ Len(wire'[c]) = Len(wire[c]) + (IF InTwo(payload) THEN 2 ELSE 1)
<1> DEFINE w     == wire[c]
           new   == Len(sent) + 1
           first == FirstPart(c, lastId[c], new, payload)
           snd   == SecondPart(lastId[c], new, payload)
           parts == Parts(c, lastId[c], new, payload)
           Sent(s) == \A i \in 1 .. Len(s) :
                        \/ i <= Len(w) /\ s[i] = w[i]
                        \/ i = Len(w) + 1 /\ s[i] = first
                        \/ i = Len(w) + 2 /\ InTwo(payload) /\ s[i] = snd
<1>1. w \in Seq(Part) /\ Len(w) \in Nat
  BY DEF TypeOK
<1>2. TakeId(c, payload)
  BY DEF EncodeAndSend, EncodeAndFail
<1>3. parts \in Seq(Part)
  BY <1>1, <1>2, TakeIdType, PartsType
<1>4. /\ Len(parts) = IF InTwo(payload) THEN 2 ELSE 1
      /\ parts[1] = first /\ (InTwo(payload) => parts[2] = snd)
  BY <1>1, PartsValue
<1> HIDE DEF w, parts, first, snd
<1>5. ASSUME NEW k \in 0 .. Len(parts)
      PROVE  /\ w \o SubSeq(parts, 1, k) \in Seq(Part)
             /\ Len(w \o SubSeq(parts, 1, k)) = Len(w) + k
             /\ Sent(w \o SubSeq(parts, 1, k))
             /\ \A i \in 1 .. Len(w) : (w \o SubSeq(parts, 1, k))[i] = w[i]
  <2> DEFINE q == SubSeq(parts, 1, k)
             f == w \o q
  <2>1. q \in Seq(Part)
    BY <1>3, PrefixType
  <2>2. Len(q) = k /\ \A i \in 1 .. k : q[i] = parts[i]
    BY <1>3, <1>4
  <2> HIDE DEF q
  <2>3. /\ f \in Seq(Part) /\ Len(f) = Len(w) + k
        /\ \A i \in 1 .. Len(w) + k : f[i] = IF i <= Len(w) THEN w[i] ELSE q[i - Len(w)]
    BY <1>1, <2>1, <2>2, ConcatProperties
  <2>4. Sent(f)
    <3> SUFFICES ASSUME NEW i \in 1 .. Len(f)
                 PROVE  \/ i <= Len(w) /\ f[i] = w[i]
                        \/ i = Len(w) + 1 /\ f[i] = first
                        \/ i = Len(w) + 2 /\ InTwo(payload) /\ f[i] = snd
      OBVIOUS
    <3>1. i \in 1 .. Len(w) + k
      BY <2>3
    <3> HIDE DEF f
    <3>2. CASE i <= Len(w)
      BY <2>3, <3>1, <3>2
    <3>3. CASE i > Len(w)
      <4>1. /\ i - Len(w) \in 1 .. k
            /\ i - Len(w) = 1 \/ (i - Len(w) = 2 /\ InTwo(payload))
        BY <1>1, <1>4, <3>1, <3>3
      <4>2. f[i] = parts[i - Len(w)]
        BY <1>1, <2>2, <2>3, <3>1, <3>3, <4>1
      <4>3. CASE i - Len(w) = 1
        <5>1. i = Len(w) + 1
          BY <1>1, <3>1, <4>3
        <5> QED BY <5>1, <4>2, <4>3, <1>4
      <4>4. CASE i - Len(w) = 2 /\ InTwo(payload)
        <5>1. i = Len(w) + 2
          BY <1>1, <3>1, <4>4
        <5> QED BY <5>1, <4>2, <4>4, <1>4
      <4> QED BY <4>1, <4>3, <4>4
    <3> QED BY <1>1, <3>1, <3>2, <3>3
  <2>5. \A i \in 1 .. Len(w) : f[i] = w[i]
    BY <1>1, <2>3
  <2> QED BY <2>3, <2>4, <2>5 DEF q
<1>6. CASE EncodeAndSend(c, payload)
  <2>1. /\ wire'[c] = w \o parts /\ abandoned' = abandoned /\ broken' = broken
        /\ wire' = [wire EXCEPT ![c] = wire'[c]]
    BY <1>6 DEF EncodeAndSend, TypeOK, w, parts
  <2>2. SubSeq(parts, 1, Len(parts)) = parts /\ Len(parts) \in 0 .. Len(parts)
    BY <1>3
  <2>3. Sent(wire'[c]) /\ Len(wire'[c]) = Len(w) + Len(parts)
    BY <1>5, <2>1, <2>2
  <2>4. Len(wire'[c]) > Len(w) /\ (InTwo(payload) => Len(wire'[c]) = Len(w) + 2)
    BY <1>1, <1>4, <2>3
  <2>5. \A i \in 1 .. Len(w) : ~(i > Len(wire'[c]))
    BY <1>1, <2>4, <2>3, <1>4
  <2>6. ~(InTwo(payload) /\ Len(wire'[c]) < Len(w) + 2)
    BY <1>1, <2>4
  <2>7. Len(wire'[c]) \in Nat
    BY <1>1, <1>4, <2>3
  <2>8. Len(wire'[c]) = Len(w) + (IF InTwo(payload) THEN 2 ELSE 1)
    BY <1>4, <2>3
  <2> QED BY <2>1, <2>3, <2>5, <2>6, <2>7, <2>8 DEF w, first, snd
<1>7. CASE EncodeAndFail(c, payload)
  <2> DEFINE f(k) == w \o SubSeq(parts, 1, k)
  <2>1. PICK k \in 0 .. Len(parts) - 1 :
          \E m \in 0 .. Len(f(k)) :
            /\ wire' = [wire EXCEPT ![c] = SubSeq(f(k), 1, m)]
            /\ abandoned' = abandoned \cup {new}
                 \cup {f(k)[i].uid : i \in m + 1 .. Len(f(k))}
    BY <1>7 DEF EncodeAndFail, w, parts
  <2>2. k \in 0 .. Len(parts)
    BY <1>4, <2>1
  <2>3. /\ f(k) \in Seq(Part) /\ Len(f(k)) = Len(w) + k /\ Sent(f(k))
        /\ \A i \in 1 .. Len(w) : f(k)[i] = w[i]
    BY <1>5, <2>2
  <2> DEFINE g == f(k)
  <2>4. PICK m \in 0 .. Len(g) :
            /\ wire' = [wire EXCEPT ![c] = SubSeq(g, 1, m)]
            /\ abandoned' = abandoned \cup {new}
                 \cup {g[i].uid : i \in m + 1 .. Len(g)}
    BY <2>1
  <2>5. g \in Seq(Part) /\ Len(g) = Len(w) + k /\ Sent(g)
        /\ \A i \in 1 .. Len(w) : g[i] = w[i]
    BY <2>3
  <2> HIDE DEF g, f
  <2>6. wire'[c] = SubSeq(g, 1, m)
    BY <2>4 DEF TypeOK
  <2>7. m \in Nat /\ m <= Len(g) /\ Len(g) \in Nat
    BY <2>4, <2>5
  <2>8. Len(wire'[c]) = m /\ \A i \in 1 .. m : wire'[c][i] = g[i]
    BY <2>5, <2>6, <2>7
  <2>9. Sent(wire'[c])
    <3>1. \A i \in 1 .. m : i \in 1 .. Len(g)
      BY <2>7
    <3> QED BY <2>5, <2>8, <3>1
  <2>10. \A i \in 1 .. Len(w) : i > Len(wire'[c]) => w[i].uid \in abandoned'
    <3> SUFFICES ASSUME NEW i \in 1 .. Len(w), i > m
                 PROVE  w[i].uid \in abandoned'
      BY <2>8
    <3>1. i \in m + 1 .. Len(g)
      BY <1>1, <1>4, <2>1, <2>5, <2>7
    <3>2. g[i].uid \in abandoned'
      BY <2>4, <3>1
    <3> QED BY <2>5, <3>2
  <2>11. abandoned \subseteq abandoned' /\ new \in abandoned'
    BY <2>4
  <2>12. /\ broken \subseteq broken' /\ c \in broken'
         /\ wire' = [wire EXCEPT ![c] = wire'[c]]
    BY <1>7, <2>4, <2>6 DEF EncodeAndFail
  <2> QED BY <2>7, <2>8, <2>9, <2>10, <2>11, <2>12 DEF w, first, snd
<1> QED BY <1>6, <1>7

----------------------------------------------------------------------------
(* Packets of tunnels that do not meet: the inductive invariant *)

\* Ids are given out one after the other.
SentOn(c) == {v \in 1 .. Len(sent) : sent[v].conn = c}
Counted   == \A c \in Conns : lastId[c] = Cardinality(SentOn(c)) % ByteMod

SentPayloads == \A u \in 1 .. Len(sent) : sent[u].payload \in Payloads

\* A record of connection c is a part of a packet that c has sent, under the
\* id of that packet.
RecordOf(c, x) ==
  /\ x.uid \in 1 .. Len(sent) /\ sent[x.uid].conn = c /\ x.id = IdOf(x.uid)
  /\ \/ x = FirstPart(c, x.id, x.uid, sent[x.uid].payload)
     \/ /\ InTwo(sent[x.uid].payload)
        /\ x = SecondPart(x.id, x.uid, sent[x.uid].payload)

RecordsInFlight(c) == \A i \in 1 .. Len(wire[c]) : RecordOf(c, wire[c][i])

\* x and y are the two parts of one packet.
TwoParts(x, y) ==
  x.offset = 0 /\ y.offset = Split /\ x.uid = y.uid /\ x.id = y.id

\* Only at the head of a stream is a second part without its first, and only at
\* the end of a broken one a first part without its second.
RecordsPaired(c) ==
  \A i \in 1 .. Len(wire[c]) :
    /\ wire[c][i].offset = Split /\ i > 1 => TwoParts(wire[c][i - 1], wire[c][i])
    /\ wire[c][i].offset = 0 /\ InTwo(sent[wire[c][i].uid].payload) =>
         \/ i = Len(wire[c]) /\ c \in broken
         \/ i < Len(wire[c]) /\ TwoParts(wire[c][i], wire[c][i + 1])

\* Packets are in flight in the order in which they were sent.
RecordsOrdered(c) ==
  \A i, j \in 1 .. Len(wire[c]) :
    i < j /\ wire[c][j].offset = 0 => wire[c][i].uid < wire[c][j].uid

\* A builder was fed by packets with its id, each older than those of the same
\* connection that have yet to begin.
FedBy(id, u) ==
  /\ u \in 1 .. Len(sent) /\ IdOf(u) = id
  /\ \A i \in 1 .. Len(wire[sent[u].conn]) :
       wire[sent[u].conn][i].offset = 0 => u < wire[sent[u].conn][i].uid

FedById ==
  \A id \in DOMAIN packets :
    packets[id].from # {} /\ \A u \in packets[id].from : FedBy(id, u)

\* Packet u falls under neither exception of IntactUnlessIdShared.
Clean(u) == ~SharesId(u) /\ ~TookForeign(sent[u].conn)

\* Builder b of id holds packet u, payload p of connection c, and nothing else:
\* all of it, or the first part, while the second is the next record of c or
\* is lost.
HoldsOne(b, id, u, c, p) ==
  /\ b.from = {u} /\ b.orig = Len(WholeOf(c, p))
  /\ \/ /\ b.full /\ b.data = WholeOf(c, p)
        /\ Len(wire[c]) > 0 => wire[c][1].offset = 0
     \/ /\ ~b.full /\ b.data = FirstOf(c, p) /\ InTwo(p)
        /\ \/ Len(wire[c]) = 0 /\ c \in broken
           \/ Len(wire[c]) > 0 /\ wire[c][1] = SecondPart(id, u, p)

CleanHoldsOne ==
  \A id \in DOMAIN packets : \A u \in packets[id].from :
    Clean(u) => HoldsOne(packets[id], id, u, sent[u].conn, sent[u].payload)

\* A second part at the head of a stream finds the first in its builder.
FirstIsThere(c) ==
  Len(wire[c]) > 0 /\ wire[c][1].offset = Split /\ Clean(wire[c][1].uid) =>
    /\ wire[c][1].id \in DOMAIN packets
    /\ wire[c][1].uid \in packets[wire[c][1].id].from

\* A full builder that no other connection has fed is popped by the very call
\* of decode_data that filled it, unless that call pops another one.
OwnFull(c) == {id \in FullIds : \A u \in packets[id].from : sent[u].conn = c}
OwnIsPopped(c) ==
  ~TookForeign(c) =>
    /\ pc[c] = "decode" => OwnFull(c) = {}
    /\ \A i, j \in OwnFull(c) : i = j

DeliveredSent == \A d \in delivered : d.from \subseteq 1 .. Len(sent)

StreamOf(c) == RecordsInFlight(c) /\ RecordsPaired(c) /\ RecordsOrdered(c)
StreamsInv  == SentPayloads /\ \A c \in Conns : StreamOf(c)
HoldersInv  == /\ FedById /\ CleanHoldsOne
               /\ \A c \in Conns : FirstIsThere(c) /\ OwnIsPopped(c)
IntactInv ==
  /\ TypeOK /\ CacheNamesFull /\ Counted /\ StreamsInv /\ HoldersInv
  /\ DeliveredSent /\ IntactUnlessIdShared

----------------------------------------------------------------------------
(* Ids *)

\* Quotient and remainder are the only ones.
LEMMA Remainder ==
  ASSUME NEW m \in Nat \ {0}, NEW n \in Nat, NEW q \in Int,
         NEW r \in 0 .. m - 1, n = m * q + r
  PROVE  n % m = r
<1> DEFINE Q == n \div m
           R == n % m
<1>1. Q \in Int /\ R \in 0 .. m - 1 /\ n = m * Q + R
  OBVIOUS
<1> HIDE DEF Q, R
<1>2. ~(Q >= q + 1)
  <2> SUFFICES ASSUME Q >= q + 1 PROVE FALSE
    OBVIOUS
  <2>1. m * Q >= m * (q + 1)
    BY <1>1
  <2>2. m * (q + 1) = m * q + m
    OBVIOUS
  <2> QED BY <1>1, <2>1, <2>2
<1>3. ~(q >= Q + 1)
  <2> SUFFICES ASSUME q >= Q + 1 PROVE FALSE
    OBVIOUS
  <2>1. m * q >= m * (Q + 1)
    BY <1>1
  <2>2. m * (Q + 1) = m * Q + m
    BY <1>1
  <2> QED BY <1>1, <2>1, <2>2
<1>4. Q = q
  BY <1>1, <1>2, <1>3
<1>5. R = r
  BY <1>1, <1>4
<1> QED BY <1>5 DEF R

\* A counter that wraps at m stays equal to the remainder of the true count.
LEMMA CountOn ==
  ASSUME NEW m \in Nat \ {0}, NEW a \in Nat
  PROVE  ((a % m) + 1) % m = (a + 1) % m
<1> DEFINE q == a \div m
           r == a % m
<1>1. q \in Int /\ r \in 0 .. m - 1 /\ a = m * q + r
  OBVIOUS
<1> HIDE DEF q, r
<1>2. CASE r + 1 < m
  <2>1. r + 1 \in 0 .. m - 1 /\ r + 1 \in Nat /\ a + 1 \in Nat
    BY <1>1, <1>2
  <2>2. a + 1 = m * q + (r + 1) /\ r + 1 = m * 0 + (r + 1)
    BY <1>1
  <2>3. (a + 1) % m = r + 1
    BY <1>1, <2>1, <2>2, Remainder
  <2>4. (r + 1) % m = r + 1
    BY <2>1, <2>2, Remainder
  <2> QED BY <2>3, <2>4 DEF r
<1>3. CASE r + 1 = m
  <2>1. 0 \in 0 .. m - 1 /\ m \in Nat /\ a + 1 \in Nat /\ q + 1 \in Int
    BY <1>1
  <2>2. a + 1 = m * (q + 1) + 0 /\ m = m * 1 + 0
    BY <1>1, <1>3
  <2>3. (a + 1) % m = 0
    BY <2>1, <2>2, Remainder
  <2>4. m % m = 0
    BY <2>1, <2>2, Remainder
  <2> QED BY <1>3, <2>3, <2>4 DEF r
<1> QED BY <1>1, <1>2, <1>3

\* The packet that is sent becomes the last one.
LEMMA SentGrows ==
  ASSUME TypeOK, NEW c \in Conns, NEW payload \in Payloads,
         EncodeAndSend(c, payload) \/ EncodeAndFail(c, payload)
  PROVE  /\ Len(sent) \in Nat /\ Len(sent') = Len(sent) + 1
         /\ \A u \in 1 .. Len(sent) : u \in 1 .. Len(sent') /\ sent'[u] = sent[u]
         /\ \A u \in 1 .. Len(sent') : u \in 1 .. Len(sent) \/ u = Len(sent) + 1
         /\ Len(sent) + 1 \in 1 .. Len(sent')
         /\ sent'[Len(sent) + 1].conn = c /\ sent'[Len(sent) + 1].payload = payload
         /\ lastId' = [lastId EXCEPT ![c] = (@ + 1) % ByteMod]
         /\ UNCHANGED <<packets, cache, pc, delivered>>
<1>1. sent \in Seq([conn: Conns, payload: Seq(Byte)]) /\ Len(sent) \in Nat
  BY DEF TypeOK
<1>2. /\ sent' = Append(sent, [conn |-> c, payload |-> payload])
      /\ lastId' = [lastId EXCEPT ![c] = (@ + 1) % ByteMod]
      /\ UNCHANGED <<packets, cache, pc, delivered>>
  BY DEF EncodeAndSend, EncodeAndFail, TakeId
<1>3. /\ Len(sent') = Len(sent) + 1
      /\ \A u \in 1 .. Len(sent) : sent'[u] = sent[u]
      /\ sent'[Len(sent) + 1] = [conn |-> c, payload |-> payload]
  BY <1>1, <1>2
<1>4. /\ \A u \in 1 .. Len(sent) : u \in 1 .. Len(sent')
      /\ \A u \in 1 .. Len(sent') : u \in 1 .. Len(sent) \/ u = Len(sent) + 1
      /\ Len(sent) + 1 \in 1 .. Len(sent')
  BY <1>1, <1>3
<1>5. sent'[Len(sent) + 1].conn = c /\ sent'[Len(sent) + 1].payload = payload
  BY <1>3
<1> QED BY <1>1, <1>2, <1>3, <1>4, <1>5

\* The packets that were sent keep their ids, and share them for good.
LEMMA IdsStay ==
  ASSUME Len(sent) \in Nat,
         \A u \in 1 .. Len(sent) : u \in 1 .. Len(sent') /\ sent'[u] = sent[u]
  PROVE  \A u \in 1 .. Len(sent) :
           /\ IdOf(u)' = IdOf(u)
           /\ SharesId(u) => SharesId(u)'
<1>1. ASSUME NEW u \in 1 .. Len(sent) PROVE IdOf(u)' = IdOf(u)
  <2>1. \A v \in 1 .. u - 1 : v \in 1 .. Len(sent)
    OBVIOUS
  <2>2. {v \in 1 .. u - 1 : sent'[v].conn = sent'[u].conn}
          = {v \in 1 .. u - 1 : sent[v].conn = sent[u].conn}
    BY <2>1
  <2> QED BY <2>2 DEF IdOf
<1>2. ASSUME NEW u \in 1 .. Len(sent), SharesId(u) PROVE SharesId(u)'
  <2>1. PICK v \in 1 .. Len(sent) : sent[v].conn # sent[u].conn /\ IdOf(v) = IdOf(u)
    BY <1>2 DEF SharesId
  <2>2. /\ v \in 1 .. Len(sent') /\ sent'[v].conn # sent'[u].conn
        /\ IdOf(v)' = IdOf(u)'
    BY <1>1, <2>1
  <2> QED BY <2>2 DEF SharesId
<1> QED BY <1>1, <1>2

\* The new packet has the id that TakeId gave out, and the count goes on.
LEMMA NewId ==
  ASSUME TypeOK, Counted, NEW c \in Conns, NEW payload \in Payloads,
         EncodeAndSend(c, payload) \/ EncodeAndFail(c, payload),
         NEW new, new = Len(sent) + 1
  PROVE  IdOf(new)' = lastId[c] /\ Counted'
<1>1. /\ Len(sent) \in Nat /\ Len(sent') = new
      /\ \A u \in 1 .. Len(sent) : u \in 1 .. Len(sent') /\ sent'[u] = sent[u]
      /\ \A u \in 1 .. Len(sent') : u \in 1 .. Len(sent) \/ u = new
      /\ new \in 1 .. Len(sent')
      /\ sent'[new].conn = c
      /\ lastId' = [lastId EXCEPT ![c] = (@ + 1) % ByteMod]
  BY SentGrows
<1>2. lastId \in [Conns -> Byte] /\ ByteMod \in Nat \ {0}
  BY SizesAssumption DEF TypeOK
<1>3. ASSUME NEW d
      PROVE  /\ IsFiniteSet(SentOn(d)) /\ Cardinality(SentOn(d)) \in Nat
             /\ new \notin SentOn(d)
  <2>1. IsFiniteSet(1 .. Len(sent))
    <3>1. PICK n \in Int : n = Len(sent)
      BY <1>1
    <3>2. IsFiniteSet(1 .. n)
      BY FS_Interval
    <3> QED BY <3>1, <3>2
  <2>2. SentOn(d) \in SUBSET (1 .. Len(sent)) /\ new \notin SentOn(d)
    BY <1>1 DEF SentOn
  <2> QED BY <2>1, <2>2, FS_Subset, FS_CardinalityType
<1>4. IdOf(new)' = lastId[c]
  <2>1. 1 .. new - 1 = 1 .. Len(sent)
    BY <1>1
  <2>2. {v \in 1 .. new - 1 : sent'[v].conn = sent'[new].conn} = SentOn(c)
    BY <1>1, <2>1 DEF SentOn
  <2> QED BY <2>2 DEF IdOf, Counted
<1>5. ASSUME NEW d \in Conns
      PROVE  lastId'[d] = Cardinality(SentOn(d)') % ByteMod
  <2>1. CASE d = c
    <3>1. SentOn(d)' = SentOn(c) \cup {new}
      BY <1>1, <2>1 DEF SentOn
    <3>2. Cardinality(SentOn(d)') = Cardinality(SentOn(c)) + 1
      BY <1>3, <3>1, FS_AddElement
    <3>3. lastId'[c] = ((Cardinality(SentOn(c)) % ByteMod) + 1) % ByteMod
      BY <1>1, <1>2 DEF Counted
    <3>4. Cardinality(SentOn(c)) \in Nat
      BY <1>3
    <3> QED BY <1>2, <2>1, <3>2, <3>3, <3>4, CountOn
  <2>2. CASE d # c
    <3>1. SentOn(d)' = SentOn(d)
      BY <1>1, <2>2 DEF SentOn
    <3>2. lastId'[d] = lastId[d]
      BY <1>1, <1>2, <2>2
    <3> QED BY <3>1, <3>2 DEF Counted
  <2> QED BY <2>1, <2>2
<1> QED BY <1>4, <1>5 DEF Counted

\* Whether a packet is clean can only be lost.
LEMMA CleanBefore ==
  ASSUME Len(sent) \in Nat, DeliveredSent,
         \A u \in 1 .. Len(sent) : u \in 1 .. Len(sent') /\ sent'[u] = sent[u],
         delivered \subseteq delivered'
  PROVE  /\ \A c : TookForeign(c) => TookForeign(c)'
         /\ \A u \in 1 .. Len(sent) : Clean(u)' => Clean(u)
<1>1. ASSUME NEW c, TookForeign(c) PROVE TookForeign(c)'
  <2>1. PICK e \in delivered : e.conn = c /\ \E v \in e.from : sent[v].conn # c
    BY <1>1 DEF TookForeign
  <2>2. PICK v \in e.from : sent[v].conn # c
    BY <2>1
  <2>3. v \in 1 .. Len(sent)
    BY DEF DeliveredSent
  <2>4. e \in delivered' /\ v \in e.from /\ sent'[v].conn # c
    BY <2>2, <2>3
  <2> QED BY <2>1, <2>4 DEF TookForeign
<1>2. ASSUME NEW u \in 1 .. Len(sent), Clean(u)' PROVE Clean(u)
  <2>1. PICK c : c = sent[u].conn
    OBVIOUS
  <2>2. ~SharesId(u)' /\ ~TookForeign(c)'
    BY <1>2, <2>1 DEF Clean, TookForeign
  <2> QED BY <1>1, <2>1, <2>2, IdsStay DEF Clean
<1> QED BY <1>1, <1>2

\* What has fed a builder was sent.
LEMMA FedBySent ==
  ASSUME TypeOK, FedById
  PROVE  \A id \in DOMAIN packets : \A u \in packets[id].from :
           u \in 1 .. Len(sent) /\ sent[u].conn \in Conns
<1>0. sent \in Seq([conn: Conns, payload: Seq(Byte)])
  BY DEF TypeOK
<1>1. ASSUME NEW u \in 1 .. Len(sent) PROVE sent[u].conn \in Conns
  <2>1. sent[u] \in [conn: Conns, payload: Seq(Byte)]
    BY <1>0, ElementOfSeq
  <2> QED BY <2>1
<1>2. \A id \in DOMAIN packets : \A u \in packets[id].from : u \in 1 .. Len(sent)
  BY DEF FedById, FedBy
<1> QED BY <1>1, <1>2

----------------------------------------------------------------------------
(* A packet is sent *)

\* A stream that a step does not touch stays well formed.
LEMMA OtherStream ==
  ASSUME Len(sent) \in Nat, NEW c, StreamOf(c), wire'[c] = wire[c],
         \A u \in 1 .. Len(sent) : u \in 1 .. Len(sent') /\ sent'[u] = sent[u],
         broken \subseteq broken'
  PROVE  StreamOf(c)'
<1>1. \A u \in 1 .. Len(sent) : IdOf(u)' = IdOf(u)
  BY IdsStay
<1>2. \A i \in 1 .. Len(wire[c]) : wire[c][i].uid \in 1 .. Len(sent)
  BY DEF StreamOf, RecordsInFlight, RecordOf
<1>3. RecordsInFlight(c)'
  <2> SUFFICES ASSUME NEW i \in 1 .. Len(wire[c])
               PROVE  RecordOf(c, wire[c][i])'
    BY DEF RecordsInFlight
  <2>1. PICK x : x = wire[c][i]
    OBVIOUS
  <2>2. RecordOf(c, x) /\ x.uid \in 1 .. Len(sent)
    BY <2>1 DEF StreamOf, RecordsInFlight, RecordOf
  <2>3. PICK u \in 1 .. Len(sent) : u = x.uid
    BY <2>2
  <2>4. IdOf(u)' = IdOf(u) /\ sent'[u] = sent[u] /\ u \in 1 .. Len(sent')
    BY <1>1
  <2>5. IdOf(x.uid)' = IdOf(u)'
    BY <2>3 DEF IdOf
  <2>6. RecordOf(c, x)'
    BY <2>2, <2>3, <2>4, <2>5 DEF RecordOf
  <2> QED BY <2>1, <2>6
<1>4. RecordsPaired(c)' /\ RecordsOrdered(c)'
  BY <1>2 DEF StreamOf, RecordsPaired, RecordsOrdered
<1> QED BY <1>3, <1>4 DEF StreamOf

\* The new packet takes its place behind those of its connection.
LEMMA EncodeKeepsOwn ==
  ASSUME TypeOK, Counted, NEW c \in Conns, NEW payload \in Payloads, StreamOf(c),
         EncodeAndSend(c, payload) \/ EncodeAndFail(c, payload), c \notin broken
  PROVE  StreamOf(c)'
<1>0. PICK new, w, v : new = Len(sent) + 1 /\ w = wire[c] /\ v = wire'[c]
  OBVIOUS
<1> DEFINE first == FirstPart(c, lastId[c], new, payload)
           snd   == SecondPart(lastId[c], new, payload)
<1>1. /\ Len(sent) \in Nat /\ Len(sent') = new
      /\ \A u \in 1 .. Len(sent) : u \in 1 .. Len(sent') /\ sent'[u] = sent[u]
      /\ sent'[new].conn = c /\ sent'[new].payload = payload
      /\ new \in 1 .. Len(sent')
  BY <1>0, SentGrows
<1>2. /\ IdOf(new)' = lastId[c]
      /\ \A u \in 1 .. Len(sent) : IdOf(u)' = IdOf(u)
  BY <1>0, <1>1, NewId, IdsStay
<1>3. /\ Len(w) \in Nat /\ Len(v) \in Nat
      /\ \/ c \in broken'
         \/ Len(v) = Len(w) + (IF InTwo(payload) THEN 2 ELSE 1)
  BY <1>0, EncodeStream DEF TypeOK
<1>4. /\ first.offset = 0 /\ snd.offset = Split /\ Split # 0
      /\ first.uid = new /\ snd.uid = new
      /\ first.id = lastId[c] /\ snd.id = lastId[c]
  BY PartFields
<1>5. \A i \in 1 .. Len(v) :
        \/ i \in 1 .. Len(w) /\ v[i] = w[i]
        \/ i = Len(w) + 1 /\ v[i] = first
        \/ i = Len(w) + 2 /\ InTwo(payload) /\ v[i] = snd
  <2>1. \A i \in 1 .. Len(v) :
          \/ i <= Len(w) /\ v[i] = w[i]
          \/ i = Len(w) + 1 /\ v[i] = first
          \/ i = Len(w) + 2 /\ InTwo(payload) /\ v[i] = snd
    BY <1>0, EncodeStream
  <2> HIDE DEF first, snd
  <2> QED BY <1>3, <2>1
<1>6. \A i \in 1 .. Len(w) : RecordOf(c, w[i]) /\ w[i].uid \in 1 .. Len(sent)
  BY <1>0 DEF StreamOf, RecordsInFlight, RecordOf
<1>7. RecordsInFlight(c)'
  <2> SUFFICES ASSUME NEW i \in 1 .. Len(v) PROVE RecordOf(c, v[i])'
    BY <1>0 DEF RecordsInFlight
  <2>1. PICK x : x = v[i]
    OBVIOUS
  <2>2. PICK u : u = x.uid
    OBVIOUS
  <2>3. IdOf(x.uid)' = IdOf(u)'
    BY <2>2 DEF IdOf
  <2>4. CASE i \in 1 .. Len(w) /\ x = w[i]
    <3>1. RecordOf(c, x) /\ u \in 1 .. Len(sent)
      BY <1>6, <2>2, <2>4
    <3>2. IdOf(u)' = IdOf(u) /\ sent'[u] = sent[u] /\ u \in 1 .. Len(sent')
      BY <1>1, <1>2, <3>1
    <3>3. RecordOf(c, x)'
      BY <2>2, <2>3, <3>1, <3>2 DEF RecordOf
    <3> QED BY <2>1, <3>3
  <2>5. CASE x = first
    <3>1. u = new /\ x.id = lastId[c] /\ x.id = IdOf(u)'
      BY <1>2, <1>4, <2>2, <2>5
    <3>2. RecordOf(c, x)'
      BY <1>1, <2>2, <2>3, <2>5, <3>1 DEF RecordOf
    <3> QED BY <2>1, <3>2
  <2>6. CASE InTwo(payload) /\ x = snd
    <3>1. u = new /\ x.id = lastId[c] /\ x.id = IdOf(u)'
      BY <1>2, <1>4, <2>2, <2>6
    <3>2. RecordOf(c, x)'
      BY <1>1, <2>2, <2>3, <2>6, <3>1 DEF RecordOf
    <3> QED BY <2>1, <3>2
  <2> QED BY <1>5, <2>1, <2>4, <2>5, <2>6
<1> HIDE DEF first, snd
<1>8. RecordsPaired(c)'
  <2> SUFFICES ASSUME NEW i \in 1 .. Len(v)
               PROVE  /\ v[i].offset = Split /\ i > 1 => TwoParts(v[i - 1], v[i])
                      /\ v[i].offset = 0 /\ InTwo(sent'[v[i].uid].payload) =>
                           \/ i = Len(v) /\ c \in broken'
                           \/ i < Len(v) /\ TwoParts(v[i], v[i + 1])
    BY <1>0 DEF RecordsPaired
  <2>1. CASE i \in 1 .. Len(w) /\ v[i] = w[i]
    <3>1. ASSUME v[i].offset = Split, i > 1 PROVE TwoParts(v[i - 1], v[i])
      <4>1. i - 1 \in 1 .. Len(v) /\ i - 1 # Len(w) + 1 /\ i - 1 # Len(w) + 2
        BY <1>3, <2>1, <3>1
      <4>2. v[i - 1] = w[i - 1]
        BY <1>5, <4>1
      <4> QED BY <1>0, <2>1, <3>1, <4>2 DEF StreamOf, RecordsPaired
    <3>2. ASSUME v[i].offset = 0, InTwo(sent'[v[i].uid].payload),
                 ~(i = Len(v) /\ c \in broken')
          PROVE  i < Len(v) /\ TwoParts(v[i], v[i + 1])
      <4>1. InTwo(sent[w[i].uid].payload)
        BY <1>1, <1>6, <2>1, <3>2
      <4>2. i < Len(w) /\ TwoParts(w[i], w[i + 1])
        BY <1>0, <2>1, <3>2, <4>1 DEF StreamOf, RecordsPaired
      <4>3. i + 1 \in 1 .. Len(w)
        BY <1>3, <2>1, <4>2
      <4>4. i + 1 <= Len(v)
        <5>1. CASE c \in broken'
          BY <1>3, <3>2, <5>1
        <5>2. CASE c \notin broken'
          BY <1>3, <4>3, <5>2
        <5> QED BY <5>1, <5>2
      <4>5. i + 1 \in 1 .. Len(v) /\ i + 1 # Len(w) + 1 /\ i + 1 # Len(w) + 2
        BY <1>3, <4>2, <4>4
      <4>6. v[i + 1] = w[i + 1]
        BY <1>5, <4>5
      <4> QED BY <1>3, <2>1, <4>2, <4>4, <4>6
    <3> QED BY <3>1, <3>2
  <2>2. CASE i = Len(w) + 1 /\ v[i] = first
    <3>1. v[i].offset # Split
      BY <1>4, <2>2
    <3>2. ASSUME InTwo(payload), ~(i = Len(v) /\ c \in broken')
          PROVE  i < Len(v) /\ TwoParts(v[i], v[i + 1])
      <4>1. Len(v) >= Len(w) + 2
        BY <1>3, <2>2, <3>2
      <4>2. i + 1 \in 1 .. Len(v) /\ i + 1 = Len(w) + 2
        BY <1>3, <2>2, <4>1
      <4>3. i + 1 \notin 1 .. Len(w) /\ i + 1 # Len(w) + 1
        BY <1>3, <4>2
      <4>4. v[i + 1] = snd
        BY <1>5, <4>2, <4>3
      <4>5. TwoParts(first, snd)
        BY <1>4 DEF TwoParts
      <4> QED BY <1>3, <2>2, <4>1, <4>4, <4>5
    <3> QED BY <1>1, <1>4, <2>2, <3>1, <3>2
  <2>3. CASE i = Len(w) + 2 /\ v[i] = snd
    <3>1. i - 1 \in 1 .. Len(v) /\ i - 1 = Len(w) + 1
      BY <1>3, <2>3
    <3>2. i - 1 \notin 1 .. Len(w) /\ i - 1 # Len(w) + 2
      BY <1>3, <3>1
    <3>3. v[i - 1] = first
      BY <1>5, <3>1, <3>2
    <3>4. TwoParts(first, snd)
      BY <1>4 DEF TwoParts
    <3> QED BY <1>4, <2>3, <3>3, <3>4
  <2> QED BY <1>5, <2>1, <2>2, <2>3
<1>9. RecordsOrdered(c)'
  <2> SUFFICES ASSUME NEW i \in 1 .. Len(v), NEW j \in 1 .. Len(v),
                      i < j, v[j].offset = 0
               PROVE  v[i].uid < v[j].uid
    BY <1>0 DEF RecordsOrdered
  <2>1. CASE j \in 1 .. Len(w) /\ v[j] = w[j]
    <3>1. i \in 1 .. Len(w) /\ i # Len(w) + 1 /\ i # Len(w) + 2
      BY <1>3, <2>1
    <3>2. v[i] = w[i]
      BY <1>5, <3>1
    <3> QED BY <1>0, <2>1, <3>1, <3>2 DEF StreamOf, RecordsOrdered
  <2>2. CASE j = Len(w) + 1 /\ v[j] = first
    <3>1. i \in 1 .. Len(w) /\ i # Len(w) + 1 /\ i # Len(w) + 2
      BY <1>3, <2>2
    <3>2. v[i] = w[i]
      BY <1>5, <3>1
    <3> QED BY <1>0, <1>1, <1>4, <1>6, <2>2, <3>1, <3>2
  <2>3. CASE v[j] = snd
    BY <1>4, <2>3
  <2> QED BY <1>5, <2>1, <2>2, <2>3
<1> QED BY <1>7, <1>8, <1>9 DEF StreamOf

\* At the head of the stream a record stays, or a first part appears.
LEMMA HeadAfterEncode ==
  ASSUME TypeOK, NEW c \in Conns, NEW payload \in Payloads,
         EncodeAndSend(c, payload) \/ EncodeAndFail(c, payload)
  PROVE  /\ Len(wire[c]) > 0 /\ Len(wire'[c]) > 0 => wire'[c][1] = wire[c][1]
         /\ Len(wire[c]) = 0 /\ Len(wire'[c]) > 0 => wire'[c][1].offset = 0
         /\ Len(wire'[c]) = 0 => c \in broken'
         /\ \A d \in Conns \ {c} : wire'[d] = wire[d]
         /\ broken \subseteq broken' /\ c \notin broken
<1>1. PICK w, v, first, snd :
        /\ w = wire[c] /\ v = wire'[c]
        /\ first = FirstPart(c, lastId[c], Len(sent) + 1, payload)
        /\ snd = SecondPart(lastId[c], Len(sent) + 1, payload)
  OBVIOUS
<1>2. /\ Len(w) \in Nat /\ Len(v) \in Nat
      /\ \/ c \in broken'
         \/ Len(v) = Len(w) + (IF InTwo(payload) THEN 2 ELSE 1)
  BY <1>1, EncodeStream DEF TypeOK
<1>3. \A i \in 1 .. Len(v) :
        \/ i <= Len(w) /\ v[i] = w[i]
        \/ i = Len(w) + 1 /\ v[i] = first
        \/ i = Len(w) + 2 /\ v[i] = snd
  BY <1>1, EncodeStream
<1>4. first.offset = 0
  BY <1>1, PartFields
<1>5. ASSUME Len(v) > 0
      PROVE  \/ 1 <= Len(w) /\ v[1] = w[1]
             \/ 1 = Len(w) + 1 /\ v[1] = first
  <2>1. 1 \in 1 .. Len(v) /\ 1 # Len(w) + 2
    BY <1>2, <1>5
  <2> QED BY <1>3, <2>1
<1>6. \A d \in Conns \ {c} : wire'[d] = wire[d]
  <2>1. wire' = [wire EXCEPT ![c] = wire'[c]]
    BY EncodeStream
  <2>2. PICK y : y = wire'[c]
    OBVIOUS
  <2>3. wire' = [wire EXCEPT ![c] = y]
    BY <2>1, <2>2
  <2> QED BY <2>3 DEF TypeOK
<1>7. broken \subseteq broken' /\ c \notin broken
  BY EncodeStream DEF EncodeAndSend, EncodeAndFail, TakeId
<1>8. Len(v) = 0 => c \in broken'
  BY <1>2
<1>9. Len(w) > 0 /\ Len(v) > 0 => v[1] = w[1]
  BY <1>2, <1>5
<1>10. Len(w) = 0 /\ Len(v) > 0 => v[1].offset = 0
  BY <1>4, <1>5
<1> QED BY <1>1, <1>6, <1>7, <1>8, <1>9, <1>10

\* Sending adds nothing to the builders, and what they hold stays next to what
\* is in flight.
LEMMA EncodeHolders ==
  ASSUME TypeOK, StreamsInv, HoldersInv, DeliveredSent,
         NEW c \in Conns, NEW payload \in Payloads,
         EncodeAndSend(c, payload) \/ EncodeAndFail(c, payload)
  PROVE  HoldersInv'
<1>1. /\ Len(sent) \in Nat /\ Len(sent') = Len(sent) + 1
      /\ \A u \in 1 .. Len(sent) : u \in 1 .. Len(sent') /\ sent'[u] = sent[u]
      /\ UNCHANGED <<packets, cache, pc, delivered>>
  BY SentGrows
<1>2. /\ \A u \in 1 .. Len(sent) : IdOf(u)' = IdOf(u)
      /\ \A u \in 1 .. Len(sent) : Clean(u)' => Clean(u)
      /\ \A d : TookForeign(d) => TookForeign(d)'
  BY <1>1, IdsStay, CleanBefore
<1>3. \A id \in DOMAIN packets : \A u \in packets[id].from :
        u \in 1 .. Len(sent) /\ sent[u].conn \in Conns
  BY FedBySent DEF HoldersInv
<1>4. FedById'
  <2> SUFFICES ASSUME NEW id \in DOMAIN packets, NEW u \in packets[id].from
               PROVE  FedBy(id, u)'
    BY <1>1 DEF HoldersInv, FedById
  <2>1. u \in 1 .. Len(sent) /\ FedBy(id, u)
    BY <1>3 DEF HoldersInv, FedById
  <2>2. PICK k \in Conns : k = sent[u].conn /\ k = sent'[u].conn
    BY <1>1, <1>3
  <2>3. u \in 1 .. Len(sent') /\ IdOf(u)' = id
    BY <1>1, <1>2, <2>1 DEF FedBy
  <2>4. ASSUME NEW i \in 1 .. Len(wire'[k]), wire'[k][i].offset = 0
        PROVE  u < wire'[k][i].uid
    <3>1. CASE k # c
      BY <2>1, <2>2, <2>4, <3>1, HeadAfterEncode DEF FedBy
    <3>2. CASE k = c
      <4>1. PICK w, v, first, snd :
              /\ w = wire[c] /\ v = wire'[c]
              /\ first = FirstPart(c, lastId[c], Len(sent) + 1, payload)
              /\ snd = SecondPart(lastId[c], Len(sent) + 1, payload)
        OBVIOUS
      <4>2. Len(w) \in Nat /\ i \in 1 .. Len(v)
        BY <2>4, <3>2, <4>1 DEF TypeOK
      <4>3. \/ i <= Len(w) /\ v[i] = w[i]
            \/ v[i] = first
            \/ v[i] = snd
        BY <4>1, <4>2, EncodeStream
      <4>4. snd.offset # 0 /\ first.uid = Len(sent) + 1
        BY <4>1, PartFields
      <4>5. \A j \in 1 .. Len(w) : w[j].offset = 0 => u < w[j].uid
        BY <2>1, <2>2, <3>2, <4>1 DEF FedBy
      <4>6. u < Len(sent) + 1
        BY <1>1, <2>1
      <4>7. v[i].offset = 0
        BY <2>4, <3>2, <4>1
      <4>8. u < v[i].uid
        BY <4>2, <4>3, <4>4, <4>5, <4>6, <4>7
      <4> QED BY <3>2, <4>1, <4>8
    <3> QED BY <3>1, <3>2
  <2> QED BY <2>2, <2>3, <2>4 DEF FedBy
<1>5. CleanHoldsOne'
  <2> SUFFICES ASSUME NEW id \in DOMAIN packets, NEW u \in packets[id].from,
                      Clean(u)'
               PROVE  HoldsOne(packets[id], id, u, sent[u].conn, sent[u].payload)'
    BY <1>1 DEF CleanHoldsOne
  <2>1. PICK b, k, p : b = packets[id] /\ k = sent[u].conn /\ p = sent[u].payload
    OBVIOUS
  <2>2. /\ k \in Conns /\ u \in 1 .. Len(sent)
        /\ b = packets'[id] /\ k = sent'[u].conn /\ p = sent'[u].payload
    BY <1>1, <1>3, <2>1
  <2>3. HoldsOne(b, id, u, k, p)
    BY <1>2, <2>1, <2>2 DEF HoldersInv, CleanHoldsOne
  <2>4. HoldsOne(b, id, u, k, p)'
    <3>1. CASE k # c
      BY <2>2, <2>3, <3>1, HeadAfterEncode DEF HoldsOne
    <3>2. CASE k = c
      <4>1. PICK w, v : w = wire[c] /\ v = wire'[c]
        OBVIOUS
      <4>2. Len(w) \in Nat /\ Len(v) \in Nat
        BY <4>1, EncodeStream DEF TypeOK
      <4>3. /\ Len(w) > 0 /\ Len(v) > 0 => v[1] = w[1]
            /\ Len(w) = 0 /\ Len(v) > 0 => v[1].offset = 0
            /\ Len(v) = 0 => c \in broken'
            /\ c \notin broken
        BY <4>1, HeadAfterEncode
      <4>4. /\ b.from = {u} /\ b.orig = Len(WholeOf(c, p))
            /\ \/ /\ b.full /\ b.data = WholeOf(c, p)
                  /\ Len(w) > 0 => w[1].offset = 0
               \/ /\ ~b.full /\ b.data = FirstOf(c, p) /\ InTwo(p)
                  /\ Len(w) > 0 /\ w[1] = SecondPart(id, u, p)
        BY <2>3, <3>2, <4>1, <4>3 DEF HoldsOne
      <4>5. \/ /\ b.full /\ b.data = WholeOf(c, p)
               /\ Len(v) > 0 => v[1].offset = 0
            \/ /\ ~b.full /\ b.data = FirstOf(c, p) /\ InTwo(p)
               /\ \/ Len(v) = 0 /\ c \in broken'
                  \/ Len(v) > 0 /\ v[1] = SecondPart(id, u, p)
        BY <4>2, <4>3, <4>4
      <4> QED BY <3>2, <4>1, <4>4, <4>5 DEF HoldsOne
    <3> QED BY <3>1, <3>2
  <2> QED BY <2>2, <2>4
<1>6. ASSUME NEW d \in Conns PROVE FirstIsThere(d)'
  <2> SUFFICES ASSUME Len(wire'[d]) > 0, wire'[d][1].offset = Split,
                      Clean(wire[d][1].uid)'
               PROVE  /\ wire'[d][1].id \in DOMAIN packets
                      /\ wire'[d][1].uid \in packets[wire'[d][1].id].from
    BY <1>1 DEF FirstIsThere
  <2>1. Len(wire[d]) > 0 /\ wire'[d][1] = wire[d][1]
    <3>1. CASE d # c
      BY <3>1, HeadAfterEncode
    <3>2. CASE d = c
      <4>1. Len(wire[c]) > 0 \/ Len(wire[c]) = 0
        BY DEF TypeOK
      <4> QED BY <3>2, <4>1, HeadAfterEncode, PartFields
    <3> QED BY <3>1, <3>2
  <2>2. PICK x : x = wire[d][1] /\ x = wire'[d][1]
    BY <2>1
  <2>3. x.uid \in 1 .. Len(sent)
    <3>1. 1 \in 1 .. Len(wire[d])
      BY <2>1 DEF TypeOK
    <3> QED BY <2>2, <3>1 DEF StreamsInv, StreamOf, RecordsInFlight, RecordOf
  <2>4. Clean(x.uid)'
    BY <2>2
  <2>5. Clean(x.uid)
    BY <1>2, <2>3, <2>4
  <2> QED BY <2>1, <2>2, <2>5 DEF HoldersInv, FirstIsThere
<1>7. ASSUME NEW d \in Conns PROVE OwnIsPopped(d)'
  <2>1. OwnFull(d)' = OwnFull(d)
    BY <1>1, <1>3 DEF OwnFull, FullIds
  <2> QED BY <1>1, <1>2, <2>1 DEF HoldersInv, OwnIsPopped
<1> QED BY <1>4, <1>5, <1>6, <1>7 DEF HoldersInv

\* What has been handed on is as good as before.
LEMMA EncodeDelivered ==
  ASSUME TypeOK, DeliveredSent, IntactUnlessIdShared,
         NEW c \in Conns, NEW payload \in Payloads,
         EncodeAndSend(c, payload) \/ EncodeAndFail(c, payload)
  PROVE  DeliveredSent' /\ IntactUnlessIdShared'
<1>1. /\ Len(sent) \in Nat
      /\ \A u \in 1 .. Len(sent) : u \in 1 .. Len(sent') /\ sent'[u] = sent[u]
      /\ delivered' = delivered
  BY SentGrows
<1>2. /\ \A u \in 1 .. Len(sent) : SharesId(u) => SharesId(u)'
      /\ \A k : TookForeign(k) => TookForeign(k)'
  BY <1>1, IdsStay, CleanBefore
<1>3. DeliveredSent'
  BY <1>1 DEF DeliveredSent
<1>4. ASSUME NEW d \in delivered
      PROVE  Intact(d)' \/ \E u \in d.from : SharesId(u)' \/ TookForeign(sent[u].conn)'
  <2>1. CASE Intact(d)
    BY <1>1, <2>1 DEF Intact
  <2>2. CASE \E u \in d.from : SharesId(u) \/ TookForeign(sent[u].conn)
    <3>1. PICK u \in d.from : SharesId(u) \/ TookForeign(sent[u].conn)
      BY <2>2
    <3>2. u \in 1 .. Len(sent)
      BY DEF DeliveredSent
    <3>3. PICK k : k = sent[u].conn /\ k = sent'[u].conn
      BY <1>1, <3>2
    <3>4. SharesId(u)' \/ TookForeign(k)'
      BY <1>2, <3>1, <3>2, <3>3
    <3> QED BY <3>3, <3>4 DEF TookForeign
  <2> QED BY <2>1, <2>2 DEF IntactUnlessIdShared
<1> QED BY <1>1, <1>3, <1>4 DEF IntactUnlessIdShared

\* Sending keeps the invariant.
LEMMA EncodeKeepsIntact ==
  ASSUME IntactInv, TypeOK', CacheNamesFull',
         NEW c \in Conns, NEW payload \in Payloads,
         EncodeAndSend(c, payload) \/ EncodeAndFail(c, payload)
  PROVE  IntactInv'
<1>1. TypeOK /\ Counted /\ StreamsInv /\ HoldersInv /\ DeliveredSent
  BY DEF IntactInv
<1>2. /\ Len(sent) \in Nat
      /\ \A u \in 1 .. Len(sent) : u \in 1 .. Len(sent') /\ sent'[u] = sent[u]
      /\ \A u \in 1 .. Len(sent') : u \in 1 .. Len(sent) \/ u = Len(sent) + 1
      /\ sent'[Len(sent) + 1].payload = payload
  BY <1>1, SentGrows
<1>3. Counted'
  BY <1>1, NewId
<1>4. SentPayloads'
  BY <1>1, <1>2 DEF SentPayloads, StreamsInv
<1>5. ASSUME NEW d \in Conns PROVE StreamOf(d)'
  <2>1. CASE d = c
    BY <1>1, <2>1, EncodeKeepsOwn, HeadAfterEncode DEF StreamsInv
  <2>2. CASE d # c
    <3>1. StreamOf(d) /\ wire'[d] = wire[d] /\ broken \subseteq broken'
      BY <1>1, <2>2, HeadAfterEncode DEF StreamsInv
    <3> QED BY <1>2, <3>1, OtherStream
  <2> QED BY <2>1, <2>2
<1>6. HoldersInv'
  BY <1>1, EncodeHolders
<1>7. DeliveredSent' /\ IntactUnlessIdShared'
  BY <1>1, EncodeDelivered DEF IntactInv
<1> QED BY <1>3, <1>4, <1>5, <1>6, <1>7 DEF IntactInv, StreamsInv

----------------------------------------------------------------------------
(* A record is built in *)

\* A part of a packet that was sent passes the test of build_packet.
LEMMA RecordHasData ==
  ASSUME NEW c \in Conns, NEW p \in Payloads, NEW id, NEW u, NEW x,
         \/ x = FirstPart(c, id, u, p)
         \/ InTwo(p) /\ x = SecondPart(id, u, p)
  PROVE  HasBuilderData(x)
<1>2. CASE x = FirstPart(c, id, u, p)
  <2>1. x.data = FirstOf(c, p) /\ x.offset = 0 /\ x.orig = Len(WholeOf(c, p))
    BY <1>2 DEF FirstPart
  <2>2. /\ Len(FirstOf(c, p)) \in Nat /\ Len(WholeOf(c, p)) \in Nat
        /\ Len(FirstOf(c, p)) > 0
        /\ Len(FirstOf(c, p)) <= Len(WholeOf(c, p))
    <3>1. CASE InTwo(p)
      <4>1. /\ Len(FirstOf(c, p)) = Split + Len(Proxy[c])
            /\ Len(WholeOf(c, p)) = 2 * Split + Len(Proxy[c])
            /\ Len(Proxy[c]) \in Nat
        BY <3>1, DataShape
      <4> DEFINE m == Len(FirstOf(c, p))
                 n == Len(WholeOf(c, p))
                 z == Len(Proxy[c])
      <4>2. m = Split + z /\ n = 2 * Split + z /\ z \in Nat
        BY <4>1
      <4> HIDE DEF m, n, z
      <4>3. m \in Nat /\ n \in Nat /\ m > 0 /\ m <= n
        BY <4>2, SizesType
      <4> QED BY <4>3 DEF m, n
    <3>2. CASE ~InTwo(p)
      <4>1. /\ FirstOf(c, p) = WholeOf(c, p) /\ FirstOf(c, p) \in Seq(Byte)
            /\ Len(FirstOf(c, p)) > 0
        BY <3>2, DataShape
      <4> QED BY <4>1
    <3> QED BY <3>1, <3>2
  <2> QED BY <2>1, <2>2 DEF HasBuilderData
<1>3. CASE InTwo(p) /\ x = SecondPart(id, u, p)
  <2>1. x.data = RestOf(p) /\ x.offset = Split /\ x.orig = 2 * Split
    BY <1>3 DEF SecondPart
  <2>2. Len(RestOf(p)) = Split
    BY <1>3, DataShape
  <2> QED BY <2>1, <2>2, SizesType DEF HasBuilderData
<1> QED BY <1>2, <1>3

\* The next record, as decode_data takes it.
LEMMA NextRecord ==
  ASSUME TypeOK, NEW c \in Conns, Build(c)
  PROVE  /\ pc[c] = "decode" /\ pc' = [pc EXCEPT ![c] = "query"]
         /\ wire[c] # <<>> /\ wire[c][1] \in Part
         /\ Head(wire[c]) = wire[c][1] /\ 1 \in 1 .. Len(wire[c])
         /\ Len(wire[c]) \in Nat /\ Len(wire'[c]) = Len(wire[c]) - 1
         /\ \A i \in 1 .. Len(wire'[c]) :
              i + 1 \in 1 .. Len(wire[c]) /\ wire'[c][i] = wire[c][i + 1]
         /\ \A d \in Conns \ {c} : wire'[d] = wire[d]
         /\ packets' = BuildPacket(wire[c][1])
         /\ UNCHANGED <<lastId, broken, sent, abandoned, delivered, cache, ub>>
<1>1. wire[c] \in Seq(Part)
  BY DEF TypeOK
<1>2. /\ pc[c] = "decode" /\ pc' = [pc EXCEPT ![c] = "query"]
      /\ wire[c] # <<>> /\ wire'[c] = Tail(wire[c])
      /\ \A d \in Conns \ {c} : wire'[d] = wire[d]
      /\ packets' = BuildPacket(Head(wire[c]))
      /\ UNCHANGED <<lastId, broken, sent, abandoned, delivered, cache, ub>>
  BY DEF Build, TypeOK
<1>3. Head(wire[c]) = wire[c][1] /\ Len(wire[c]) \in Nat /\ Len(wire[c]) > 0
  BY <1>1, <1>2
<1>4. 1 \in 1 .. Len(wire[c])
  BY <1>3
<1>5. wire[c][1] \in Part
  BY <1>1, <1>4
<1>6. /\ Len(wire'[c]) = Len(wire[c]) - 1
      /\ \A i \in 1 .. Len(wire'[c]) :
           i + 1 \in 1 .. Len(wire[c]) /\ wire'[c][i] = wire[c][i + 1]
  BY <1>1, <1>2, <1>3
<1> QED BY <1>2, <1>3, <1>4, <1>5, <1>6

\* What build_packet does with a part that passes its test: it begins a builder
\* or adds to one.
LEMMA BuildsIn ==
  ASSUME TypeOK, NEW x \in Part, HasBuilderData(x), packets' = BuildPacket(x)
  PROVE  /\ DOMAIN packets' = DOMAIN packets \cup {x.id}
         /\ \A id \in DOMAIN packets \ {x.id} : packets'[id] = packets[id]
         /\ x.id \in DOMAIN packets =>
              /\ packets[x.id] \in Builder
              /\ packets'[x.id] = AddData(packets[x.id], x)
              /\ packets'[x.id].orig = packets[x.id].orig
              /\ packets'[x.id].from = packets[x.id].from \cup {x.uid}
         /\ x.id \notin DOMAIN packets =>
              /\ packets'[x.id].data = x.data /\ packets'[x.id].orig = x.orig
              /\ packets'[x.id].full <=> Len(x.data) = x.orig
              /\ packets'[x.id].from = {x.uid}
<1>0. PICK old, new : old = packets[x.id] /\ new = packets'[x.id]
  OBVIOUS
<1>1. packets' = [id \in DOMAIN packets \cup {x.id} |->
                    IF id # x.id THEN packets[id]
                    ELSE IF id \in DOMAIN packets THEN AddData(packets[id], x)
                    ELSE NewBuilder(x)]
  BY DEF BuildPacket
<1>2. /\ DOMAIN packets' = DOMAIN packets \cup {x.id}
      /\ \A id \in DOMAIN packets \ {x.id} : packets'[id] = packets[id]
  BY <1>1
<1>3. ASSUME x.id \in DOMAIN packets
      PROVE  /\ old \in Builder /\ new = AddData(old, x)
             /\ new.orig = old.orig /\ new.from = old.from \cup {x.uid}
  <2>1. new = AddData(old, x)
    BY <1>0, <1>1, <1>3
  <2>2. old \in Builder
    BY <1>0, <1>3 DEF TypeOK
  <2>3. /\ AddData(old, x).orig = old.orig
        /\ AddData(old, x).from = old.from \cup {x.uid}
    BY <2>2, AddDataLength
  <2> QED BY <2>1, <2>2, <2>3
<1>4. ASSUME x.id \notin DOMAIN packets
      PROVE  /\ new.data = x.data /\ new.orig = x.orig
             /\ new.full <=> Len(x.data) = x.orig
             /\ new.from = {x.uid}
  <2> DEFINE all == Len(x.data) = x.orig
  <2>1. new = NewBuilder(x)
    BY <1>0, <1>1, <1>4
  <2>2. new = [orig |-> x.orig, data |-> x.data, full |-> all, from |-> {x.uid}]
    BY <2>1, NewBuilderValue
  <2>3. all \in BOOLEAN
    OBVIOUS
  <2> HIDE DEF all
  <2>4. new.data = x.data /\ new.orig = x.orig /\ new.full = all /\ new.from = {x.uid}
    BY <2>2, <2>3
  <2> QED BY <2>4 DEF all
<1> QED BY <1>0, <1>2, <1>3, <1>4

\* The records behind the one that is built in stay well formed.
LEMMA BuildStream ==
  ASSUME TypeOK, NEW c \in Conns, StreamOf(c), Build(c)
  PROVE  StreamOf(c)'
<1>1. PICK w, v : w = wire[c] /\ v = wire'[c]
  OBVIOUS
<1>2. /\ Len(w) \in Nat /\ Len(v) = Len(w) - 1 /\ 1 \in 1 .. Len(w)
      /\ \A i \in 1 .. Len(v) : i + 1 \in 1 .. Len(w) /\ v[i] = w[i + 1]
      /\ UNCHANGED <<sent, broken>>
  BY <1>1, NextRecord
<1>3. RecordsInFlight(c)'
  <2>1. \A x : RecordOf(c, x)' <=> RecordOf(c, x)
    BY <1>2 DEF RecordOf, IdOf
  <2> SUFFICES ASSUME NEW i \in 1 .. Len(v) PROVE RecordOf(c, wire[c][i])'
    BY <1>1 DEF RecordsInFlight
  <2>2. PICK x : x = v[i]
    OBVIOUS
  <2>3. RecordOf(c, x)
    BY <1>1, <1>2, <2>2 DEF StreamOf, RecordsInFlight
  <2>4. RecordOf(c, x)'
    BY <2>1, <2>3
  <2> QED BY <1>1, <2>2, <2>4
<1>4. RecordsPaired(c)'
  <2> SUFFICES ASSUME NEW i \in 1 .. Len(v)
               PROVE  /\ v[i].offset = Split /\ i > 1 => TwoParts(v[i - 1], v[i])
                      /\ v[i].offset = 0 /\ InTwo(sent[v[i].uid].payload) =>
                           \/ i = Len(v) /\ c \in broken
                           \/ i < Len(v) /\ TwoParts(v[i], v[i + 1])
    BY <1>1, <1>2 DEF RecordsPaired
  <2>1. i + 1 \in 1 .. Len(w) /\ v[i] = w[i + 1] /\ (i + 1) - 1 = i /\ i + 1 > 1
    BY <1>2
  <2>2. /\ v[i].offset = Split => TwoParts(w[i], v[i])
        /\ v[i].offset = 0 /\ InTwo(sent[v[i].uid].payload) =>
             \/ i + 1 = Len(w) /\ c \in broken
             \/ i + 1 < Len(w) /\ TwoParts(v[i], w[i + 1 + 1])
    BY <1>1, <2>1 DEF StreamOf, RecordsPaired
  <2>3. i > 1 => v[i - 1] = w[i]
    <3>1. ASSUME i > 1 PROVE i - 1 \in 1 .. Len(v) /\ (i - 1) + 1 = i
      BY <1>2, <3>1
    <3> QED BY <1>2, <3>1
  <2>4. i + 1 < Len(w) => i < Len(v) /\ v[i + 1] = w[i + 1 + 1]
    <3>1. ASSUME i + 1 < Len(w) PROVE i < Len(v) /\ i + 1 \in 1 .. Len(v)
      BY <1>2, <3>1
    <3> QED BY <1>2, <3>1
  <2>5. i + 1 = Len(w) => i = Len(v)
    BY <1>2
  <2> QED BY <2>2, <2>3, <2>4, <2>5
<1>5. RecordsOrdered(c)'
  <2> SUFFICES ASSUME NEW i \in 1 .. Len(v), NEW j \in 1 .. Len(v),
                      i < j, v[j].offset = 0
               PROVE  v[i].uid < v[j].uid
    BY <1>1 DEF RecordsOrdered
  <2>1. /\ i + 1 \in 1 .. Len(w) /\ v[i] = w[i + 1]
        /\ j + 1 \in 1 .. Len(w) /\ v[j] = w[j + 1]
        /\ i + 1 < j + 1
    BY <1>2
  <2> QED BY <1>1, <2>1 DEF StreamOf, RecordsOrdered
<1> QED BY <1>3, <1>4, <1>5 DEF StreamOf

\* What is clean depends on what was sent and handed on.
LEMMA SameHistory ==
  ASSUME UNCHANGED <<sent, delivered>>
  PROVE  /\ \A u : IdOf(u)' = IdOf(u)
         /\ \A c : TookForeign(c)' <=> TookForeign(c)
         /\ \A u : Clean(u)' <=> Clean(u)
<1>1. \A u : IdOf(u)' = IdOf(u)
  BY DEF IdOf
<1>2. \A c : TookForeign(c)' <=> TookForeign(c)
  BY DEF TookForeign
<1>3. \A u : SharesId(u)' <=> SharesId(u)
  BY <1>1 DEF SharesId
<1>4. ASSUME NEW u PROVE Clean(u)' <=> Clean(u)
  <2>1. PICK c : c = sent[u].conn
    OBVIOUS
  <2>2. TookForeign(sent[u].conn)' <=> TookForeign(c)'
    BY <2>1 DEF TookForeign
  <2> QED BY <1>2, <1>3, <2>1, <2>2 DEF Clean
<1> QED BY <1>1, <1>2, <1>4

\* A builder that one clean packet has fed was fed by packets of one connection
\* alone, and all of them are clean.
LEMMA CleanIdIsOwn ==
  ASSUME NEW u \in 1 .. Len(sent), NEW v \in 1 .. Len(sent),
         IdOf(u) = IdOf(v), Clean(v)
  PROVE  Clean(u) /\ sent[u].conn = sent[v].conn
<1>1. sent[u].conn = sent[v].conn
  BY DEF Clean, SharesId
<1>2. ~SharesId(u)
  BY <1>1 DEF Clean, SharesId
<1> QED BY <1>1, <1>2 DEF Clean

\* The record that follows the one that is built in: the second part of it, or
\* a first part.
LEMMA RecordBehind ==
  ASSUME TypeOK, NEW c \in Conns, StreamOf(c), Build(c), NEW x, x = wire[c][1],
         NEW p, p = sent[x.uid].payload
  PROVE  /\ x.offset = Split \/ ~InTwo(p) =>
              (Len(wire'[c]) > 0 => wire'[c][1].offset = 0)
         /\ x.offset = 0 /\ InTwo(p) =>
              \/ Len(wire'[c]) = 0 /\ c \in broken
              \/ Len(wire'[c]) > 0 /\ wire'[c][1] = SecondPart(x.id, x.uid, p)
         /\ Len(wire'[c]) > 0 /\ wire'[c][1].offset = Split =>
              wire'[c][1].id = x.id /\ wire'[c][1].uid = x.uid
<1>1. PICK w, v : w = wire[c] /\ v = wire'[c]
  OBVIOUS
<1>2. /\ Len(w) \in Nat /\ Len(v) = Len(w) - 1 /\ 1 \in 1 .. Len(w) /\ w[1] = x
      /\ \A i \in 1 .. Len(v) : i + 1 \in 1 .. Len(w) /\ v[i] = w[i + 1]
  BY <1>1, NextRecord
<1>3. Split # 0
  BY PartFields
<1>4. ASSUME Len(v) > 0
      PROVE  /\ RecordOf(c, v[1])
             /\ v[1].offset = 0 \/ v[1].offset = Split
             /\ v[1].offset = Split => TwoParts(x, v[1])
             /\ v[1].offset = Split =>
                  /\ InTwo(sent[v[1].uid].payload)
                  /\ v[1] = SecondPart(v[1].id, v[1].uid, sent[v[1].uid].payload)
  <2>1. 1 \in 1 .. Len(v) /\ 2 \in 1 .. Len(w) /\ 1 + 1 = 2 /\ 2 > 1 /\ 2 - 1 = 1
    BY <1>2, <1>4
  <2>2. v[1] = w[2]
    BY <1>2, <2>1
  <2>3. RecordOf(c, v[1])
    BY <1>1, <2>1, <2>2 DEF StreamOf, RecordsInFlight
  <2>4. v[1].offset = Split => TwoParts(x, v[1])
    BY <1>1, <1>2, <2>1, <2>2 DEF StreamOf, RecordsPaired
  <2>5. PICK y, q : y = v[1] /\ q = sent[y.uid].payload
    OBVIOUS
  <2>6. \/ y = FirstPart(c, y.id, y.uid, q)
        \/ InTwo(q) /\ y = SecondPart(y.id, y.uid, q)
    <3>1. RecordOf(c, y)
      BY <2>3, <2>5
    <3>2. \/ y = FirstPart(c, y.id, y.uid, sent[y.uid].payload)
          \/ /\ InTwo(sent[y.uid].payload)
             /\ y = SecondPart(y.id, y.uid, sent[y.uid].payload)
      BY <3>1 DEF RecordOf
    <3> QED BY <2>5, <3>2
  <2>7. FirstPart(c, y.id, y.uid, q).offset = 0 /\ SecondPart(y.id, y.uid, q).offset = Split
    BY PartFields
  <2> QED BY <1>3, <2>3, <2>4, <2>5, <2>6, <2>7
<1>5. ASSUME x.offset = Split \/ ~InTwo(p), Len(v) > 0 PROVE v[1].offset = 0
  BY <1>3, <1>4, <1>5 DEF TwoParts
<1>6. ASSUME x.offset = 0, InTwo(p)
      PROVE  \/ Len(v) = 0 /\ c \in broken
             \/ Len(v) > 0 /\ v[1] = SecondPart(x.id, x.uid, p)
  <2>1. \/ 1 = Len(w) /\ c \in broken
        \/ 1 < Len(w) /\ TwoParts(w[1], w[1 + 1])
    BY <1>1, <1>2, <1>6 DEF StreamOf, RecordsPaired
  <2>2. CASE 1 = Len(w) /\ c \in broken
    <3>1. Len(v) = 1 - 1
      BY <1>2, <2>2
    <3> QED BY <2>2, <3>1
  <2>3. CASE 1 < Len(w) /\ TwoParts(w[1], w[1 + 1])
    <3>1. Len(v) > 0 /\ 1 \in 1 .. Len(v)
      BY <1>2, <2>3
    <3>2. TwoParts(x, v[1])
      BY <1>2, <2>3, <3>1
    <3>3. v[1] = SecondPart(v[1].id, v[1].uid, sent[v[1].uid].payload)
      BY <1>4, <3>1, <3>2 DEF TwoParts
    <3>4. v[1].id = x.id /\ v[1].uid = x.uid
      BY <3>2 DEF TwoParts
    <3> QED BY <3>1, <3>3, <3>4
  <2> QED BY <2>1, <2>2, <2>3
<1>7. ASSUME Len(v) > 0, v[1].offset = Split
      PROVE  v[1].id = x.id /\ v[1].uid = x.uid
  BY <1>4, <1>7 DEF TwoParts
<1> QED BY <1>1, <1>5, <1>6, <1>7

\* What the builder of the next record's id is before and after.
LEMMA BuildOwn ==
  ASSUME TypeOK, StreamsInv, HoldersInv, NEW c \in Conns, Build(c),
         NEW x, x = wire[c][1]
  PROVE  /\ x \in Part /\ RecordOf(c, x) /\ sent[x.uid].payload \in Payloads
         /\ HasBuilderData(x)
         /\ DOMAIN packets' = DOMAIN packets \cup {x.id}
         /\ \A id \in DOMAIN packets \ {x.id} : packets'[id] = packets[id]
         /\ packets'[x.id].from = {x.uid} \cup
              (IF x.id \in DOMAIN packets THEN packets[x.id].from ELSE {})
         /\ \A v \in packets'[x.id].from : v \in 1 .. Len(sent) /\ IdOf(v) = x.id
<1>1. x \in Part /\ 1 \in 1 .. Len(wire[c]) /\ packets' = BuildPacket(x)
  BY NextRecord
<1>2. RecordOf(c, x)
  BY <1>1 DEF StreamsInv, StreamOf, RecordsInFlight
<1>3. x.uid \in 1 .. Len(sent) /\ IdOf(x.uid) = x.id /\ sent[x.uid].payload \in Payloads
  BY <1>2 DEF RecordOf, StreamsInv, SentPayloads
<1>4. HasBuilderData(x)
  <2>1. \/ x = FirstPart(c, x.id, x.uid, sent[x.uid].payload)
        \/ /\ InTwo(sent[x.uid].payload)
           /\ x = SecondPart(x.id, x.uid, sent[x.uid].payload)
    BY <1>2 DEF RecordOf
  <2> QED BY <1>3, <2>1, RecordHasData
<1>5. /\ DOMAIN packets' = DOMAIN packets \cup {x.id}
      /\ \A id \in DOMAIN packets \ {x.id} : packets'[id] = packets[id]
      /\ x.id \in DOMAIN packets =>
           packets'[x.id].from = packets[x.id].from \cup {x.uid}
      /\ x.id \notin DOMAIN packets => packets'[x.id].from = {x.uid}
  BY <1>1, <1>4, BuildsIn
<1>6. packets'[x.id].from = {x.uid} \cup
        (IF x.id \in DOMAIN packets THEN packets[x.id].from ELSE {})
  BY <1>5
<1>7. \A id \in DOMAIN packets : \A v \in packets[id].from :
        v \in 1 .. Len(sent) /\ IdOf(v) = id
  BY DEF HoldersInv, FedById, FedBy
<1>8. \A v \in packets'[x.id].from : v \in 1 .. Len(sent) /\ IdOf(v) = x.id
  BY <1>3, <1>6, <1>7
<1> QED BY <1>1, <1>2, <1>3, <1>4, <1>5, <1>6, <1>8

\* A clean builder of the connection is not full when decode_data begins.
LEMMA OwnNotFull ==
  ASSUME HoldersInv, NEW c \in Conns, pc[c] = "decode",
         NEW id \in DOMAIN packets, packets[id].full,
         NEW v, packets[id].from = {v}, sent[v].conn = c, Clean(v)
  PROVE  FALSE
<1>1. id \in OwnFull(c)
  BY DEF OwnFull, FullIds
<1>2. ~TookForeign(c)
  BY DEF Clean
<1> QED BY <1>1, <1>2 DEF HoldersInv, OwnIsPopped

\* The packets that fed a builder stay older than those to come.
LEMMA BuildFed ==
  ASSUME TypeOK, StreamsInv, HoldersInv, NEW c \in Conns, Build(c)
  PROVE  FedById'
<1>1. PICK x, w, v : x = wire[c][1] /\ w = wire[c] /\ v = wire'[c]
  OBVIOUS
<1>2. /\ RecordOf(c, x)
      /\ DOMAIN packets' = DOMAIN packets \cup {x.id}
      /\ \A id \in DOMAIN packets \ {x.id} : packets'[id] = packets[id]
      /\ packets'[x.id].from = {x.uid} \cup
           (IF x.id \in DOMAIN packets THEN packets[x.id].from ELSE {})
  BY <1>1, BuildOwn
<1>3. /\ Len(w) \in Nat /\ 1 \in 1 .. Len(w) /\ w[1] = x
      /\ \A i \in 1 .. Len(v) : i + 1 \in 1 .. Len(w) /\ v[i] = w[i + 1]
      /\ \A d \in Conns \ {c} : wire'[d] = wire[d]
      /\ UNCHANGED <<sent, delivered>>
  BY <1>1, NextRecord
<1>4. \A u : IdOf(u)' = IdOf(u)
  BY <1>3, SameHistory
<1>5. ASSUME NEW id \in DOMAIN packets, NEW u \in packets[id].from PROVE FedBy(id, u)'
  <2>1. FedBy(id, u)
    BY DEF HoldersInv, FedById
  <2>2. u \in 1 .. Len(sent) /\ sent[u].conn \in Conns
    BY FedBySent DEF HoldersInv
  <2>3. PICK k \in Conns : k = sent[u].conn
    BY <2>2
  <2>4. ASSUME NEW i \in 1 .. Len(wire'[k]), wire'[k][i].offset = 0
        PROVE  u < wire'[k][i].uid
    <3>1. CASE k # c
      BY <1>3, <2>1, <2>3, <2>4, <3>1 DEF FedBy
    <3>2. CASE k = c
      <4>1. i + 1 \in 1 .. Len(w) /\ wire'[k][i] = w[i + 1]
        BY <1>1, <1>3, <2>4, <3>2
      <4>2. \A j \in 1 .. Len(w) : w[j].offset = 0 => u < w[j].uid
        BY <1>1, <2>1, <2>3, <3>2 DEF FedBy
      <4> QED BY <2>4, <4>1, <4>2
    <3> QED BY <3>1, <3>2
  <2> QED BY <1>3, <1>4, <2>1, <2>2, <2>3, <2>4 DEF FedBy
<1>6. FedBy(x.id, x.uid)'
  <2>1. x.uid \in 1 .. Len(sent) /\ sent[x.uid].conn = c /\ x.id = IdOf(x.uid)
    BY <1>2 DEF RecordOf
  <2>2. ASSUME NEW i \in 1 .. Len(v), v[i].offset = 0 PROVE x.uid < v[i].uid
    <3>1. i + 1 \in 1 .. Len(w) /\ v[i] = w[i + 1] /\ 1 < i + 1
      BY <1>3
    <3> QED BY <1>1, <1>3, <2>2, <3>1 DEF StreamsInv, StreamOf, RecordsOrdered
  <2>3. IdOf(x.uid)' = x.id
    BY <1>4, <2>1
  <2> QED BY <1>1, <1>3, <2>1, <2>2, <2>3 DEF FedBy
<1>7. ASSUME NEW id \in DOMAIN packets'
      PROVE  packets'[id].from # {} /\ \A u \in packets'[id].from : FedBy(id, u)'
  <2>1. CASE id # x.id
    <3>1. id \in DOMAIN packets /\ packets'[id] = packets[id]
      BY <1>2, <2>1
    <3> QED BY <1>5, <3>1 DEF HoldersInv, FedById
  <2>2. CASE id = x.id
    BY <1>2, <1>5, <1>6, <2>2
  <2> QED BY <2>1, <2>2
<1> QED BY <1>7 DEF FedById

\* The builder of the next record, if its packet is clean, then holds that
\* packet and nothing else.
LEMMA BuildClean ==
  ASSUME TypeOK, StreamsInv, HoldersInv, NEW c \in Conns, Build(c),
         NEW x, x = wire[c][1], Clean(x.uid), NEW b, b = packets'[x.id]
  PROVE  HoldsOne(b, x.id, x.uid, c, sent[x.uid].payload)'
<1>1. PICK w, v, u, id, p :
        /\ w = wire[c] /\ v = wire'[c] /\ u = x.uid /\ id = x.id
        /\ p = sent[u].payload
  OBVIOUS
<1>2. /\ x \in Part /\ RecordOf(c, x) /\ p \in Payloads /\ HasBuilderData(x)
      /\ u \in 1 .. Len(sent) /\ sent[u].conn = c /\ IdOf(u) = id
  <2>1. x \in Part /\ RecordOf(c, x) /\ p \in Payloads /\ HasBuilderData(x)
    BY <1>1, BuildOwn
  <2> QED BY <1>1, <2>1 DEF RecordOf
<1>3. /\ pc[c] = "decode" /\ packets' = BuildPacket(x)
      /\ Len(w) \in Nat /\ 1 \in 1 .. Len(w) /\ w[1] = x
      /\ UNCHANGED <<sent, broken>>
  BY <1>1, NextRecord
<1>4. \/ x = FirstPart(c, id, u, p)
      \/ InTwo(p) /\ x = SecondPart(id, u, p)
  BY <1>1, <1>2 DEF RecordOf
<1>5. /\ x.offset = Split \/ ~InTwo(p) => (Len(v) > 0 => v[1].offset = 0)
      /\ x.offset = 0 /\ InTwo(p) =>
           \/ Len(v) = 0 /\ c \in broken
           \/ Len(v) > 0 /\ v[1] = SecondPart(id, u, p)
  BY <1>1, RecordBehind DEF StreamsInv
<1>6. /\ id \in DOMAIN packets =>
           /\ b = AddData(packets[id], x)
           /\ b.orig = packets[id].orig /\ b.from = packets[id].from \cup {u}
      /\ id \notin DOMAIN packets =>
           /\ b.data = x.data /\ b.orig = x.orig
           /\ b.full <=> Len(x.data) = x.orig
           /\ b.from = {u}
  <2>1. /\ x.id \in DOMAIN packets =>
             /\ b = AddData(packets[x.id], x)
             /\ b.orig = packets[x.id].orig
             /\ b.from = packets[x.id].from \cup {x.uid}
        /\ x.id \notin DOMAIN packets =>
             /\ b.data = x.data /\ b.orig = x.orig
             /\ b.full <=> Len(x.data) = x.orig
             /\ b.from = {x.uid}
    BY <1>2, <1>3, BuildsIn
  <2> QED BY <1>1, <2>1
<1>7. CASE id \in DOMAIN packets
  <2>1. PICK old : old = packets[id]
    OBVIOUS
  <2>2. old \in Builder /\ old.from # {}
    BY <1>7, <2>1 DEF TypeOK, HoldersInv, FedById
  <2>3. PICK y \in old.from : TRUE
    BY <2>2
  <2>4. y \in 1 .. Len(sent) /\ IdOf(y) = id
    BY <1>7, <2>1, <2>3 DEF HoldersInv, FedById, FedBy
  <2>5. Clean(y) /\ sent[y].conn = c
    BY <1>1, <1>2, <2>4, CleanIdIsOwn
  <2>6. HoldsOne(old, id, y, c, sent[y].payload)
    BY <1>7, <2>1, <2>3, <2>5 DEF HoldersInv, CleanHoldsOne
  <2>7. ~old.full
    <3>1. old.from = {y}
      BY <2>6 DEF HoldsOne
    <3> QED BY <1>3, <1>7, <2>1, <2>5, <3>1, OwnNotFull
  <2>8. /\ old.from = {y} /\ old.orig = Len(WholeOf(c, sent[y].payload))
        /\ old.data = FirstOf(c, sent[y].payload) /\ InTwo(sent[y].payload)
        /\ x = SecondPart(id, y, sent[y].payload)
    <3>1. Len(w) # 0
      BY <1>3
    <3> QED BY <1>1, <1>3, <2>6, <2>7, <3>1 DEF HoldsOne
  <2>9. y = u
    BY <1>1, <2>8, PartFields
  <2>10. x.offset = Split /\ x.data = RestOf(p)
    BY <1>1, <2>8, <2>9 DEF SecondPart
  <2>11. /\ old.from = {u} /\ old.orig = Len(WholeOf(c, p))
         /\ old.data = FirstOf(c, p) /\ InTwo(p)
    BY <1>1, <2>8, <2>9
  <2>12. AddData(old, x).full /\ AddData(old, x).data = WholeOf(c, p)
    BY <1>2, <2>2, <2>10, <2>11, AddSecond
  <2>13. /\ b.full /\ b.data = WholeOf(c, p) /\ b.from = {u}
         /\ b.orig = Len(WholeOf(c, p))
    BY <1>6, <1>7, <2>1, <2>11, <2>12
  <2>14. Len(v) > 0 => v[1].offset = 0
    BY <1>5, <2>10
  <2> QED BY <1>1, <1>3, <2>13, <2>14 DEF HoldsOne
<1>8. CASE id \notin DOMAIN packets
  <2>1. x = FirstPart(c, id, u, p)
    <3> SUFFICES ASSUME InTwo(p), x = SecondPart(id, u, p) PROVE FALSE
      BY <1>4
    <3>1. x.offset = Split /\ Len(w) > 0
      BY <1>3, PartFields
    <3> QED BY <1>1, <1>3, <1>8, <3>1 DEF HoldersInv, FirstIsThere
  <2>2. x.offset = 0 /\ x.data = FirstOf(c, p) /\ x.orig = Len(WholeOf(c, p))
    BY <2>1 DEF FirstPart
  <2>3. /\ b.from = {u} /\ b.orig = Len(WholeOf(c, p)) /\ b.data = FirstOf(c, p)
        /\ b.full <=> Len(FirstOf(c, p)) = Len(WholeOf(c, p))
    BY <1>6, <1>8, <2>2
  <2>4. CASE ~InTwo(p)
    <3>1. FirstOf(c, p) = WholeOf(c, p)
      BY <1>2, <2>4, DataShape
    <3>2. b.full /\ b.data = WholeOf(c, p)
      BY <2>3, <3>1
    <3>3. Len(v) > 0 => v[1].offset = 0
      BY <1>5, <2>4
    <3> QED BY <1>1, <1>3, <2>3, <3>2, <3>3 DEF HoldsOne
  <2>5. CASE InTwo(p)
    <3>1. Len(FirstOf(c, p)) # Len(WholeOf(c, p))
      <4>1. PICK m, n, z : /\ m = Len(FirstOf(c, p)) /\ n = Len(WholeOf(c, p))
                           /\ z = Len(Proxy[c])
        OBVIOUS
      <4>2. m = Split + z /\ n = 2 * Split + z /\ z \in Nat
        BY <1>2, <2>5, <4>1, DataShape
      <4>3. m # n
        BY <4>2, SizesType
      <4> QED BY <4>1, <4>3
    <3>2. ~b.full
      BY <2>3, <3>1
    <3>3. \/ Len(v) = 0 /\ c \in broken
          \/ Len(v) > 0 /\ v[1] = SecondPart(id, u, p)
      BY <1>5, <2>2, <2>5
    <3> QED BY <1>1, <1>3, <2>3, <2>5, <3>2, <3>3 DEF HoldsOne
  <2> QED BY <2>4, <2>5
<1> QED BY <1>7, <1>8

\* Building in a record keeps what the builders hold.
LEMMA BuildHolders ==
  ASSUME TypeOK, StreamsInv, HoldersInv, NEW c \in Conns, Build(c)
  PROVE  HoldersInv'
<1>1. PICK x, w : x = wire[c][1] /\ w = wire[c]
  OBVIOUS
<1>2. /\ RecordOf(c, x)
      /\ DOMAIN packets' = DOMAIN packets \cup {x.id}
      /\ \A id \in DOMAIN packets \ {x.id} : packets'[id] = packets[id]
      /\ packets'[x.id].from = {x.uid} \cup
           (IF x.id \in DOMAIN packets THEN packets[x.id].from ELSE {})
      /\ \A v \in packets'[x.id].from : v \in 1 .. Len(sent) /\ IdOf(v) = x.id
  BY <1>1, BuildOwn
<1>3. /\ pc[c] = "decode" /\ pc' = [pc EXCEPT ![c] = "query"]
      /\ Len(w) \in Nat /\ 1 \in 1 .. Len(w) /\ w[1] = x
      /\ \A d \in Conns \ {c} : wire'[d] = wire[d]
      /\ UNCHANGED <<sent, delivered, broken>>
  BY <1>1, NextRecord
<1>4. /\ \A d : TookForeign(d)' <=> TookForeign(d)
      /\ \A u : Clean(u)' <=> Clean(u)
  BY <1>3, SameHistory
<1>5. x.uid \in 1 .. Len(sent) /\ sent[x.uid].conn = c /\ x.id = IdOf(x.uid)
  BY <1>2 DEF RecordOf
<1>6. CleanHoldsOne'
  <2> SUFFICES ASSUME NEW id \in DOMAIN packets', NEW u \in packets'[id].from,
                      Clean(u)'
               PROVE  HoldsOne(packets[id], id, u, sent[u].conn, sent[u].payload)'
    BY DEF CleanHoldsOne
  <2>1. Clean(u)
    BY <1>4
  <2>2. CASE id # x.id
    <3>1. PICK b, k, p : b = packets[id] /\ k = sent[u].conn /\ p = sent[u].payload
      OBVIOUS
    <3>2. id \in DOMAIN packets /\ b = packets'[id] /\ u \in b.from
      BY <1>2, <2>2, <3>1
    <3>3. k \in Conns
      BY <3>1, <3>2, FedBySent DEF HoldersInv
    <3>4. HoldsOne(b, id, u, k, p)
      BY <2>1, <3>1, <3>2 DEF HoldersInv, CleanHoldsOne
    <3>5. k # c
      <4> SUFFICES ASSUME k = c PROVE FALSE
        OBVIOUS
      <4>1. ~b.full
        <5>1. b.from = {u}
          BY <3>4 DEF HoldsOne
        <5> QED BY <1>3, <2>1, <3>1, <3>2, <5>1, OwnNotFull
      <4>2. Len(w) # 0
        BY <1>3
      <4>3. x = SecondPart(id, u, p)
        BY <1>1, <1>3, <3>4, <4>1, <4>2 DEF HoldsOne
      <4> QED BY <2>2, <4>3, PartFields
    <3>6. HoldsOne(b, id, u, k, p)'
      BY <1>3, <3>3, <3>4, <3>5 DEF HoldsOne
    <3> QED BY <1>3, <3>1, <3>2, <3>6
  <2>3. CASE id = x.id
    <3>1. u \in 1 .. Len(sent) /\ IdOf(u) = IdOf(x.uid)
      BY <1>2, <1>5, <2>3
    <3>2. Clean(x.uid)
      BY <1>5, <2>1, <3>1, CleanIdIsOwn
    <3>3. PICK b, p : b = packets'[id] /\ p = sent[x.uid].payload
      OBVIOUS
    <3>4. HoldsOne(b, x.id, x.uid, c, sent[x.uid].payload)'
      BY <1>1, <2>3, <3>2, <3>3, BuildClean
    <3>5. HoldsOne(b, id, x.uid, c, p)'
      BY <1>3, <2>3, <3>3, <3>4
    <3>6. b.from = {x.uid}
      BY <3>5 DEF HoldsOne
    <3>7. u = x.uid /\ sent'[u].conn = c /\ sent'[u].payload = p
      BY <1>3, <1>5, <3>3, <3>6
    <3> QED BY <3>3, <3>5, <3>7
  <2> QED BY <2>2, <2>3
<1>7. ASSUME NEW d \in Conns PROVE FirstIsThere(d)'
  <2> SUFFICES ASSUME Len(wire'[d]) > 0, wire'[d][1].offset = Split,
                      Clean(wire[d][1].uid)'
               PROVE  /\ wire'[d][1].id \in DOMAIN packets'
                      /\ wire'[d][1].uid \in packets'[wire'[d][1].id].from
    BY DEF FirstIsThere
  <2>1. CASE d = c
    <3>1. wire'[c][1].id = x.id /\ wire'[c][1].uid = x.uid
      BY <1>1, <2>1, RecordBehind DEF StreamsInv
    <3> QED BY <1>2, <2>1, <3>1
  <2>2. CASE d # c
    <3>1. PICK y : y = wire[d][1] /\ y = wire'[d][1]
      BY <1>3, <2>2
    <3>2. Clean(y.uid)'
      BY <3>1
    <3>3. y.id \in DOMAIN packets /\ y.uid \in packets[y.id].from
      BY <1>3, <1>4, <2>2, <3>1, <3>2 DEF HoldersInv, FirstIsThere
    <3> QED BY <1>2, <3>1, <3>3
  <2> QED BY <2>1, <2>2
<1>8. ASSUME NEW d \in Conns PROVE OwnIsPopped(d)'
  <2>1. \A id \in OwnFull(d)' : id # x.id => id \in OwnFull(d)
    BY <1>2, <1>3 DEF OwnFull, FullIds
  <2>2. CASE d = c
    <3>1. pc'[c] = "query"
      BY <1>3 DEF TypeOK
    <3>2. ~TookForeign(c) => OwnFull(c) = {}
      BY <1>3 DEF HoldersInv, OwnIsPopped
    <3> QED BY <1>4, <2>1, <2>2, <3>1, <3>2 DEF OwnIsPopped
  <2>3. CASE d # c
    <3>1. x.id \notin OwnFull(d)'
      BY <1>2, <1>3, <1>5, <2>3 DEF OwnFull
    <3>2. pc'[d] = pc[d]
      BY <1>3, <2>3 DEF TypeOK
    <3>3. OwnFull(d)' \subseteq OwnFull(d)
      BY <2>1, <3>1
    <3> QED BY <1>4, <3>2, <3>3 DEF HoldersInv, OwnIsPopped
  <2> QED BY <2>2, <2>3
<1> QED BY <1>6, <1>7, <1>8, BuildFed DEF HoldersInv

\* What nothing but a send or a pop changes.
LEMMA SameDelivered ==
  ASSUME UNCHANGED <<sent, delivered, lastId>>
  PROVE  /\ Counted => Counted'
         /\ SentPayloads => SentPayloads'
         /\ DeliveredSent => DeliveredSent'
         /\ IntactUnlessIdShared => IntactUnlessIdShared'
<1>1. Counted => Counted'
  BY DEF Counted, SentOn
<1>2. (SentPayloads => SentPayloads') /\ (DeliveredSent => DeliveredSent')
  BY DEF SentPayloads, DeliveredSent
<1>3. IntactUnlessIdShared => IntactUnlessIdShared'
  <2>1. \A d : Intact(d)' <=> Intact(d)
    BY DEF Intact
  <2>2. \A u : Clean(u)' <=> Clean(u)
    BY SameHistory
  <2>3. /\ IntactUnlessIdShared <=>
             \A d \in delivered : Intact(d) \/ \E u \in d.from : ~Clean(u)
        /\ IntactUnlessIdShared' <=>
             \A d \in delivered' : Intact(d)' \/ \E u \in d.from : ~Clean(u)'
    BY DEF IntactUnlessIdShared, Clean
  <2> QED BY <2>1, <2>2, <2>3
<1> QED BY <1>1, <1>2, <1>3

\* Building in a record keeps the invariant.
LEMMA BuildKeepsIntact ==
  ASSUME IntactInv, TypeOK', CacheNamesFull', NEW c \in Conns, Build(c)
  PROVE  IntactInv'
<1>1. TypeOK /\ Counted /\ StreamsInv /\ HoldersInv /\ DeliveredSent
  BY DEF IntactInv
<1>2. /\ \A d \in Conns \ {c} : wire'[d] = wire[d]
      /\ UNCHANGED <<lastId, broken, sent, delivered>>
      /\ Len(sent) \in Nat
  BY <1>1, NextRecord DEF TypeOK
<1>3. Counted' /\ SentPayloads' /\ DeliveredSent' /\ IntactUnlessIdShared'
  BY <1>1, <1>2, SameDelivered DEF IntactInv, StreamsInv
<1>4. ASSUME NEW d \in Conns PROVE StreamOf(d)'
  <2>1. CASE d = c
    BY <1>1, <2>1, BuildStream DEF StreamsInv
  <2>2. CASE d # c
    BY <1>1, <1>2, <2>2, OtherStream DEF StreamsInv
  <2> QED BY <2>1, <2>2
<1>5. HoldersInv'
  BY <1>1, BuildHolders
<1> QED BY <1>3, <1>4, <1>5 DEF IntactInv, StreamsInv

----------------------------------------------------------------------------
(* A full builder is looked for, and popped *)

\* What depends on the streams and the builders alone.
LEMMA SameBuilders ==
  ASSUME UNCHANGED <<wire, broken, packets, sent, delivered>>
  PROVE  /\ \A c : StreamOf(c) => StreamOf(c)'
         /\ FedById => FedById'
         /\ CleanHoldsOne => CleanHoldsOne'
         /\ \A c : FirstIsThere(c) => FirstIsThere(c)'
         /\ \A c : OwnFull(c)' = OwnFull(c)
<1>1. (\A u : IdOf(u)' = IdOf(u)) /\ (\A u : Clean(u)' <=> Clean(u))
  BY SameHistory
<1>2. ASSUME NEW c, StreamOf(c) PROVE StreamOf(c)'
  <2>1. \A x : RecordOf(c, x)' <=> RecordOf(c, x)
    BY <1>1 DEF RecordOf
  <2>2. RecordsInFlight(c)'
    <3> SUFFICES ASSUME NEW i \in 1 .. Len(wire[c]) PROVE RecordOf(c, wire[c][i])'
      BY DEF RecordsInFlight
    <3>1. PICK x : x = wire[c][i]
      OBVIOUS
    <3>2. RecordOf(c, x)'
      BY <1>2, <2>1, <3>1 DEF StreamOf, RecordsInFlight
    <3> QED BY <3>1, <3>2
  <2> QED BY <1>2, <2>2 DEF StreamOf, RecordsPaired, RecordsOrdered
<1>3. FedById => FedById'
  BY <1>1 DEF FedById, FedBy
<1>4. ASSUME CleanHoldsOne PROVE CleanHoldsOne'
  <2> SUFFICES ASSUME NEW id \in DOMAIN packets, NEW u \in packets[id].from,
                      Clean(u)'
               PROVE  HoldsOne(packets[id], id, u, sent[u].conn, sent[u].payload)'
    BY DEF CleanHoldsOne
  <2>1. HoldsOne(packets[id], id, u, sent[u].conn, sent[u].payload)
    BY <1>1, <1>4 DEF CleanHoldsOne
  <2> QED BY <2>1 DEF HoldsOne
<1>5. ASSUME NEW c, FirstIsThere(c) PROVE FirstIsThere(c)'
  <2> SUFFICES ASSUME Len(wire[c]) > 0, wire[c][1].offset = Split,
                      Clean(wire[c][1].uid)'
               PROVE  /\ wire[c][1].id \in DOMAIN packets
                      /\ wire[c][1].uid \in packets[wire[c][1].id].from
    BY DEF FirstIsThere
  <2>1. PICK y : y = wire[c][1]
    OBVIOUS
  <2>2. Clean(y.uid)'
    BY <2>1
  <2> QED BY <1>1, <1>5, <2>1, <2>2 DEF FirstIsThere
<1>6. \A c : OwnFull(c)' = OwnFull(c)
  BY DEF OwnFull, FullIds
<1> QED BY <1>2, <1>3, <1>4, <1>5, <1>6

\* The invariant does not depend on the steps that only look, nor on ub.
LEMMA LookKeepsIntact ==
  ASSUME IntactInv, TypeOK', CacheNamesFull',
         \/ UNCHANGED <<lastId, broken, wire, packets, pc, sent, delivered>>
         \/ \E c \in Conns : HaveFullPackets(c)
  PROVE  IntactInv'
<1>1. TypeOK /\ Counted /\ StreamsInv /\ HoldersInv /\ DeliveredSent
  BY DEF IntactInv
<1>2. UNCHANGED <<lastId, broken, wire, packets, sent, delivered>>
  BY DEF HaveFullPackets
<1>3. Counted' /\ SentPayloads' /\ DeliveredSent' /\ IntactUnlessIdShared'
  BY <1>1, <1>2, SameDelivered DEF IntactInv, StreamsInv
<1>4. /\ StreamsInv' /\ FedById' /\ CleanHoldsOne'
      /\ \A d \in Conns : FirstIsThere(d)'
  BY <1>1, <1>2, <1>3, SameBuilders DEF StreamsInv, HoldersInv
<1>5. ASSUME NEW d \in Conns PROVE OwnIsPopped(d)'
  <2>1. OwnFull(d)' = OwnFull(d) /\ (TookForeign(d)' <=> TookForeign(d))
    BY <1>2, SameBuilders, SameHistory
  <2>2. pc'[d] = "decode" => pc[d] = "decode" \/ FullIds = {}
    BY <1>1 DEF HaveFullPackets, TypeOK
  <2>3. FullIds = {} => OwnFull(d) = {}
    BY DEF OwnFull
  <2> QED BY <1>1, <2>1, <2>2, <2>3 DEF HoldersInv, OwnIsPopped
<1> QED BY <1>3, <1>4, <1>5 DEF IntactInv, HoldersInv

\* What the pop hands on, and what it leaves.
LEMMA PopTakes ==
  ASSUME TypeOK, CacheNamesFull, NEW c \in Conns, GetAndPopPacket(c)
  PROVE  /\ cache \in DOMAIN packets /\ packets[cache].full
         /\ delivered' = delivered \cup {[conn |-> c, from |-> packets[cache].from,
                                          data |-> packets[cache].data]}
         /\ DOMAIN packets' = DOMAIN packets \ {cache}
         /\ \A id \in DOMAIN packets \ {cache} : packets'[id] = packets[id]
         /\ pc' = [pc EXCEPT ![c] = "decode"]
         /\ UNCHANGED <<lastId, broken, wire, sent>>
  BY DEF GetAndPopPacket, CacheNamesFull

\* A pop keeps what the other builders hold.
LEMMA PopHolders ==
  ASSUME TypeOK, CacheNamesFull, StreamsInv, HoldersInv, DeliveredSent,
         NEW c \in Conns, GetAndPopPacket(c)
  PROVE  HoldersInv'
<1>1. /\ cache \in DOMAIN packets /\ packets[cache].full
      /\ DOMAIN packets' = DOMAIN packets \ {cache}
      /\ \A id \in DOMAIN packets \ {cache} : packets'[id] = packets[id]
      /\ delivered \subseteq delivered'
      /\ pc' = [pc EXCEPT ![c] = "decode"]
      /\ UNCHANGED <<broken, wire, sent>>
  BY PopTakes
<1>2. /\ \A u \in 1 .. Len(sent) : Clean(u)' => Clean(u)
      /\ \A d : TookForeign(d) => TookForeign(d)'
  <2>1. Len(sent) \in Nat
    BY DEF TypeOK
  <2> QED BY <1>1, <2>1, CleanBefore
<1>3. \A u : IdOf(u)' = IdOf(u)
  BY <1>1 DEF IdOf
<1>4. \A id \in DOMAIN packets : \A u \in packets[id].from : u \in 1 .. Len(sent)
  BY FedBySent DEF HoldersInv
<1>5. FedById'
  BY <1>1, <1>3 DEF HoldersInv, FedById, FedBy
<1>6. CleanHoldsOne'
  <2> SUFFICES ASSUME NEW id \in DOMAIN packets', NEW u \in packets'[id].from,
                      Clean(u)'
               PROVE  HoldsOne(packets[id], id, u, sent[u].conn, sent[u].payload)'
    BY DEF CleanHoldsOne
  <2>1. id \in DOMAIN packets /\ packets'[id] = packets[id] /\ u \in packets[id].from
    BY <1>1
  <2>2. HoldsOne(packets[id], id, u, sent[u].conn, sent[u].payload)
    BY <1>2, <1>4, <2>1 DEF HoldersInv, CleanHoldsOne
  <2> QED BY <1>1, <2>1, <2>2 DEF HoldsOne
<1>7. ASSUME NEW d \in Conns PROVE FirstIsThere(d)'
  <2> SUFFICES ASSUME Len(wire[d]) > 0, wire[d][1].offset = Split,
                      Clean(wire[d][1].uid)'
               PROVE  /\ wire[d][1].id \in DOMAIN packets'
                      /\ wire[d][1].uid \in packets'[wire[d][1].id].from
    BY <1>1 DEF FirstIsThere
  <2>1. PICK y : y = wire[d][1]
    OBVIOUS
  <2>2. y.uid \in 1 .. Len(sent) /\ sent[y.uid].conn = d
    <3>1. 1 \in 1 .. Len(wire[d])
      BY DEF TypeOK
    <3> QED BY <2>1, <3>1 DEF StreamsInv, StreamOf, RecordsInFlight, RecordOf
  <2>3. Clean(y.uid)'
    BY <1>1, <2>1
  <2>4. Clean(y.uid)
    BY <1>2, <2>2, <2>3
  <2>5. y.id \in DOMAIN packets /\ y.uid \in packets[y.id].from
    BY <2>1, <2>4 DEF HoldersInv, FirstIsThere
  <2>6. HoldsOne(packets[y.id], y.id, y.uid, d, sent[y.uid].payload)
    BY <2>2, <2>4, <2>5 DEF HoldersInv, CleanHoldsOne
  <2>7. y.id # cache
    BY <1>1, <2>1, <2>6, PartFields DEF HoldsOne
  <2> QED BY <1>1, <2>1, <2>5, <2>7
<1>8. ASSUME NEW d \in Conns PROVE OwnIsPopped(d)'
  <2>1. OwnFull(d)' \subseteq OwnFull(d) \ {cache}
    BY <1>1 DEF OwnFull, FullIds
  <2>2. CASE d # c
    <3>1. pc'[d] = pc[d]
      BY <1>1, <2>2 DEF TypeOK
    <3> QED BY <1>2, <2>1, <3>1 DEF HoldersInv, OwnIsPopped
  <2>3. CASE d = c
    <3> SUFFICES ASSUME ~TookForeign(c)' PROVE OwnFull(c)' = {}
      BY <2>3 DEF OwnIsPopped
    <3>1. PICK e : e = [conn |-> c, from |-> packets[cache].from,
                        data |-> packets[cache].data]
      OBVIOUS
    <3>2. e \in delivered' /\ e.conn = c /\ e.from = packets[cache].from
      BY <3>1, PopTakes
    <3>3. \A v \in packets[cache].from : sent[v].conn = c
      BY <1>1, <3>2 DEF TookForeign
    <3>4. cache \in OwnFull(c)
      BY <1>1, <3>3 DEF OwnFull, FullIds
    <3>5. \A i, j \in OwnFull(c) : i = j
      BY <1>2 DEF HoldersInv, OwnIsPopped
    <3> QED BY <2>1, <2>3, <3>4, <3>5
  <2> QED BY <2>2, <2>3
<1> QED BY <1>5, <1>6, <1>7, <1>8 DEF HoldersInv

\* What a pop hands on is one packet, unless one that fed the builder is not
\* clean.
LEMMA PopDelivered ==
  ASSUME TypeOK, CacheNamesFull, StreamsInv, HoldersInv, DeliveredSent,
         IntactUnlessIdShared, NEW c \in Conns, GetAndPopPacket(c)
  PROVE  DeliveredSent' /\ IntactUnlessIdShared'
<1>1. PICK b, e : b = packets[cache]
                  /\ e = [conn |-> c, from |-> b.from, data |-> b.data]
  OBVIOUS
<1>2. /\ cache \in DOMAIN packets /\ b.full
      /\ delivered' = delivered \cup {e} /\ sent' = sent
      /\ e.from = b.from /\ e.data = b.data
  BY <1>1, PopTakes
<1>3. /\ \A u \in 1 .. Len(sent) : Clean(u)' => Clean(u)
      /\ \A d : TookForeign(d) => TookForeign(d)'
  <2>1. Len(sent) \in Nat /\ delivered \subseteq delivered'
    BY <1>2 DEF TypeOK
  <2> QED BY <1>2, <2>1, CleanBefore
<1>4. \A u \in b.from : u \in 1 .. Len(sent)
  BY <1>1, <1>2, FedBySent DEF HoldersInv
<1>5. DeliveredSent'
  BY <1>2, <1>4 DEF DeliveredSent
<1>6. ASSUME NEW d \in delivered
      PROVE  Intact(d)' \/ \E u \in d.from : ~Clean(u)'
  <2>1. CASE Intact(d)
    BY <1>2, <2>1 DEF Intact
  <2>2. CASE \E u \in d.from : ~Clean(u)
    BY <1>3, <2>2 DEF DeliveredSent
  <2> QED BY <2>1, <2>2 DEF IntactUnlessIdShared, Clean
<1>7. ASSUME \A u \in b.from : Clean(u)' PROVE Intact(e)'
  <2>1. PICK u \in b.from : TRUE
    BY <1>1, <1>2 DEF HoldersInv, FedById
  <2>2. u \in 1 .. Len(sent) /\ Clean(u)
    BY <1>3, <1>4, <1>7
  <2>3. HoldsOne(b, cache, u, sent[u].conn, sent[u].payload)
    BY <1>1, <1>2, <2>2 DEF HoldersInv, CleanHoldsOne
  <2>4. b.from = {u} /\ b.data = WholeOf(sent[u].conn, sent[u].payload)
    BY <1>2, <2>3 DEF HoldsOne
  <2> QED BY <1>2, <2>2, <2>4 DEF Intact, WholeOf
<1>8. \A d \in delivered' : Intact(d)' \/ \E u \in d.from : ~Clean(u)'
  BY <1>2, <1>6, <1>7
<1> QED BY <1>5, <1>8 DEF IntactUnlessIdShared, Clean

\* A pop keeps the invariant.
LEMMA PopKeepsIntact ==
  ASSUME IntactInv, TypeOK', CacheNamesFull',
         NEW c \in Conns, GetAndPopPacket(c)
  PROVE  IntactInv'
<1>1. /\ TypeOK /\ CacheNamesFull /\ Counted /\ StreamsInv /\ HoldersInv
      /\ DeliveredSent /\ IntactUnlessIdShared
  BY DEF IntactInv
<1>2. UNCHANGED <<lastId, broken, wire, sent>> /\ Len(sent) \in Nat
  BY <1>1, PopTakes DEF TypeOK
<1>3. Counted' /\ SentPayloads'
  BY <1>1, <1>2 DEF Counted, SentOn, SentPayloads, StreamsInv
<1>4. ASSUME NEW d \in Conns PROVE StreamOf(d)'
  BY <1>1, <1>2, OtherStream DEF StreamsInv
<1>5. HoldersInv'
  BY <1>1, PopHolders
<1>6. DeliveredSent' /\ IntactUnlessIdShared'
  BY <1>1, PopDelivered
<1> QED BY <1>3, <1>4, <1>5, <1>6 DEF IntactInv, StreamsInv

----------------------------------------------------------------------------
(* Together *)

\* In the beginning nothing is sent.
LEMMA IntactInitial == Init => IntactInv
<1> SUFFICES ASSUME Init PROVE IntactInv
  OBVIOUS
<1>1. TypeOK /\ CacheNamesFull
  BY InitType
<1>2. /\ Len(sent) = 0 /\ DOMAIN packets = {} /\ delivered = {}
      /\ \A c \in Conns : lastId[c] = 0 /\ wire[c] = <<>> /\ Len(wire[c]) = 0
  BY DEF Init
<1>3. Counted
  <2>1. \A c \in Conns : SentOn(c) = {}
    BY <1>2 DEF SentOn
  <2>2. Cardinality({}) = 0 /\ 0 % ByteMod = 0
    BY FS_EmptySet, SizesAssumption
  <2> QED BY <1>2, <2>1, <2>2 DEF Counted
<1>4. StreamsInv
  BY <1>2 DEF StreamsInv, SentPayloads, StreamOf, RecordsInFlight, RecordsPaired,
              RecordsOrdered
<1>5. HoldersInv
  BY <1>2 DEF HoldersInv, FedById, CleanHoldsOne, FirstIsThere, OwnIsPopped,
              OwnFull, FullIds
<1>6. DeliveredSent /\ IntactUnlessIdShared
  BY <1>2 DEF DeliveredSent, IntactUnlessIdShared
<1> QED BY <1>1, <1>3, <1>4, <1>5, <1>6 DEF IntactInv

\* Every step keeps the invariant.
LEMMA IntactStep ==
  IntactInv /\ TypeOK' /\ CacheNamesFull' /\ [Next]_vars => IntactInv'
<1> SUFFICES ASSUME IntactInv, TypeOK', CacheNamesFull', [Next]_vars
             PROVE  IntactInv'
  OBVIOUS
<1>1. CASE UNCHANGED vars
  BY <1>1, LookKeepsIntact DEF vars
<1>2. ASSUME NEW c \in Conns, NEW payload \in Payloads,
             EncodeAndSend(c, payload) \/ EncodeAndFail(c, payload)
      PROVE  IntactInv'
  BY <1>2, EncodeKeepsIntact
<1>3. ASSUME NEW c \in Conns, Build(c) PROVE IntactInv'
  BY <1>3, BuildKeepsIntact
<1>4. ASSUME NEW c \in Conns, HaveFullPackets(c) PROVE IntactInv'
  BY <1>4, LookKeepsIntact
<1>5. ASSUME NEW c \in Conns, GetAndPopPacket(c) PROVE IntactInv'
  BY <1>5, PopKeepsIntact
<1>6. ASSUME NEW c \in Conns, GetAndPopUncached(c) PROVE IntactInv'
  BY <1>6, LookKeepsIntact DEF GetAndPopUncached
<1> QED BY <1>1, <1>2, <1>3, <1>4, <1>5, <1>6 DEF Next, Decode

\* What decode_data hands on is one packet that was sent, whole and in order,
\* for any number of clients and packets: through every wrap of the ids, break
\* of a connection and interleaving of the threads, unless the ids of two
\* clients met or the client's thread handed on a packet of another one.
THEOREM IntactCorrect == Spec => []IntactUnlessIdShared
<1>1. Init => IntactInv
  BY IntactInitial
<1>2. IntactInv /\ TypeOK' /\ CacheNamesFull' /\ [Next]_vars => IntactInv'
  BY IntactStep
<1>3. IntactInv => IntactUnlessIdShared
  BY DEF IntactInv
<1> QED BY <1>1, <1>2, <1>3, CacheNamed, PTL DEF Spec
=============================================================================
