--------------------------- MODULE RecordChannel ---------------------------
(***************************************************************************)
(* What safe_recv promises ("Return full app level data"): the bytes of a  *)
(* stream are handed over in batches of whole TLS records, in order, none  *)
(* missing and none twice.  The promise ends where broken becomes TRUE.    *)
(*                                                                         *)
(* A record is the interval of stream positions it occupies; the stream is *)
(* the set of positions at which its records end.                          *)
(***************************************************************************)
EXTENDS Integers, Sequences

VARIABLES
  ends,     \* positions at which the records of the stream end
  out,      \* records handed over so far
  broken    \* TRUE when framing is lost

channelVars == <<ends, out, broken>>

\* The end of the record that holds position p.
EndAfter(p) == CHOOSE e \in ends : e > p /\ \A f \in ends : f > p => e <= f

\* Where the i-th record handed over has to begin.
BeginsAt(seq, i) == IF i = 1 THEN 0 ELSE seq[i - 1].to

IsRecord(r) == /\ r.from \in ends \cup {0}
               /\ \E e \in ends : e > r.from
               /\ r.to = EndAfter(r.from)

ChannelInit == out = <<>> /\ broken = FALSE

\* A batch of at least one record follows what was handed over before.
Hand ==
  /\ ~broken
  /\ Len(out') > Len(out)
  /\ SubSeq(out', 1, Len(out)) = out
  /\ \A i \in Len(out) + 1 .. Len(out') :
       IsRecord(out'[i]) /\ out'[i].from = BeginsAt(out', i)
  /\ UNCHANGED <<ends, broken>>

\* Framing is lost; nothing is promised from then on.
Break == ~broken /\ broken' /\ UNCHANGED <<ends, out>>

Lost == broken /\ broken' /\ UNCHANGED ends

ChannelNext == Hand \/ Break \/ Lost

ChannelSpec == ChannelInit /\ [][ChannelNext]_channelVars
=============================================================================
