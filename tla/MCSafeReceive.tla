--------------------------- MODULE MCSafeReceive ---------------------------
(***************************************************************************)
(* Streams of up to three records with headers of two bytes and bodies of  *)
(* zero to two bytes, cut by receive in every possible way.                *)
(***************************************************************************)
EXTENDS SafeReceive

RecordLengths == Hdr .. Hdr + 2

MCStreams ==
  {{a} : a \in RecordLengths}
    \cup {{a, a + b} : a \in RecordLengths, b \in RecordLengths}
    \cup {{a, a + b, a + b + c} :
            a \in RecordLengths, b \in RecordLengths, c \in RecordLengths}
=============================================================================
