--------------------------- MODULE TrafficFilter ---------------------------
(***************************************************************************)
(* How the client says which packets WinDivert shall divert: filters made  *)
(* by WinDivertTrafficFilter_, joined by the operators &&, || and ! of     *)
(* WinDivertTrafficFilterType, collected by add_outgoing_traffic_filter    *)
(* and add_incoming_traffic_filter, and completed with the default filters *)
(* when the capture starts (windivert_ext.hpp, Windows/windivert_ext.cpp). *)
(*                                                                         *)
(* A filter is text, and the operators paste text together without any     *)
(* parentheses.  WinDivert reads the result with "and" binding tighter     *)
(* than "or", so a text is modelled as what WinDivert reads: a sequence of *)
(* alternatives, each a sequence of literals.  An atom is a flag such as   *)
(* <<"tcp">> or a comparison such as <<"tcp.DstPort", 22>>.                *)
(***************************************************************************)
EXTENDS Integers, Sequences, FiniteSets, SequencesExt

CONSTANTS
  Fixed,    \* the address 195.82.146.78 of the default filters
  Others,   \* other IPv4 addresses
  Ports,    \* ports, 22 and 8080 among them
  Offered,  \* the filters (texts) a program makes
  Named,    \* variables a program keeps filters in
  MaxSteps  \* bound on the filters made, joined and added

IPv4 == Others \cup {Fixed}

\* What the methods of WinDivertTrafficFilter_ write: a flag, or a field and
\* what it is compared with.
Atoms ==
  {<<name>> : name \in {"ip", "ipv6", "tcp", "udp",
                        "outbound", "inbound", "loopback"}}
  \cup ({"ip.SrcAddr", "ip.DstAddr"} \X IPv4)
  \cup ({"ip6.SrcAddr", "ip6.DstAddr"} \X {"six"})
  \cup ({"tcp.SrcPort", "tcp.DstPort", "udp.SrcPort", "udp.DstPort"} \X Ports)

\* An atom, and how many '!' stand before it or its '='.
Literals == [atom: Atoms, neg: Nat]

Texts == Seq(Seq(Literals))

ASSUME FilterAssumption ==
  /\ Fixed \notin Others /\ "six" \notin IPv4
  /\ {22, 8080} \subseteq Ports /\ Ports \subseteq Nat
  /\ Offered \subseteq Texts
  /\ MaxSteps \in Nat

\* A packet on the wire: of IPv4 with its addresses, or of IPv6.
Packets ==
  [ver: {"ip"}, src: IPv4, dst: IPv4, proto: {"tcp", "udp"},
   sport: Ports, dport: Ports, out: BOOLEAN, loop: BOOLEAN]
  \cup
  [ver: {"ipv6"}, src: {"six"}, dst: {"six"}, proto: {"tcp", "udp"},
   sport: Ports, dport: Ports, out: BOOLEAN, loop: BOOLEAN]

Directions == {"out", "in"}

VARIABLES
  vpn,      \* get_vpn_address() of the settings; "six" is an IPv6 address
  filter,   \* the filters the program has in hand
  filters,  \* filters_out_ and filters_in_
  data,     \* outgoing_filters_data and incoming_filters_data
  started,  \* the capture has been started with these texts
  captured, \* the packets the two handles divert from then on
  steps     \* filters made, joined and added so far

filterVars == <<vpn, filter, filters, data, started, captured, steps>>

----------------------------------------------------------------------------
(* What WinDivert reads *)

IsComparison(lit) == Len(lit.atom) = 2

\* The packets that have the field of a comparison; a test of a field that
\* is missing fails, whichever comparison it is.
HasField(p, field) ==
  CASE field \in {"ip.SrcAddr", "ip.DstAddr"}   -> p.ver = "ip"
    [] field \in {"tcp.SrcPort", "tcp.DstPort"} -> p.proto = "tcp"
    [] field \in {"udp.SrcPort", "udp.DstPort"} -> p.proto = "udp"
    [] OTHER -> FALSE

FieldOf(p, field) ==
  CASE field = "ip.SrcAddr" -> p.src
    [] field = "ip.DstAddr" -> p.dst
    [] field \in {"tcp.SrcPort", "udp.SrcPort"} -> p.sport
    [] OTHER -> p.dport

\* The packets for which an atom holds.
Holds(p, atom) ==
  CASE atom \in {<<"ip">>, <<"ipv6">>} -> atom[1] = p.ver
    [] atom \in {<<"tcp">>, <<"udp">>} -> atom[1] = p.proto
    [] atom = <<"outbound">> -> p.out
    [] atom = <<"inbound">>  -> ~p.out
    [] atom = <<"loopback">> -> p.loop
    [] OTHER -> HasField(p, atom[1]) /\ FieldOf(p, atom[1]) = atom[2]

LiteralHolds(p, lit) ==
  IF IsComparison(lit)
  THEN /\ HasField(p, lit.atom[1])
       /\ (FieldOf(p, lit.atom[1]) = lit.atom[2]) = (lit.neg = 0)
  ELSE Holds(p, lit.atom) = (lit.neg % 2 = 0)

\* "!=" is a comparison and "!!=" is none; "ip6.SrcAddr" and "ip6.DstAddr"
\* are no fields.
Valid(text) ==
  /\ text # <<>>
  /\ \A i \in DOMAIN text : \A j \in DOMAIN text[i] :
       LET lit == text[i][j]
       IN  IsComparison(lit) =>
             /\ lit.neg <= 1
             /\ lit.atom[1] \notin {"ip6.SrcAddr", "ip6.DstAddr"}

\* The packets a text diverts.  With one that is not valid WinDivertOpen
\* fails, and nothing is diverted.
Matched(text) ==
  {p \in Packets : /\ Valid(text)
                   /\ \E i \in DOMAIN text : \A j \in DOMAIN text[i] :
                        LiteralHolds(p, text[i][j])}

----------------------------------------------------------------------------
(* WinDivertTrafficFilter_ and WinDivertTrafficFilterType *)

Literal(atom) == [atom |-> atom, neg |-> 0]

\* ipv4, ipv6, tcp, udp, outgoing_traffic, incoming_traffic, local_traffic.
Flag(name) == << <<Literal(<<name>>)>> >>

\* source, dest and the port filters of one protocol.
Compare(field, value) == << <<Literal(<<field, value>>)>> >>

\* src_port and dst_port write an "or" of the two protocols.
EitherPort(tcpField, udpField, port) ==
  << <<Literal(<<tcpField, port>>)>>, <<Literal(<<udpField, port>>)>> >>

Source(addr) ==
  Compare(IF addr = "six" THEN "ip6.SrcAddr" ELSE "ip.SrcAddr", addr)

\* operator&&: the last alternative of the one side and the first of the
\* other become one.
AndText(x, y) ==
  IF y = <<>> THEN x
  ELSE IF x = <<>> THEN y
  ELSE Front(x) \o << Last(x) \o Head(y) >> \o Tail(y)

\* operator||: text that is empty stands for "everything".
OrText(x, y) ==
  IF x = <<>> THEN x ELSE IF y = <<>> THEN y ELSE x \o y

Positions(x) == UNION {{i} \X (DOMAIN x[i]) : i \in DOMAIN x}

Before(p, q) == p[1] < q[1] \/ (p[1] = q[1] /\ p[2] < q[2])

\* The literal that operator! changes: the first one with a '=' in it, if
\* there is one, else the first of all.
NotAt(x) ==
  LET eqs == {p \in Positions(x) : IsComparison(x[p[1]][p[2]])}
  IN  IF eqs = {} THEN <<1, 1>>
      ELSE CHOOSE p \in eqs : \A q \in eqs \ {p} : Before(p, q)

\* operator!
NotText(x) == [x EXCEPT ![NotAt(x)[1]][NotAt(x)[2]].neg = @ + 1]

\* The operators change the filter on their left and return it.
Join(r, text, meant, plain) ==
  /\ ~started /\ steps < MaxSteps
  /\ filter' = [filter EXCEPT ![r] = [text |-> text, meant |-> meant,
                                      plain |-> plain]]
  /\ steps' = steps + 1
  /\ UNCHANGED <<vpn, filters, data, started, captured>>

\* For every filter the model keeps, beside its text, which packets were
\* meant, and whether it was put together of single tests with && alone,
\* none of them negated but flags and comparisons of addresses.
Make(r, text) == Join(r, text, Matched(text), Len(text) = 1)

And(r, s) ==
  /\ filter[r].text # <<>> /\ filter[s].text # <<>>
  /\ Join(r, AndText(filter[r].text, filter[s].text),
          filter[r].meant \cap filter[s].meant,
          filter[r].plain /\ filter[s].plain)

Or(r, s) ==
  /\ filter[r].text # <<>> /\ filter[s].text # <<>>
  /\ Join(r, OrText(filter[r].text, filter[s].text),
          filter[r].meant \cup filter[s].meant, FALSE)

Not(r) ==
  LET x == filter[r].text
  IN  /\ x # <<>>
      /\ Join(r, NotText(x), Packets \ filter[r].meant,
              /\ filter[r].plain
              /\ Cardinality(Positions(x)) = 1
              /\ IsComparison(x[1][1]) =>
                   /\ x[1][1].neg = 0
                   /\ x[1][1].atom[1] \in {"ip.SrcAddr", "ip.DstAddr"})

----------------------------------------------------------------------------
(* WinDivertClientVPNNetDriver_ *)

\* Mutant of Calculate: the filters are joined by "or".
CalculateOr(fs) ==
  FoldLeft(LAMBDA text, f : IF text = <<>> THEN f.text
                            ELSE OrText(text, f.text), <<>>, fs)

\* calculate_outgoing_filters, calculate_incoming_filters: from the start.
Calculate(fs) ==
  LET text[i \in 0 .. Len(fs)] ==
        IF i = 0 THEN <<>> ELSE AndText(text[i - 1], fs[i].text)
  IN  text[Len(fs)]

AddFilter(d, r) ==
  /\ ~started /\ steps < MaxSteps
  /\ filter[r].text # <<>>
  /\ filters' = [filters EXCEPT ![d] = Append(@, filter[r])]
  /\ data' = [data EXCEPT ![d] = Calculate(filters'[d])]
  /\ steps' = steps + 1
  /\ UNCHANGED <<vpn, filter, started, captured>>

\* A default filter; what all of them are meant to do, MeantByDefault says.
Default(text) == [text |-> text, meant |-> Packets, plain |-> TRUE]

\* Mutant of DefaultFilters: the tests of ssh and of local traffic are
\* left out.
DefaultFiltersBare ==
  [d \in Directions |->
    IF d = "out"
    THEN << Default(NotText(Source(vpn))),
            Default(Flag("outbound")),
            Default(Compare("ip.DstAddr", Fixed)) >>
    ELSE << Default(Flag("inbound")),
            Default(Source(vpn)),
            Default(Compare("ip.SrcAddr", Fixed)) >>]

\* apply_default_outgoing_filter and apply_default_incoming_filter.  The
\* test that the destination is not the server is commented out.
DefaultFilters ==
  [d \in Directions |->
    IF d = "out"
    THEN << Default(NotText(Source(vpn))),
            Default(Flag("outbound")),
            Default(NotText(Compare("tcp.DstPort", 22))),
            Default(NotText(Flag("loopback"))),
            Default(Compare("ip.DstAddr", Fixed)),
            Default(Compare("tcp.DstPort", 8080)) >>
    ELSE << Default(Flag("inbound")),
            Default(Source(vpn)),
            Default(NotText(Compare("tcp.SrcPort", 22))),
            Default(NotText(Flag("loopback"))),
            Default(Compare("ip.SrcAddr", Fixed)) >>]

\* start_capture_outgoing_traffic, start_capture_incoming_traffic, and
\* WinDivertOpen in the threads they start.
StartCapture ==
  /\ ~started
  /\ started' = TRUE
  /\ filters' = [d \in Directions |-> filters[d] \o DefaultFilters[d]]
  /\ data' = [d \in Directions |-> Calculate(filters'[d])]
  /\ captured' = [d \in Directions |-> Matched(data'[d])]
  /\ UNCHANGED <<vpn, filter, steps>>

FilterInit ==
  /\ vpn \in IPv4 \cup {"six"}
  /\ filter = [r \in Named |-> [text |-> <<>>, meant |-> Packets,
                                plain |-> TRUE]]
  /\ filters = [d \in Directions |-> <<>>]
  /\ data = [d \in Directions |-> <<>>]
  /\ started = FALSE
  /\ captured = [d \in Directions |-> {}]
  /\ steps = 0

FilterNext ==
  \/ \E r \in Named :
       \/ \E text \in Offered : Make(r, text)
       \/ \E s \in Named \ {r} : And(r, s) \/ Or(r, s)
       \/ Not(r)
       \/ \E d \in Directions : AddFilter(d, r)
  \/ StartCapture

FilterSpec == FilterInit /\ [][FilterNext]_filterVars

----------------------------------------------------------------------------
(* What must hold *)

\* What the default filters are there for, in words of packets.
MeantByDefault(d) ==
  {p \in Packets :
     /\ p.ver = "ip" /\ p.proto = "tcp" /\ ~p.loop
     /\ IF d = "out"
        THEN p.out /\ p.src # vpn /\ p.dst = Fixed /\ p.dport = 8080
        ELSE ~p.out /\ p.src = vpn /\ p.src = Fixed /\ p.sport # 22}

\* Filters made of single tests and && alone are read by WinDivert as they
\* were meant, in whatever order they were made, joined and added, together
\* with the default filters.
PlainFiltersMeanWhatTheySay ==
  \A d \in Directions :
    /\ started /\ vpn \in IPv4
    /\ \A i \in DOMAIN filters[d] : filters[d][i].plain
    =>
      captured[d] = {p \in MeantByDefault(d) :
                       \A i \in DOMAIN filters[d] : p \in filters[d][i].meant}

\* As long as no filter of a direction has an "or" in its text, nothing a
\* program adds can widen what is captured beyond the default filters: no
\* ssh, no local traffic, nothing of other hosts, no other direction, and
\* nothing of the tunnel itself unless its server is at the fixed address
\* and at port 8080.  That holds for the strangest negations too.
NoOrNeverWidens ==
  \A d \in Directions :
    (\A i \in DOMAIN filters[d] : Len(filters[d][i].text) = 1) =>
      captured[d] \subseteq MeantByDefault(d)
=============================================================================
