---------------------------- MODULE PacketCache ----------------------------
(***************************************************************************)
(* The statements in which have_full_packets, get_and_pop_packet and       *)
(* pop_last_packet share cache_ and the elements of packets_               *)
(* (qvpn_driver.cpp).  No lock guards them, so what the threads of several *)
(* tunnels do to one another between two of them is seen here; in          *)
(* PacketManager each call is one step.                                    *)
(*                                                                         *)
(* An element of packets_ is a node that is freed when it is erased, and   *)
(* cached_full_packet is a pointer to one.  Of its builder only counts     *)
(* which parts' bytes it holds and whether it is full; whether a part      *)
(* makes it full is left open.  A move leaves the builder without bytes    *)
(* and as full as it was.  build_packet and the search through packets_    *)
(* are one step each.                                                      *)
(***************************************************************************)
EXTENDS Integers, FiniteSets

CONSTANTS
  Threads,   \* threads that decode, one for each tunnel
  Ids,       \* packet ids
  MaxBuilt,  \* bound on the parts that are built in
  Null       \* nullptr

ASSUME CacheAssumption ==
  /\ MaxBuilt \in Nat
  /\ Null \notin Nat

VARIABLES
  table,     \* packets_: the node of each id that has one
  holds,     \* the parts whose bytes each node holds
  fullNodes, \* nodes whose builder is full
  pointer,   \* cache_.cached_full_packet: a node, freed or not, or Null
  cached,    \* cache_.cached
  place,     \* the next statement of each thread
  hand,      \* the parts in the packet each thread has moved out
  handed,    \* history: the parts that were handed on
  built,     \* count of the parts, each of which names one
  undef,     \* TRUE once a freed element or an empty packet has been used
  twoPops,   \* history: two threads were between query and end of pop at once
  late       \* history: parts added to a builder after it was moved out

cacheVars == <<pointer, cached>>
nodeVars  == <<table, holds, fullNodes>>
historyVars == <<handed, built, twoPops, late>>
manager == <<nodeVars, cacheVars, place, hand, undef, historyVars>>

Nodes == 1 .. MaxBuilt

\* The nodes that have not been freed.
Live == {table[id] : id \in DOMAIN table}

\* Where a thread is between its query and the end of its pop.
Window == {"mark", "test", "move", "retest", "erase", "unflag", "null"}

Popping(t) == place[t] \in Window

\* Where the element has lost its bytes and is still in packets_.
MovedOut == {"retest", "erase"}

GoTo(t, l) == place' = [place EXCEPT ![t] = l]

CacheInit ==
  /\ table = [id \in {} |-> Null]
  /\ holds = [n \in Nodes |-> {}]
  /\ fullNodes = {}
  /\ pointer = Null /\ cached = FALSE
  /\ place = [t \in Threads |-> "build"]
  /\ hand = [t \in Threads |-> {}]
  /\ handed = {}
  /\ built = 0
  /\ undef = FALSE
  /\ twoPops = FALSE /\ late = {}

\* Mutant of BuildPart: a builder that is there is replaced by a new one.
BuildPartReplaces(t, id) ==
  LET u == built + 1
  IN  /\ ~undef
      /\ place[t] = "build"
      /\ built < MaxBuilt
      /\ built' = u
      /\ table' = [i \in DOMAIN table \cup {id} |-> IF i = id THEN u ELSE table[i]]
      /\ holds' = [holds EXCEPT ![u] = {u}]
      /\ fullNodes' \in {fullNodes, fullNodes \cup {u}}
      /\ GoTo(t, "look")
      /\ UNCHANGED <<cacheVars, hand, handed, undef, twoPops, late>>

\* build_packet: the part is added to the builder of its id, or to a new one.
BuildPart(t, id) ==
  LET u == built + 1
      n == IF id \in DOMAIN table THEN table[id] ELSE u
  IN  /\ ~undef
      /\ place[t] = "build"
      /\ built < MaxBuilt
      /\ built' = u
      /\ table' = [i \in DOMAIN table \cup {id} |-> IF i = id THEN n ELSE table[i]]
      /\ holds' = [holds EXCEPT ![n] = @ \cup {u}]
      /\ fullNodes' \in {fullNodes, fullNodes \cup {n}}
      /\ late' = IF n = pointer /\ (\E s \in Threads : place[s] \in MovedOut)
                 THEN late \cup {u} ELSE late
      /\ GoTo(t, "look")
      /\ UNCHANGED <<cacheVars, hand, handed, undef, twoPops>>

\* build_packet, the early returns: the bytes are no part and change nothing.
BuildNothing(t) ==
  /\ ~undef
  /\ place[t] = "build"
  /\ GoTo(t, "look")
  /\ UNCHANGED <<nodeVars, cacheVars, hand, undef, historyVars>>

----------------------------------------------------------------------------
(* have_full_packets *)

\* cached_full_packet = &it of the first full element, whichever that is.
Look(t) ==
  /\ ~undef
  /\ place[t] = "look"
  /\ \E n \in Live \cap fullNodes : pointer' = n
  /\ twoPops' = (twoPops \/ \E u \in Threads : Popping(u))
  /\ GoTo(t, "mark")
  /\ UNCHANGED <<nodeVars, cached, hand, handed, built, undef, late>>

\* No element is full: decode_data returns nothing.
LookInVain(t) ==
  /\ ~undef
  /\ place[t] = "look"
  /\ Live \cap fullNodes = {}
  /\ GoTo(t, "build")
  /\ UNCHANGED <<nodeVars, cacheVars, hand, undef, historyVars>>

\* Mutant of Mark: cached stays as it is.
MarkNot(t) ==
  /\ ~undef
  /\ place[t] = "mark"
  /\ GoTo(t, "test")
  /\ UNCHANGED <<nodeVars, cacheVars, hand, undef, historyVars>>

\* cached = true.
Mark(t) ==
  /\ ~undef
  /\ place[t] = "mark"
  /\ cached' = TRUE
  /\ GoTo(t, "test")
  /\ UNCHANGED <<nodeVars, pointer, hand, undef, historyVars>>

----------------------------------------------------------------------------
(* get_and_pop_packet *)

\* if (cache_.cached).  The other branch erases elements of the map it is
\* iterating over, or finds none and leaves an empty packet.
Test(t) ==
  /\ ~undef
  /\ place[t] = "test"
  /\ undef' = ~cached
  /\ GoTo(t, "move")
  /\ UNCHANGED <<nodeVars, cacheVars, hand, historyVars>>

\* Mutant of Move: the packet is copied.
MoveCopies(t) ==
  /\ ~undef
  /\ place[t] = "move"
  /\ undef' = (pointer \notin Live)
  /\ IF pointer \in Live
     THEN /\ hand' = [hand EXCEPT ![t] = holds[pointer]]
          /\ UNCHANGED holds
     ELSE UNCHANGED <<hand, holds>>
  /\ GoTo(t, "retest")
  /\ UNCHANGED <<table, fullNodes, cacheVars, historyVars>>

\* packet = std::move(cached_full_packet->second): the element must exist.
Move(t) ==
  /\ ~undef
  /\ place[t] = "move"
  /\ undef' = (pointer \notin Live)
  /\ IF pointer \in Live
     THEN /\ hand' = [hand EXCEPT ![t] = holds[pointer]]
          /\ holds' = [holds EXCEPT ![pointer] = {}]
     ELSE UNCHANGED <<hand, holds>>
  /\ GoTo(t, "retest")
  /\ UNCHANGED <<table, fullNodes, cacheVars, historyVars>>

\* pop_last_packet: if (!cache_.cached) return.
Retest(t) ==
  /\ ~undef
  /\ place[t] = "retest"
  /\ GoTo(t, IF cached THEN "erase" ELSE "return")
  /\ UNCHANGED <<nodeVars, cacheVars, hand, undef, historyVars>>

\* packets_.erase(cached_full_packet->first): the element must exist.
Erase(t) ==
  /\ ~undef
  /\ place[t] = "erase"
  /\ undef' = (pointer \notin Live)
  /\ table' = [i \in {j \in DOMAIN table : table[j] # pointer} |-> table[i]]
  /\ GoTo(t, "unflag")
  /\ UNCHANGED <<holds, fullNodes, cacheVars, hand, historyVars>>

\* cached = false.
Unflag(t) ==
  /\ ~undef
  /\ place[t] = "unflag"
  /\ cached' = FALSE
  /\ GoTo(t, "null")
  /\ UNCHANGED <<nodeVars, pointer, hand, undef, historyVars>>

\* cached_full_packet = nullptr.
SetNull(t) ==
  /\ ~undef
  /\ place[t] = "null"
  /\ pointer' = Null
  /\ GoTo(t, "return")
  /\ UNCHANGED <<nodeVars, cached, hand, undef, historyVars>>

\* decode_data makes a QTunnelData of the packet, which reads its first bytes.
Return(t) ==
  /\ ~undef
  /\ place[t] = "return"
  /\ undef' = (hand[t] = {})
  /\ handed' = handed \cup hand[t]
  /\ hand' = [hand EXCEPT ![t] = {}]
  /\ GoTo(t, "build")
  /\ UNCHANGED <<nodeVars, cacheVars, built, twoPops, late>>

Pop(t) ==
  \/ Test(t) \/ Move(t) \/ Retest(t) \/ Erase(t) \/ Unflag(t) \/ SetNull(t)
  \/ Return(t)

CacheNext ==
  \E t \in Threads :
    \/ \E id \in Ids : BuildPart(t, id)
    \/ BuildNothing(t)
    \/ Look(t) \/ LookInVain(t) \/ Mark(t)
    \/ Pop(t)

CacheSpec == CacheInit /\ [][CacheNext]_manager

----------------------------------------------------------------------------
(* What must hold *)

\* A freed element or an empty packet is used only after two threads were
\* between their query and the end of their pop at the same time: the pointer
\* that dangles between the erase and the end of pop_last_packet harms nobody
\* else, and neither does a build_packet in between.
UndefinedNeedsTwoPops == undef => twoPops

\* What was built in is in a builder, in the hand of a thread or handed on.  A
\* part is lost only if two threads popped at once, or if it was added, by a
\* packet with the same id, to a builder between its move and its erase.
PartsKept ==
  \A u \in 1 .. built :
    \/ u \in handed
    \/ \E t \in Threads : u \in hand[t]
    \/ \E n \in Live : u \in holds[n]
    \/ twoPops
    \/ u \in late

\* No part is handed on twice, nor in two hands at a time, even where threads
\* pop the same element at once: the one that comes second moves an empty
\* packet out of it.
HandedOnce ==
  \A s, t \in Threads :
    /\ hand[t] \cap handed = {}
    /\ s # t => hand[s] \cap hand[t] = {}
=============================================================================
