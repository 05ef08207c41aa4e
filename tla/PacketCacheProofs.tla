-------------------------- MODULE PacketCacheProofs --------------------------
(***************************************************************************)
(* Proofs about PacketCache, the query and the pop of the packet manager   *)
(* statement by statement, for every number of threads, ids and parts.     *)
(***************************************************************************)
EXTENDS PacketCache, TLAPS

----------------------------------------------------------------------------
(* The inductive invariant *)

\* The places of a thread in decode_data.
Places == Window \cup {"build", "look", "return"}

\* Every variable keeps its type.
CacheTypes ==
  /\ table \in [DOMAIN table -> Nodes] /\ DOMAIN table \subseteq Ids
  /\ holds \in [Nodes -> SUBSET Nodes]
  /\ fullNodes \subseteq Nodes
  /\ pointer \in Nodes \cup {Null} /\ cached \in BOOLEAN
  /\ place \in [Threads -> Places]
  /\ hand \in [Threads -> SUBSET Nodes]
  /\ handed \subseteq Nodes /\ late \subseteq Nodes
  /\ built \in 0 .. MaxBuilt
  /\ undef \in BOOLEAN /\ twoPops \in BOOLEAN

\* A part is in one place, and what is not yet built is nowhere.
OnePlace ==
  /\ \A n \in Nodes : holds[n] \subseteq 1 .. built /\ holds[n] \cap handed = {}
  /\ \A n, m \in Nodes : n # m => holds[n] \cap holds[m] = {}
  /\ \A t \in Threads : /\ hand[t] \subseteq 1 .. built
                        /\ \A n \in Nodes : holds[n] \cap hand[t] = {}
                        /\ place[t] \in {"build", "look", "mark", "test", "move"}
                             => hand[t] = {}
  /\ handed \subseteq 1 .. built
  /\ \A i \in DOMAIN table : table[i] \in 1 .. built
  /\ \A i, j \in DOMAIN table : table[i] = table[j] => i = j

\* While no two threads have popped at once, the one that pops finds what it
\* looked up.
OneAtATime ==
  /\ ~undef
  /\ \A s, t \in Threads : Popping(s) /\ Popping(t) => s = t
  /\ \A t \in Threads :
       /\ place[t] \in {"mark", "test", "move", "retest", "erase"} => pointer \in Live
       /\ place[t] \in {"test", "move", "retest", "erase", "unflag"} => cached
       /\ place[t] \in {"retest", "erase", "unflag", "null", "return"} => hand[t] # {}
       /\ place[t] \in MovedOut => holds[pointer] \subseteq late
  /\ \A n \in Live : holds[n] # {} \/ (n = pointer /\ \E s \in Threads : place[s] \in MovedOut)

CacheInv ==
  /\ CacheTypes /\ OnePlace /\ HandedOnce /\ PartsKept
  /\ twoPops \/ OneAtATime


\* In the beginning nothing is built.
LEMMA CacheInitial == CacheInit => CacheInv
<1> SUFFICES ASSUME CacheInit PROVE CacheInv
  OBVIOUS
<1>1. DOMAIN table = {} /\ Live = {} /\ built = 0 /\ 1 .. built = {}
  BY DEF CacheInit, Live
<1>2. CacheTypes
  <2>1. table \in [DOMAIN table -> Nodes] /\ DOMAIN table \subseteq Ids
    BY <1>1 DEF CacheInit
  <2>2. holds \in [Nodes -> SUBSET Nodes] /\ hand \in [Threads -> SUBSET Nodes]
    BY DEF CacheInit
  <2>3. place \in [Threads -> Places]
    BY DEF CacheInit, Places
  <2>4. built \in 0 .. MaxBuilt
    BY <1>1, CacheAssumption
  <2>5. /\ cached \in BOOLEAN /\ undef \in BOOLEAN /\ twoPops \in BOOLEAN
        /\ pointer \in Nodes \cup {Null} /\ fullNodes \subseteq Nodes
        /\ handed \subseteq Nodes /\ late \subseteq Nodes
    BY Zenon DEF CacheInit
  <2> QED BY <2>1, <2>2, <2>3, <2>4, <2>5, Zenon DEF CacheTypes
<1>3. OnePlace /\ HandedOnce /\ PartsKept
  BY <1>1 DEF CacheInit, OnePlace, HandedOnce, PartsKept
<1>4. OneAtATime
  BY <1>1 DEF CacheInit, OneAtATime, Popping, Window, MovedOut
<1> QED BY <1>2, <1>3, <1>4 DEF CacheInv

\* Steps that move no bytes: they go from a place to a place and may change the
\* pointer, the flag and what is known of the pops.
LEMMA QuietTypes ==
  ASSUME CacheTypes, NEW t \in Threads, NEW l \in Places, GoTo(t, l),
         UNCHANGED <<nodeVars, hand, handed, built, late>>,
         pointer' \in Nodes \cup {Null}, cached' \in BOOLEAN,
         undef' \in BOOLEAN, twoPops' \in BOOLEAN
  PROVE  CacheTypes'
  BY DEF CacheTypes, GoTo, nodeVars

LEMMA QuietPlace ==
  ASSUME CacheTypes, OnePlace, HandedOnce, NEW t \in Threads, NEW l, GoTo(t, l),
         UNCHANGED <<nodeVars, hand, handed, built, late>>,
         l \in {"build", "look", "mark", "test", "move"} => hand[t] = {}
  PROVE  OnePlace' /\ HandedOnce'
  BY DEF CacheTypes, OnePlace, HandedOnce, GoTo, nodeVars

LEMMA QuietKept ==
  ASSUME PartsKept, UNCHANGED <<nodeVars, hand, handed, built, late>>,
         twoPops => twoPops'
  PROVE  PartsKept'
  BY DEF PartsKept, nodeVars, Live

\* A quiet step that stays in the window, or is the first of it, keeps
\* OneAtATime if what it leaves in pointer and cached fits its next place.
LEMMA QuietOne ==
  ASSUME CacheTypes, OneAtATime, NEW t \in Threads, NEW l, GoTo(t, l),
         UNCHANGED <<nodeVars, hand, late>>, ~undef',
         l \in Window => \A s \in Threads : Popping(s) => s = t,
         \/ UNCHANGED <<pointer, cached>> \/ \A s \in Threads : Popping(s) => s = t,
         l \in {"mark", "test", "move", "retest", "erase"} => pointer' \in Live,
         l \in {"test", "move", "retest", "erase", "unflag"} => cached',
         l \in {"retest", "erase", "unflag", "null", "return"} => hand[t] # {},
         l \in MovedOut => holds[pointer'] \subseteq late,
         place[t] \in MovedOut => l \in MovedOut /\ pointer' = pointer
  PROVE  OneAtATime'
<1>1. /\ place'[t] = l /\ \A s \in Threads \ {t} : place'[s] = place[s]
      /\ Live' = Live
  BY DEF CacheTypes, GoTo, nodeVars, Live
<1>2. ASSUME NEW n \in Live
      PROVE  holds[n] # {} \/ (n = pointer' /\ \E s \in Threads : place'[s] \in MovedOut)
  <2>1. SUFFICES ASSUME n = pointer, NEW s \in Threads, place[s] \in MovedOut
                 PROVE  n = pointer' /\ \E r \in Threads : place'[r] \in MovedOut
    BY DEF OneAtATime
  <2>2. CASE s = t
    BY <1>1, <2>1, <2>2
  <2>3. CASE s # t
    <3>1. Popping(s)
      BY <2>1 DEF MovedOut, Popping, Window
    <3> QED BY <1>1, <2>1, <2>3, <3>1
  <2> QED BY <2>2, <2>3
<1>3. ASSUME NEW s \in Threads, NEW r \in Threads, Popping(s)', Popping(r)'
      PROVE  s = r
  BY <1>1, <1>3 DEF OneAtATime, Popping
<1>4. ASSUME NEW s \in Threads \ {t}
      PROVE
       /\ place'[s] \in {"mark", "test", "move", "retest", "erase"} => pointer' \in Live
       /\ place'[s] \in {"test", "move", "retest", "erase", "unflag"} => cached'
       /\ place'[s] \in {"retest", "erase", "unflag", "null", "return"} => hand[s] # {}
       /\ place'[s] \in MovedOut => holds[pointer'] \subseteq late
  <2>1. CASE Popping(s)
    <3>1. UNCHANGED <<pointer, cached>>
      BY <2>1
    <3> QED BY <1>1, <3>1 DEF OneAtATime
  <2>2. CASE ~Popping(s)
    BY <1>1, <2>2 DEF OneAtATime, Popping, Window, MovedOut
  <2> QED BY <2>1, <2>2
<1>5. /\ place'[t] \in {"mark", "test", "move", "retest", "erase"} => pointer' \in Live
      /\ place'[t] \in {"test", "move", "retest", "erase", "unflag"} => cached'
      /\ place'[t] \in {"retest", "erase", "unflag", "null", "return"} => hand[t] # {}
      /\ place'[t] \in MovedOut => holds[pointer'] \subseteq late
  BY <1>1
<1>6. holds' = holds /\ hand' = hand /\ late' = late
  BY DEF nodeVars
<1> QED BY <1>1, <1>2, <1>3, <1>4, <1>5, <1>6 DEF OneAtATime

\* The steps that move no bytes keep the invariant.
LEMMA StatementQuiet ==
  ASSUME CacheInv, NEW t \in Threads,
         \/ BuildNothing(t) \/ Look(t) \/ LookInVain(t) \/ Mark(t) \/ Test(t)
         \/ Retest(t) \/ Unflag(t) \/ SetNull(t)
  PROVE  CacheInv'
<1> USE DEF CacheInv
<1>1. \A s \in Threads : place[s] \in Places
  BY DEF CacheTypes
<1>2. \A n \in Live : n \in Nodes
  BY DEF Live, CacheTypes
<1>3. CASE Look(t)
  <2>1. PICK n \in Live : pointer' = n
    BY <1>3 DEF Look
  <2>2. /\ place[t] = "look" /\ GoTo(t, "mark") /\ cached' = cached /\ undef' = undef
        /\ UNCHANGED <<nodeVars, hand, handed, built, late>>
        /\ twoPops' = (twoPops \/ \E u \in Threads : Popping(u))
    BY <1>3 DEF Look
  <2>3. CacheTypes'
    <3>1. "mark" \in Places
      BY DEF Places, Window
    <3> QED BY <1>2, <2>1, <2>2, <3>1, QuietTypes DEF CacheTypes
  <2>4. OnePlace' /\ HandedOnce' /\ PartsKept'
    BY <2>2, QuietPlace, QuietKept DEF OnePlace
  <2>5. ASSUME ~twoPops' PROVE OneAtATime'
    <3>1. OneAtATime /\ \A s \in Threads : ~Popping(s)
      BY <2>2, <2>5
    <3>2. ~undef'
      BY <2>2, <3>1 DEF OneAtATime
    <3> QED BY <2>1, <2>2, <3>1, <3>2, QuietOne DEF MovedOut
  <2> QED BY <2>3, <2>4, <2>5
<1>4. ASSUME BuildNothing(t) \/ LookInVain(t) PROVE CacheInv'
  <2>1. PICK l \in {"build", "look"} : GoTo(t, l)
    BY <1>4 DEF BuildNothing, LookInVain
  <2>2. /\ place[t] \in {"build", "look"} /\ undef' = undef /\ twoPops' = twoPops
        /\ UNCHANGED <<nodeVars, hand, handed, built, late>>
        /\ UNCHANGED <<pointer, cached>>
    BY <1>4 DEF BuildNothing, LookInVain, cacheVars, historyVars
  <2>3. CacheTypes'
    <3>1. l \in Places
      BY DEF Places
    <3> QED BY <2>1, <2>2, <3>1, QuietTypes DEF CacheTypes
  <2>4. OnePlace' /\ HandedOnce' /\ PartsKept'
    BY <2>1, <2>2, QuietPlace, QuietKept DEF OnePlace
  <2>5. ASSUME ~twoPops' PROVE OneAtATime'
    <3>1. OneAtATime /\ ~undef'
      BY <2>5, <2>2 DEF OneAtATime
    <3> QED BY <2>1, <2>2, <3>1, QuietOne DEF MovedOut, Window
  <2> QED BY <2>3, <2>4, <2>5
<1>5. ASSUME Mark(t) \/ Test(t) \/ Retest(t) \/ Unflag(t) \/ SetNull(t)
      PROVE  CacheInv'
  <2>1. Popping(t) /\ twoPops' = twoPops
        /\ UNCHANGED <<nodeVars, hand, handed, built, late>>
    BY <1>5 DEF Mark, Test, Retest, Unflag, SetNull, Popping, Window, historyVars
  <2>2. OneAtATime => \A s \in Threads : Popping(s) => s = t
    BY <2>1 DEF OneAtATime
  <2>3. CASE Mark(t)
    <3>1. /\ place[t] = "mark" /\ GoTo(t, "test") /\ "test" \in Places
          /\ pointer' = pointer /\ cached' = TRUE /\ undef' = undef
      BY <2>3 DEF Mark, Places, Window
    <3>2. CacheTypes' /\ OnePlace' /\ HandedOnce' /\ PartsKept'
      BY <2>1, <3>1, QuietTypes, QuietPlace, QuietKept DEF OnePlace, CacheTypes
    <3>3. ASSUME OneAtATime PROVE OneAtATime'
      BY <2>1, <2>2, <3>1, <3>3, QuietOne DEF MovedOut, OneAtATime
    <3> QED BY <2>1, <3>2, <3>3
  <2>4. CASE Test(t)
    <3>1. /\ place[t] = "test" /\ GoTo(t, "move") /\ "move" \in Places
          /\ UNCHANGED <<pointer, cached>> /\ undef' = ~cached
      BY <2>4 DEF Test, Places, Window, cacheVars
    <3>2. CacheTypes' /\ OnePlace' /\ HandedOnce' /\ PartsKept'
      BY <2>1, <3>1, QuietTypes, QuietPlace, QuietKept DEF OnePlace, CacheTypes
    <3>3. ASSUME OneAtATime PROVE OneAtATime'
      <4>1. cached /\ pointer \in Live
        BY <3>1, <3>3 DEF OneAtATime
      <4> QED BY <2>1, <2>2, <3>1, <3>3, <4>1, QuietOne DEF MovedOut
    <3> QED BY <2>1, <3>2, <3>3
  <2>5. CASE Retest(t)
    <3>1. PICK l : l = IF cached THEN "erase" ELSE "return"
      OBVIOUS
    <3>2. /\ place[t] = "retest" /\ GoTo(t, l) /\ l \in Places
          /\ UNCHANGED <<pointer, cached>> /\ undef' = undef
          /\ l \notin {"build", "look", "mark", "test", "move"}
      BY <2>5, <3>1 DEF Retest, Places, Window, cacheVars
    <3>3. CacheTypes' /\ OnePlace' /\ HandedOnce' /\ PartsKept'
      <4>1. CacheTypes'
        BY <2>1, <3>2, QuietTypes DEF CacheTypes
      <4>2. OnePlace' /\ HandedOnce'
        BY <2>1, <3>2, QuietPlace
      <4> QED BY <2>1, <4>1, <4>2, QuietKept
    <3>4. ASSUME OneAtATime PROVE OneAtATime'
      <4>1. /\ cached /\ pointer \in Live /\ l = "erase" /\ ~undef' /\ hand[t] # {}
            /\ holds[pointer] \subseteq late
        BY <3>1, <3>2, <3>4 DEF OneAtATime, MovedOut
      <4> QED BY <2>1, <2>2, <3>2, <3>4, <4>1, QuietOne DEF MovedOut
    <3> QED BY <2>1, <3>3, <3>4
  <2>6. CASE Unflag(t)
    <3>1. /\ place[t] = "unflag" /\ GoTo(t, "null") /\ "null" \in Places
          /\ pointer' = pointer /\ cached' = FALSE /\ undef' = undef
      BY <2>6 DEF Unflag, Places, Window
    <3>2. CacheTypes' /\ OnePlace' /\ HandedOnce' /\ PartsKept'
      BY <2>1, <3>1, QuietTypes, QuietPlace, QuietKept DEF OnePlace, CacheTypes
    <3>3. ASSUME OneAtATime PROVE OneAtATime'
      <4>1. hand[t] # {} /\ ~undef'
        BY <3>1, <3>3 DEF OneAtATime
      <4> QED BY <2>1, <2>2, <3>1, <3>3, <4>1, QuietOne DEF MovedOut
    <3> QED BY <2>1, <3>2, <3>3
  <2>7. CASE SetNull(t)
    <3>1. /\ place[t] = "null" /\ GoTo(t, "return") /\ "return" \in Places
          /\ pointer' = Null /\ cached' = cached /\ undef' = undef
      BY <2>7 DEF SetNull, Places, Window
    <3>2. CacheTypes' /\ OnePlace' /\ HandedOnce' /\ PartsKept'
      BY <2>1, <3>1, QuietTypes, QuietPlace, QuietKept DEF OnePlace, CacheTypes
    <3>3. ASSUME OneAtATime PROVE OneAtATime'
      <4>1. hand[t] # {} /\ ~undef'
        BY <3>1, <3>3 DEF OneAtATime
      <4> QED BY <2>1, <2>2, <3>1, <3>3, <4>1, QuietOne DEF MovedOut, Window
    <3> QED BY <2>1, <3>2, <3>3
  <2> QED BY <1>5, <2>3, <2>4, <2>5, <2>6, <2>7
<1> QED BY <1>3, <1>4, <1>5

\* The erase keeps the invariant: what the element still held came too late.
LEMMA EraseStep ==
  ASSUME CacheInv, NEW t \in Threads, Erase(t)
  PROVE  CacheInv'
<1> USE DEF CacheInv
<1>1. /\ ~undef /\ place[t] = "erase" /\ GoTo(t, "unflag")
      /\ undef' = (pointer \notin Live)
      /\ table' = [i \in {j \in DOMAIN table : table[j] # pointer} |-> table[i]]
      /\ UNCHANGED <<holds, fullNodes, pointer, cached, hand, handed, built, twoPops, late>>
  BY DEF Erase, cacheVars, historyVars
<1>2. /\ DOMAIN table' = {j \in DOMAIN table : table[j] # pointer}
      /\ \A i \in DOMAIN table' : table'[i] = table[i]
      /\ Live' = Live \ {pointer}
  <2>1. /\ DOMAIN table' = {j \in DOMAIN table : table[j] # pointer}
        /\ \A i \in DOMAIN table' : table'[i] = table[i]
    BY <1>1
  <2> QED BY <2>1 DEF Live
<1>3. /\ place'[t] = "unflag" /\ \A s \in Threads \ {t} : place'[s] = place[s]
      /\ place' \in [Threads -> Places]
  BY <1>1 DEF CacheTypes, GoTo, Places, Window
<1>4. CacheTypes'
  <2>1. table' \in [DOMAIN table' -> Nodes] /\ DOMAIN table' \subseteq Ids
    BY <1>1, <1>2 DEF CacheTypes
  <2> QED BY <1>1, <1>3, <2>1 DEF CacheTypes
<1>5. OnePlace' /\ HandedOnce'
  <2>1. HandedOnce'
    BY <1>1 DEF HandedOnce
  <2>2. ASSUME NEW s \in Threads,
               place'[s] \in {"build", "look", "mark", "test", "move"}
        PROVE  hand[s] = {}
    BY <1>3, <2>2 DEF OnePlace
  <2> QED BY <1>1, <1>2, <2>1, <2>2 DEF OnePlace
<1>6. CASE twoPops
  BY <1>1, <1>4, <1>5, <1>6 DEF PartsKept
<1>7. ASSUME OneAtATime PROVE OneAtATime' /\ PartsKept'
  <2>1. /\ pointer \in Live /\ cached /\ hand[t] # {} /\ holds[pointer] \subseteq late
        /\ \A s \in Threads : Popping(s) => s = t
    BY <1>1, <1>7 DEF OneAtATime, MovedOut, Popping, Window
  <2>2. PartsKept'
    BY <1>1, <1>2, <2>1 DEF PartsKept
  <2>3. \A s \in Threads : Popping(s)' => s = t
    BY <1>3, <2>1 DEF Popping
  <2>4. \A n \in Live' : holds'[n] # {}
    BY <1>1, <1>2, <1>7 DEF OneAtATime
  <2>5. ASSUME NEW s \in Threads
        PROVE
         /\ place'[s] \in {"mark", "test", "move", "retest", "erase"} => pointer' \in Live'
         /\ place'[s] \in {"test", "move", "retest", "erase", "unflag"} => cached'
         /\ place'[s] \in {"retest", "erase", "unflag", "null", "return"} => hand'[s] # {}
         /\ place'[s] \in MovedOut => holds'[pointer'] \subseteq late'
    <3>1. CASE s = t
      BY <1>1, <1>3, <2>1, <3>1 DEF MovedOut
    <3>2. CASE s # t
      BY <1>1, <1>3, <1>7, <2>1, <3>2 DEF OneAtATime, Popping, Window, MovedOut
    <3> QED BY <3>1, <3>2
  <2> QED BY <1>1, <2>1, <2>2, <2>3, <2>4, <2>5 DEF OneAtATime
<1> QED BY <1>4, <1>5, <1>6, <1>7

\* The move keeps the invariant: what the element held is in one hand.
LEMMA MoveStep ==
  ASSUME CacheInv, NEW t \in Threads, Move(t)
  PROVE  CacheInv'
<1> USE DEF CacheInv
<1>1. /\ ~undef /\ place[t] = "move" /\ GoTo(t, "retest")
      /\ undef' = (pointer \notin Live)
      /\ UNCHANGED <<table, fullNodes, pointer, cached, handed, built, twoPops, late>>
      /\ Live' = Live
  BY DEF Move, cacheVars, historyVars, Live
<1>2. /\ place'[t] = "retest" /\ \A s \in Threads \ {t} : place'[s] = place[s]
      /\ place' \in [Threads -> Places]
  BY <1>1 DEF CacheTypes, GoTo, Places, Window
<1>3. CASE pointer \notin Live
  <2>1. UNCHANGED <<hand, holds>> /\ twoPops
    BY <1>1, <1>3 DEF Move, OneAtATime
  <2>2. CacheTypes'
    BY <1>1, <1>2, <2>1 DEF CacheTypes
  <2>3. OnePlace' /\ HandedOnce'
    BY <1>1, <1>2, <2>1 DEF OnePlace, HandedOnce
  <2> QED BY <1>1, <2>1, <2>2, <2>3 DEF PartsKept
<1>4. CASE pointer \in Live
  <2>1. /\ hand' = [hand EXCEPT ![t] = holds[pointer]]
        /\ holds' = [holds EXCEPT ![pointer] = {}]
        /\ pointer \in Nodes /\ hand[t] = {}
    BY <1>1, <1>4 DEF Move, Live, CacheTypes, OnePlace
  <2>2. /\ hand'[t] = holds[pointer] /\ \A s \in Threads \ {t} : hand'[s] = hand[s]
        /\ holds'[pointer] = {} /\ \A n \in Nodes \ {pointer} : holds'[n] = holds[n]
        /\ hand' \in [Threads -> SUBSET Nodes] /\ holds' \in [Nodes -> SUBSET Nodes]
    BY <2>1 DEF CacheTypes
  <2>3. CacheTypes'
    BY <1>1, <1>2, <2>2 DEF CacheTypes
  <2>4. HandedOnce'
    BY <1>1, <2>1, <2>2 DEF HandedOnce, OnePlace
  <2>5. OnePlace'
    <3>1. \A n \in Nodes : holds'[n] \subseteq 1 .. built /\ holds'[n] \cap handed = {}
      BY <2>1, <2>2 DEF OnePlace
    <3>2. \A n, m \in Nodes : n # m => holds'[n] \cap holds'[m] = {}
      BY <2>1, <2>2 DEF OnePlace
    <3>3. ASSUME NEW s \in Threads
          PROVE  /\ hand'[s] \subseteq 1 .. built
                 /\ \A n \in Nodes : holds'[n] \cap hand'[s] = {}
                 /\ place'[s] \in {"build", "look", "mark", "test", "move"}
                      => hand'[s] = {}
      BY <1>2, <2>1, <2>2 DEF OnePlace
    <3> QED BY <1>1, <3>1, <3>2, <3>3 DEF OnePlace
  <2>6. PartsKept'
    <3>1. ASSUME NEW u \in 1 .. built, NEW n \in Live, u \in holds[n]
          PROVE  u \in hand'[t] \/ \E m \in Live : u \in holds'[m]
      <4>1. n \in Nodes
        BY DEF Live, CacheTypes
      <4> QED BY <2>2, <3>1, <4>1
    <3>2. ASSUME NEW u \in 1 .. built, NEW s \in Threads, u \in hand[s]
          PROVE  u \in hand'[s]
      BY <2>1, <2>2, <3>2
    <3> QED BY <1>1, <3>1, <3>2 DEF PartsKept
  <2>7. ASSUME OneAtATime PROVE OneAtATime'
    <3>1. cached /\ \A s \in Threads : Popping(s) => s = t
      BY <1>1, <2>7 DEF OneAtATime, Popping, Window
    <3>2. \A s \in Threads : place[s] \notin MovedOut
      BY <1>1, <3>1 DEF Popping, MovedOut, Window
    <3>3. holds[pointer] # {} /\ \A n \in Live : holds[n] # {}
      BY <1>4, <2>7, <3>2 DEF OneAtATime
    <3>4. \A s \in Threads : Popping(s)' => s = t
      BY <1>2, <3>1 DEF Popping
    <3>5. ASSUME NEW n \in Live'
          PROVE  holds'[n] # {} \/ (n = pointer' /\ place'[t] \in MovedOut)
      <4>1. n \in Nodes /\ n \in Live
        BY <1>1 DEF Live, CacheTypes
      <4> QED BY <1>1, <1>2, <2>2, <3>3, <4>1 DEF MovedOut
    <3>6. ASSUME NEW s \in Threads
          PROVE
           /\ place'[s] \in {"mark", "test", "move", "retest", "erase"} => pointer' \in Live'
           /\ place'[s] \in {"test", "move", "retest", "erase", "unflag"} => cached'
           /\ place'[s] \in {"retest", "erase", "unflag", "null", "return"} => hand'[s] # {}
           /\ place'[s] \in MovedOut => holds'[pointer'] \subseteq late'
      <4>1. CASE s = t
        BY <1>1, <1>2, <1>4, <2>2, <3>1, <3>3, <4>1
      <4>2. CASE s # t
        BY <1>1, <1>2, <2>2, <2>7, <3>1, <4>2 DEF OneAtATime, Popping, Window, MovedOut
      <4> QED BY <4>1, <4>2
    <3> QED BY <1>1, <1>4, <3>4, <3>5, <3>6 DEF OneAtATime
  <2> QED BY <1>1, <2>3, <2>4, <2>5, <2>6, <2>7
<1> QED BY <1>3, <1>4

\* The return keeps the invariant.
LEMMA ReturnStep ==
  ASSUME CacheInv, NEW t \in Threads, Return(t)
  PROVE  CacheInv'
<1> USE DEF CacheInv
<1>1. /\ ~undef /\ place[t] = "return" /\ GoTo(t, "build")
      /\ undef' = (hand[t] = {})
      /\ handed' = handed \cup hand[t]
      /\ hand' = [hand EXCEPT ![t] = {}]
      /\ UNCHANGED <<table, holds, fullNodes, pointer, cached, built, twoPops, late>>
      /\ Live' = Live
  BY DEF Return, cacheVars, nodeVars, Live
<1>2. /\ place'[t] = "build" /\ \A s \in Threads \ {t} : place'[s] = place[s]
      /\ place' \in [Threads -> Places]
      /\ hand'[t] = {} /\ \A s \in Threads \ {t} : hand'[s] = hand[s]
      /\ hand' \in [Threads -> SUBSET Nodes]
  BY <1>1 DEF CacheTypes, GoTo, Places
<1>3. CacheTypes'
  BY <1>1, <1>2 DEF CacheTypes
<1>4. HandedOnce'
  BY <1>1, <1>2 DEF HandedOnce
<1>5. OnePlace'
  <2>1. ASSUME NEW s \in Threads
        PROVE  /\ hand'[s] \subseteq 1 .. built
               /\ \A n \in Nodes : holds[n] \cap hand'[s] = {}
               /\ place'[s] \in {"build", "look", "mark", "test", "move"}
                    => hand'[s] = {}
    BY <1>2 DEF OnePlace
  <2>2. /\ handed' \subseteq 1 .. built
        /\ \A n \in Nodes : holds[n] \cap handed' = {}
    BY <1>1 DEF OnePlace
  <2> QED BY <1>1, <2>1, <2>2 DEF OnePlace
<1>6. PartsKept'
  <2>1. ASSUME NEW u \in 1 .. built, NEW s \in Threads, u \in hand[s]
        PROVE  u \in handed' \/ u \in hand'[s]
    BY <1>1, <1>2, <2>1
  <2> QED BY <1>1, <2>1 DEF PartsKept
<1>7. ASSUME OneAtATime PROVE OneAtATime'
  <2>1. hand[t] # {} /\ ~Popping(t)
    BY <1>1, <1>7 DEF OneAtATime, Popping, Window
  <2>2. \A s, r \in Threads : Popping(s)' /\ Popping(r)' => s = r
    BY <1>2, <1>7, <2>1 DEF OneAtATime, Popping, Window
  <2>3. ASSUME NEW s \in Threads
        PROVE
         /\ place'[s] \in {"mark", "test", "move", "retest", "erase"} => pointer' \in Live'
         /\ place'[s] \in {"test", "move", "retest", "erase", "unflag"} => cached'
         /\ place'[s] \in {"retest", "erase", "unflag", "null", "return"} => hand'[s] # {}
         /\ place'[s] \in MovedOut => holds'[pointer'] \subseteq late'
    <3>1. CASE s = t
      BY <1>2, <3>1 DEF MovedOut
    <3>2. CASE s # t
      BY <1>1, <1>2, <1>7, <3>2 DEF OneAtATime
    <3> QED BY <3>1, <3>2
  <2>4. ASSUME NEW n \in Live'
        PROVE  holds'[n] # {} \/ (n = pointer' /\ \E s \in Threads : place'[s] \in MovedOut)
    <3>1. \A s \in Threads : place[s] \in MovedOut => place'[s] \in MovedOut
      BY <1>1, <1>2 DEF MovedOut
    <3> QED BY <1>1, <1>7, <3>1 DEF OneAtATime
  <2> QED BY <1>1, <2>1, <2>2, <2>3, <2>4 DEF OneAtATime
<1> QED BY <1>1, <1>3, <1>4, <1>5, <1>6, <1>7

\* build_packet keeps the invariant: a part that meets an element whose bytes
\* are already moved out is late.
LEMMA BuildPartStep ==
  ASSUME CacheInv, NEW t \in Threads, NEW id \in Ids, BuildPart(t, id)
  PROVE  CacheInv'
<1> USE DEF CacheInv
<1>1. PICK u, n : /\ u = built + 1
                  /\ n = IF id \in DOMAIN table THEN table[id] ELSE u
  OBVIOUS
<1>2. /\ ~undef /\ place[t] = "build" /\ GoTo(t, "look") /\ built < MaxBuilt
      /\ built' = u
      /\ table' = [i \in DOMAIN table \cup {id} |-> IF i = id THEN n ELSE table[i]]
      /\ holds' = [holds EXCEPT ![n] = @ \cup {u}]
      /\ fullNodes' \in {fullNodes, fullNodes \cup {n}}
      /\ late' = IF n = pointer /\ (\E s \in Threads : place[s] \in MovedOut)
                 THEN late \cup {u} ELSE late
      /\ UNCHANGED <<pointer, cached, hand, handed, undef, twoPops>>
  BY <1>1 DEF BuildPart, cacheVars
<1>3. /\ u \in Nodes /\ n \in Nodes /\ n \in 1 .. u /\ u \notin 1 .. built
      /\ 1 .. u = 1 .. built \cup {u}
      /\ built \in Nat /\ u \in 0 .. MaxBuilt
  <2>1. built \in Nat /\ u = built + 1 /\ u <= MaxBuilt /\ MaxBuilt \in Nat
    BY <1>1, <1>2, CacheAssumption DEF CacheTypes
  <2>2. id \in DOMAIN table => table[id] \in 1 .. built
    BY DEF OnePlace
  <2> QED BY <1>1, <2>1, <2>2 DEF Nodes
<1>4. /\ DOMAIN table' = DOMAIN table \cup {id}
      /\ table'[id] = n /\ \A i \in DOMAIN table : table'[i] = table[i]
      /\ Live' = Live \cup {n}
      /\ n \notin Live => n = u
  <2>1. /\ DOMAIN table' = DOMAIN table \cup {id} /\ table'[id] = n
        /\ \A i \in DOMAIN table : table'[i] = table[i]
    BY <1>1, <1>2
  <2> QED BY <1>1, <2>1 DEF Live
<1>5. /\ place'[t] = "look" /\ \A s \in Threads \ {t} : place'[s] = place[s]
      /\ place' \in [Threads -> Places]
  BY <1>2 DEF CacheTypes, GoTo, Places
<1>6. /\ holds'[n] = holds[n] \cup {u}
      /\ \A m \in Nodes \ {n} : holds'[m] = holds[m]
      /\ holds' \in [Nodes -> SUBSET Nodes]
  BY <1>2, <1>3 DEF CacheTypes
<1>7. CacheTypes'
  <2>1. table' \in [DOMAIN table' -> Nodes] /\ DOMAIN table' \subseteq Ids
    BY <1>2, <1>3, <1>4 DEF CacheTypes
  <2> QED BY <1>2, <1>3, <1>5, <1>6, <2>1 DEF CacheTypes
<1>8. HandedOnce'
  BY <1>2 DEF HandedOnce
<1>9. OnePlace'
  <2>1. ASSUME NEW m \in Nodes
        PROVE  holds'[m] \subseteq 1 .. u /\ holds'[m] \cap handed = {}
    BY <1>3, <1>6 DEF OnePlace
  <2>2. \A m, k \in Nodes : m # k => holds'[m] \cap holds'[k] = {}
    BY <1>3, <1>6 DEF OnePlace
  <2>3. ASSUME NEW s \in Threads
        PROVE  /\ hand[s] \subseteq 1 .. u
               /\ \A m \in Nodes : holds'[m] \cap hand[s] = {}
               /\ place'[s] \in {"build", "look", "mark", "test", "move"}
                    => hand[s] = {}
    BY <1>2, <1>3, <1>5, <1>6 DEF OnePlace
  <2>4. handed \subseteq 1 .. u
    BY <1>3 DEF OnePlace
  <2>5. \A i \in DOMAIN table' : table'[i] \in 1 .. u
    BY <1>3, <1>4 DEF OnePlace
  <2>6. \A i, j \in DOMAIN table' : table'[i] = table'[j] => i = j
    BY <1>1, <1>3, <1>4 DEF OnePlace
  <2> QED BY <1>2, <2>1, <2>2, <2>3, <2>4, <2>5, <2>6 DEF OnePlace
<1>10. PartsKept'
  <2>1. ASSUME NEW v \in 1 .. u
        PROVE  \/ v \in handed
               \/ \E s \in Threads : v \in hand[s]
               \/ \E m \in Live' : v \in holds'[m]
               \/ twoPops
               \/ v \in late'
    <3>1. CASE v = u
      BY <1>4, <1>6, <3>1
    <3>2. CASE v \in 1 .. built
      <4>1. ASSUME NEW m \in Live, v \in holds[m]
            PROVE  \E k \in Live' : v \in holds'[k]
        <5>1. m \in Nodes
          BY DEF Live, CacheTypes
        <5> QED BY <1>4, <1>6, <4>1, <5>1
      <4> QED BY <1>2, <3>2, <4>1 DEF PartsKept
    <3> QED BY <1>3, <3>1, <3>2
  <2> QED BY <1>2, <2>1 DEF PartsKept
<1>11. ASSUME OneAtATime PROVE OneAtATime'
  <2>1. /\ ~Popping(t)
        /\ \A s \in Threads : place'[s] \in MovedOut <=> place[s] \in MovedOut
    BY <1>2, <1>5 DEF Popping, Window, MovedOut
  <2>2. \A s, r \in Threads : Popping(s)' /\ Popping(r)' => s = r
    BY <1>5, <1>11 DEF OneAtATime, Popping, Window
  <2>3. ASSUME NEW s \in Threads, place'[s] \in MovedOut
        PROVE  holds'[pointer] \subseteq late'
    <3>1. holds[pointer] \subseteq late /\ pointer \in Live
      BY <1>11, <2>1, <2>3 DEF OneAtATime, MovedOut
    <3>2. pointer \in Nodes
      BY <3>1 DEF Live, CacheTypes
    <3> QED BY <1>2, <1>6, <2>1, <2>3, <3>1, <3>2
  <2>4. ASSUME NEW s \in Threads
        PROVE
         /\ place'[s] \in {"mark", "test", "move", "retest", "erase"} => pointer \in Live'
         /\ place'[s] \in {"test", "move", "retest", "erase", "unflag"} => cached
         /\ place'[s] \in {"retest", "erase", "unflag", "null", "return"} => hand[s] # {}
    <3>1. CASE s = t
      BY <1>5, <3>1
    <3>2. CASE s # t
      BY <1>4, <1>5, <1>11, <3>2 DEF OneAtATime
    <3> QED BY <3>1, <3>2
  <2>5. ASSUME NEW m \in Live'
        PROVE  holds'[m] # {} \/ (m = pointer /\ \E s \in Threads : place'[s] \in MovedOut)
    <3>1. CASE m = n
      BY <1>6, <3>1
    <3>2. CASE m # n
      <4>1. m \in Live /\ m \in Nodes
        BY <1>4, <3>2 DEF Live, CacheTypes
      <4> QED BY <1>6, <1>11, <2>1, <3>2, <4>1 DEF OneAtATime
    <3> QED BY <3>1, <3>2
  <2> QED BY <1>2, <1>11, <2>2, <2>3, <2>4, <2>5 DEF OneAtATime
<1> QED BY <1>2, <1>7, <1>8, <1>9, <1>10, <1>11

\* Every statement keeps the invariant.
LEMMA StatementStep == CacheInv /\ [CacheNext]_manager => CacheInv'
<1> SUFFICES ASSUME CacheInv, [CacheNext]_manager PROVE CacheInv'
  OBVIOUS
<1>1. CASE UNCHANGED manager
  <2>1. /\ UNCHANGED <<table, holds, fullNodes, pointer, cached, place, hand, undef>>
        /\ UNCHANGED <<handed, built, twoPops, late>>
    BY <1>1 DEF manager, nodeVars, cacheVars, historyVars
  <2> QED BY <2>1 DEF CacheInv, CacheTypes, OnePlace, HandedOnce, PartsKept,
                      OneAtATime, Live, Popping
<1>2. ASSUME NEW t \in Threads, NEW id \in Ids, BuildPart(t, id) PROVE CacheInv'
  BY <1>2, BuildPartStep
<1>3. ASSUME NEW t \in Threads,
             \/ BuildNothing(t) \/ Look(t) \/ LookInVain(t) \/ Mark(t)
             \/ Test(t) \/ Retest(t) \/ Unflag(t) \/ SetNull(t)
      PROVE  CacheInv'
  BY <1>3, StatementQuiet
<1>4. ASSUME NEW t \in Threads, Move(t) PROVE CacheInv'
  BY <1>4, MoveStep
<1>5. ASSUME NEW t \in Threads, Erase(t) PROVE CacheInv'
  BY <1>5, EraseStep
<1>6. ASSUME NEW t \in Threads, Return(t) PROVE CacheInv'
  BY <1>6, ReturnStep
<1> QED BY <1>1, <1>2, <1>3, <1>4, <1>5, <1>6 DEF CacheNext, Pop

\* The invariant of the statements, types included.
LEMMA CacheInvariant == CacheSpec => []CacheInv
  BY CacheInitial, StatementStep, PTL DEF CacheSpec

\* For any number of threads, ids and parts: a freed element or an empty packet
\* is used only after two threads were between have_full_packets and the end of
\* pop_last_packet at the same time.
THEOREM UndefinedCorrect == CacheSpec => []UndefinedNeedsTwoPops
<1>1. CacheInv => UndefinedNeedsTwoPops
  BY DEF CacheInv, OneAtATime, UndefinedNeedsTwoPops
<1> QED BY <1>1, CacheInvariant, PTL

\* For any number of threads, ids and parts: no bytes are lost in packets_ unless
\* two threads popped at once or a part came between the move and the erase.
THEOREM PartsKeptCorrect == CacheSpec => []PartsKept
<1>1. CacheInv => PartsKept
  BY DEF CacheInv
<1> QED BY <1>1, CacheInvariant, PTL

\* For any number of threads, however they race for one element, no part is
\* handed on twice.
THEOREM HandedOnceCorrect == CacheSpec => []HandedOnce
<1>1. CacheInv => HandedOnce
  BY DEF CacheInv
<1> QED BY <1>1, CacheInvariant, PTL
=============================================================================
