-------------------------- MODULE XdpFilterProofs --------------------------
(* What the filter promises a source, for any number of CPUs and sources,  *)
(* any steering, any threshold and any size of the map.                    *)
EXTENDS XdpFilter, FiniteSetTheorems, TLAPS

LEMMA ElementsAreNumbers == Element \subseteq Nat \ {0}
<1>1. Cardinality(CPU) \in Nat
  BY FilterAssumption, FS_CardinalityType
<1>2. QED
  BY <1>1, FilterAssumption DEF Element

LEMMA InitInv == Init => FilterInv
<1>. SUFFICES ASSUME Init PROVE FilterInv
  OBVIOUS
<1>1. TypeOK
  BY FilterAssumption DEF Init, TypeOK, Frame
<1>2. ElementsDistinct
  BY ElementsAreNumbers DEF Init, ElementsDistinct, NULL
<1>3. RunsSteered /\ InnocentPasses
  BY DEF Init, RunsSteered, InnocentPasses
<1>4. PinnedExact
  BY DEF Init, PinnedExact, Pending, NULL
<1>5. QED
  BY <1>1, <1>2, <1>3, <1>4 DEF FilterInv

-----------------------------------------------------------------------------
(* Where a write of the map ends up: every step that touches the map is    *)
(* one of these three.                                                     *)
LEMMA UpdateCases ==
  ASSUME TypeOK, NEW c \in CPU, Update(c)
  PROVE  \E n \in 0 .. 255 :
           /\ n \in new_count(c)
           /\ \/ Replace(c, src_ip[c], n)
              \/ Insert(src_ip[c], n)
              \/ MapFull(src_ip[c])
<1>1. new_count(c) \subseteq 0 .. 255
  <2>1. seen[c] \in 0 .. 255 /\ Count(c) \in 0 .. 255
    BY DEF TypeOK, Count
  <2>2. \A v \in 0 .. 255 : (v + 1) % 256 \in 0 .. 255
    OBVIOUS
  <2>3. QED
    BY <2>1, <2>2 DEF new_count
<1>2. QED
  BY <1>1 DEF Update

LEMMA TypePreserved == TypeOK /\ [Next]_vars => TypeOK'
<1>. SUFFICES ASSUME TypeOK, [Next]_vars PROVE TypeOK'
  OBVIOUS
<1>. USE DEF TypeOK
<1>1. ASSUME NEW c \in CPU, Lookup(c) PROVE TypeOK'
  BY <1>1 DEF Lookup, mapVars, Frame
<1>2. ASSUME NEW c \in CPU, NotUdp(c) PROVE TypeOK'
  BY <1>2 DEF NotUdp, Return, mapVars
<1>3. ASSUME NEW c \in CPU, Blacklisted(c) PROVE TypeOK'
  BY <1>3 DEF Blacklisted, Return, Forget, mapVars, Frame
<1>4. ASSUME NEW c \in CPU, Pass(c) PROVE TypeOK'
  BY <1>4 DEF Pass, Return, Forget, mapVars, Frame
<1>5. ASSUME NEW c \in CPU, LowVariance(c) PROVE TypeOK'
  <2>1. Count(c) \in 0 .. 255
    BY DEF Count
  <2>2. analysed' \in [Source -> 0 .. Threshold + 1]
    BY <1>5, FilterAssumption DEF LowVariance
  <2>3. QED
    BY <1>5, <2>1, <2>2 DEF LowVariance, mapVars
<1>6. ASSUME NEW c \in CPU, Update(c) PROVE TypeOK'
  <2>1. /\ entry' \in [Source -> Element \cup {NULL}]
        /\ value' \in [Element -> 0 .. 255]
        /\ spare' \in [CPU -> Element]
    <3>1. PICK n \in 0 .. 255 : \/ Replace(c, src_ip[c], n)
                                \/ Insert(src_ip[c], n)
                                \/ MapFull(src_ip[c])
      BY <1>6, UpdateCases
    <3>2. CASE Replace(c, src_ip[c], n)
      BY <3>2 DEF Replace
    <3>3. CASE Insert(src_ip[c], n)
      <4>1. PICK e \in Free : /\ value' = [value EXCEPT ![e] = n]
                              /\ entry' = [entry EXCEPT ![src_ip[c]] = e]
                              /\ spare' = spare
        BY <3>3 DEF Insert
      <4>2. e \in Element
        BY DEF Free
      <4>3. QED
        BY <4>1, <4>2
    <3>4. CASE MapFull(src_ip[c])
      BY <3>4 DEF MapFull, mapVars
    <3>5. QED
      BY <3>1, <3>2, <3>3, <3>4
  <2>2. Return(c, "DROP") /\ Forget(c) /\ UNCHANGED <<src_ip, analysed>>
    BY <1>6 DEF Update
  <2>3. QED
    BY <2>1, <2>2 DEF Return, Forget, Frame
<1>7. CASE UNCHANGED vars
  BY <1>7 DEF vars, mapVars, runVars
<1>8. QED
  BY <1>1, <1>2, <1>3, <1>4, <1>5, <1>6, <1>7 DEF Next, xdp_deepfake_filter

-----------------------------------------------------------------------------
(* Replacing swaps the old element and the CPU's spare; inserting uses an  *)
(* element nobody has.                                                     *)
LEMMA ReplaceKeepsDistinct ==
  ASSUME TypeOK, ElementsDistinct, NEW c \in CPU, NEW s \in Source, NEW n \in 0 .. 255,
         Replace(c, s, n)
  PROVE  ElementsDistinct'
<1>1. /\ entry' = [entry EXCEPT ![s] = spare[c]]
      /\ spare' = [spare EXCEPT ![c] = entry[s]]
      /\ entry[s] # NULL
  BY DEF Replace
<1>2. \A t \in Source : entry'[t] = IF t = s THEN spare[c] ELSE entry[t]
  BY <1>1 DEF TypeOK
<1>3. \A d \in CPU : spare'[d] = IF d = c THEN entry[s] ELSE spare[d]
  BY <1>1 DEF TypeOK
<1>4. QED
  BY <1>1, <1>2, <1>3 DEF ElementsDistinct

LEMMA InsertKeepsDistinct ==
  ASSUME TypeOK, ElementsDistinct, NEW s \in Source, NEW n \in 0 .. 255, Insert(s, n)
  PROVE  ElementsDistinct'
<1>1. PICK e \in Free : entry' = [entry EXCEPT ![s] = e] /\ spare' = spare
  BY DEF Insert
<1>2. /\ \A t \in Source : entry[t] # e
      /\ \A d \in CPU : spare[d] # e
  BY DEF Free
<1>3. QED
  BY <1>1, <1>2 DEF ElementsDistinct, TypeOK

LEMMA DistinctPreserved == TypeOK /\ ElementsDistinct /\ [Next]_vars => ElementsDistinct'
<1>. SUFFICES ASSUME TypeOK, ElementsDistinct, [Next]_vars PROVE ElementsDistinct'
  OBVIOUS
<1>1. ASSUME NEW c \in CPU, Update(c) PROVE ElementsDistinct'
  <2>1. PICK n \in 0 .. 255 : \/ Replace(c, src_ip[c], n)
                              \/ Insert(src_ip[c], n)
                              \/ MapFull(src_ip[c])
    BY <1>1, UpdateCases
  <2>2. src_ip[c] \in Source
    BY DEF TypeOK
  <2>3. CASE MapFull(src_ip[c])
    BY <2>3 DEF MapFull, mapVars, ElementsDistinct
  <2>4. QED
    BY <2>1, <2>2, <2>3, ReplaceKeepsDistinct, InsertKeepsDistinct
<1>2. CASE UNCHANGED <<entry, spare>>
  BY <1>2 DEF ElementsDistinct
<1>3. QED
  BY <1>1, <1>2 DEF Next, xdp_deepfake_filter, Lookup, NotUdp, Blacklisted, Pass,
     LowVariance, vars, mapVars

-----------------------------------------------------------------------------
(* analysed never falls, and what an update does to other sources.         *)
LEMMA AnalysedGrows ==
  ASSUME TypeOK, [Next]_vars, NEW s \in Source
  PROVE  analysed[s] > 0 => analysed'[s] > 0
<1>1. ASSUME NEW c \in CPU, LowVariance(c) PROVE analysed[s] > 0 => analysed'[s] > 0
  BY <1>1 DEF LowVariance, TypeOK
<1>2. CASE UNCHANGED analysed
  BY <1>2
<1>3. QED
  BY <1>1, <1>2 DEF Next, xdp_deepfake_filter, Lookup, NotUdp, Blacklisted, Pass,
     Update, vars

(* An update of c changes the entry of its own source only.                *)
LEMMA UpdateOwnEntry ==
  ASSUME TypeOK, NEW c \in CPU, Update(c), NEW s \in Source, s # src_ip[c]
  PROVE  entry'[s] = entry[s]
<1>1. PICK n \in 0 .. 255 : \/ Replace(c, src_ip[c], n)
                            \/ Insert(src_ip[c], n)
                            \/ MapFull(src_ip[c])
  BY UpdateCases
<1>2. QED
  BY <1>1 DEF Replace, Insert, MapFull, mapVars, TypeOK

(* And the value of no other entry, although it writes elements that other *)
(* CPUs may be reading.                                                    *)
LEMMA UpdateOwnValue ==
  ASSUME TypeOK, ElementsDistinct, NEW c \in CPU, Update(c),
         NEW s \in Source, s # src_ip[c], entry[s] # NULL
  PROVE  value'[entry[s]] = value[entry[s]]
<1>1. PICK n \in 0 .. 255 : \/ Replace(c, src_ip[c], n)
                            \/ Insert(src_ip[c], n)
                            \/ MapFull(src_ip[c])
  BY UpdateCases
<1>2. entry[s] \in Element /\ entry[s] # spare[c]
  BY DEF TypeOK, ElementsDistinct
<1>3. CASE Replace(c, src_ip[c], n)
  BY <1>2, <1>3 DEF Replace, TypeOK
<1>4. CASE Insert(src_ip[c], n)
  <2>1. PICK e \in Free : value' = [value EXCEPT ![e] = n]
    BY <1>4 DEF Insert
  <2>2. e # entry[s]
    BY DEF Free
  <2>3. QED
    BY <1>2, <2>1, <2>2 DEF TypeOK
<1>5. CASE MapFull(src_ip[c])
  BY <1>5 DEF MapFull, mapVars
<1>6. QED
  BY <1>1, <1>3, <1>4, <1>5

(* A full map stays full: no step gives an element back.                   *)
LEMMA FullStaysFull ==
  ASSUME TypeOK, [Next]_vars, Free = {}
  PROVE  Free' = {}
<1>1. ASSUME NEW c \in CPU, Update(c) PROVE Free' = {}
  <2>1. PICK n \in 0 .. 255 : \/ Replace(c, src_ip[c], n)
                              \/ Insert(src_ip[c], n)
                              \/ MapFull(src_ip[c])
    BY <1>1, UpdateCases
  <2>2. CASE Replace(c, src_ip[c], n)
    <3>1. /\ entry' = [entry EXCEPT ![src_ip[c]] = spare[c]]
          /\ spare' = [spare EXCEPT ![c] = entry[src_ip[c]]]
      BY <2>2 DEF Replace
    <3>2. \A t \in Source : entry'[t] = IF t = src_ip[c] THEN spare[c] ELSE entry[t]
      BY <3>1 DEF TypeOK
    <3>3. \A d \in CPU : spare'[d] = IF d = c THEN entry[src_ip[c]] ELSE spare[d]
      BY <3>1 DEF TypeOK
    <3>4. \A e \in Element : (\E t \in Source : entry[t] = e) \/ (\E d \in CPU : spare[d] = e)
      BY DEF Free
    <3>5. src_ip[c] \in Source
      BY DEF TypeOK
    <3>6. \A e \in Element : (\E t \in Source : entry'[t] = e) \/ (\E d \in CPU : spare'[d] = e)
      BY <3>2, <3>3, <3>4, <3>5
    <3>7. QED
      BY <3>6 DEF Free
  <2>3. CASE Insert(src_ip[c], n)
    BY <2>3 DEF Insert
  <2>4. CASE MapFull(src_ip[c])
    BY <2>4 DEF MapFull, mapVars, Free
  <2>5. QED
    BY <2>1, <2>2, <2>3, <2>4
<1>2. CASE UNCHANGED <<entry, spare>>
  BY <1>2 DEF Free
<1>3. QED
  BY <1>1, <1>2 DEF Next, xdp_deepfake_filter, Lookup, NotUdp, Blacklisted, Pass,
     LowVariance, vars, mapVars

-----------------------------------------------------------------------------
(* The run of another CPU, on a source that is its own.                    *)
LEMMA SteeredPreserved == FilterInv /\ [Next]_vars => RunsSteered'
<1>. SUFFICES ASSUME FilterInv, [Next]_vars, NEW c \in CPU, pc'[c] # "idle"
              PROVE  Steered(c)'
  BY DEF RunsSteered, Steered
<1>. USE DEF FilterInv, Steered
<1>1. CASE Lookup(c)
  BY <1>1 DEF Lookup, mapVars, TypeOK
<1>2. CASE LowVariance(c)
  <2>1. /\ pc[c] = "check" /\ src_ip' = src_ip /\ block_count' = block_count
        /\ entry' = entry /\ value' = value
        /\ seen'[c] = Count(c) /\ Count(c) < Threshold
    BY <1>2 DEF LowVariance, mapVars, TypeOK
  <2>2. analysed'[src_ip[c]] > 0
    BY <1>2, FilterAssumption DEF LowVariance, TypeOK
  <2>3. QED
    BY <2>1, <2>2 DEF RunsSteered, Count
<1>3. CASE NotUdp(c) \/ Blacklisted(c) \/ Pass(c) \/ Update(c)
  BY <1>3 DEF NotUdp, Blacklisted, Pass, Update, Return, TypeOK
<1>4. ASSUME NEW d \in CPU, d # c, xdp_deepfake_filter(d)
      PROVE  /\ pc'[c] = pc[c] /\ src_ip'[c] = src_ip[c]
             /\ block_count'[c] = block_count[c] /\ seen'[c] = seen[c]
  BY <1>4 DEF xdp_deepfake_filter, Lookup, NotUdp, Blacklisted, Pass, LowVariance,
     Update, Return, Forget, TypeOK
<1>5. ASSUME NEW d \in CPU, d # c, xdp_deepfake_filter(d), Steer[src_ip[c]] = {c}
      PROVE  /\ entry'[src_ip[c]] = entry[src_ip[c]]
             /\ entry[src_ip[c]] # NULL =>
                  value'[entry[src_ip[c]]] = value[entry[src_ip[c]]]
  <2>1. CASE Update(d)
    <3>1. src_ip[c] \in Source /\ src_ip[c] # src_ip[d]
      BY <1>5, <2>1 DEF TypeOK, RunsSteered, Update
    <3>2. QED
      BY <2>1, <3>1, UpdateOwnEntry, UpdateOwnValue
  <2>2. CASE UNCHANGED mapVars
    BY <2>2 DEF mapVars
  <2>3. QED
    BY <1>5, <2>1, <2>2 DEF xdp_deepfake_filter, Lookup, NotUdp, Blacklisted, Pass,
       LowVariance
<1>6. ASSUME NEW d \in CPU, d # c, xdp_deepfake_filter(d) PROVE Steered(c)'
  <2>1. pc[c] # "idle" /\ src_ip[c] \in Source
    BY <1>4, <1>6 DEF TypeOK
  <2>2. analysed[src_ip[c]] > 0 => analysed'[src_ip[c]] > 0
    BY <2>1, AnalysedGrows
  <2>3. Steer[src_ip[c]] = {c} => (block_count[c] = entry[src_ip[c]] /\ Count(c)' = Count(c))
    BY <1>4, <1>5, <1>6, <2>1 DEF RunsSteered, Count
  <2>4. QED
    BY <1>4, <1>5, <1>6, <2>1, <2>2, <2>3 DEF RunsSteered
<1>7. CASE UNCHANGED vars
  BY <1>7 DEF vars, mapVars, runVars, RunsSteered, Count
<1>8. QED
  BY <1>1, <1>2, <1>3, <1>6, <1>7 DEF Next, xdp_deepfake_filter

-----------------------------------------------------------------------------
LEMMA InnocentPreserved == FilterInv /\ [Next]_vars => InnocentPasses'
<1>. SUFFICES ASSUME FilterInv, [Next]_vars PROVE InnocentPasses'
  OBVIOUS
<1>. USE DEF FilterInv
<1>1. ASSUME NEW s \in Source, analysed'[s] = 0 PROVE entry'[s] = NULL
  <2>1. analysed[s] = 0 /\ entry[s] = NULL
    BY <1>1, AnalysedGrows DEF TypeOK, InnocentPasses
  <2>2. ASSUME NEW c \in CPU, Update(c) PROVE entry'[s] = entry[s]
    <3>1. analysed[src_ip[c]] > 0
      BY <2>2 DEF Update, RunsSteered, Steered
    <3>2. QED
      BY <2>1, <2>2, <3>1, UpdateOwnEntry
  <2>3. CASE UNCHANGED entry
    BY <2>1, <2>3
  <2>4. QED
    BY <2>1, <2>2, <2>3 DEF Next, xdp_deepfake_filter, Lookup, NotUdp, Blacklisted, Pass,
       LowVariance, vars, mapVars
<1>2. ASSUME NEW c \in CPU
      PROVE  /\ pc'[c] # "idle" /\ block_count'[c] # NULL => analysed'[src_ip'[c]] > 0
             /\ verdict'[c] = "DROP" /\ pc'[c] = "idle" => analysed'[src_ip'[c]] > 0
  <2>1. src_ip[c] \in Source
    BY DEF TypeOK
  <2>2. analysed[src_ip[c]] > 0 => analysed'[src_ip[c]] > 0
    BY <2>1, AnalysedGrows
  <2>3. CASE Lookup(c)
    <3>1. PICK s \in Source : /\ src_ip'[c] = s /\ block_count'[c] = entry[s]
                              /\ analysed' = analysed /\ pc'[c] = "check"
      BY <2>3 DEF Lookup, TypeOK
    <3>2. entry[s] # NULL => analysed[s] > 0
      BY DEF InnocentPasses, TypeOK
    <3>3. QED
      BY <3>1, <3>2
  <2>4. CASE NotUdp(c) \/ Pass(c)
    BY <2>4 DEF NotUdp, Pass, Return, TypeOK
  <2>5. CASE Blacklisted(c)
    <3>1. block_count[c] # NULL /\ pc[c] = "check"
      BY <2>5, FilterAssumption DEF Blacklisted, Count
    <3>2. analysed[src_ip[c]] > 0
      BY <3>1 DEF InnocentPasses
    <3>3. QED
      BY <2>2, <2>5, <3>2 DEF Blacklisted, Return, TypeOK
  <2>6. CASE LowVariance(c)
    <3>1. pc[c] = "check" /\ pc'[c] = "update" /\ block_count' = block_count
          /\ src_ip' = src_ip
      BY <2>6 DEF LowVariance, TypeOK
    <3>2. QED
      BY <2>2, <3>1 DEF InnocentPasses
  <2>7. CASE Update(c)
    <3>1. analysed[src_ip[c]] > 0
      BY <2>7 DEF Update, RunsSteered, Steered
    <3>2. QED
      BY <2>2, <2>7, <3>1 DEF Update, Return, TypeOK
  <2>8. CASE pc'[c] = pc[c] /\ src_ip'[c] = src_ip[c] /\ block_count'[c] = block_count[c]
             /\ verdict'[c] = verdict[c]
    BY <2>2, <2>8 DEF InnocentPasses
  <2>9. ASSUME NEW d \in CPU, d # c, xdp_deepfake_filter(d)
        PROVE  /\ pc'[c] = pc[c] /\ src_ip'[c] = src_ip[c]
               /\ block_count'[c] = block_count[c] /\ verdict'[c] = verdict[c]
    BY <2>9 DEF xdp_deepfake_filter, Lookup, NotUdp, Blacklisted, Pass, LowVariance,
       Update, Return, Forget, TypeOK
  <2>10. QED
    BY <2>3, <2>4, <2>5, <2>6, <2>7, <2>8, <2>9 DEF Next, xdp_deepfake_filter, vars, runVars
<1>3. QED
  BY <1>1, <1>2 DEF InnocentPasses

(* A step of CPU c itself on its own source s.                             *)
LEMMA OwnUpdateExact ==
  ASSUME FilterInv, NEW c \in CPU, Update(c), Steer[src_ip[c]] = {c}
  PROVE  IF entry'[src_ip[c]] # NULL
         THEN value'[entry'[src_ip[c]]] = analysed'[src_ip[c]]
         ELSE Free' = {}
<1>. DEFINE s == src_ip[c]
<1>. USE DEF FilterInv
<1>1. s \in Source /\ pc[c] = "update" /\ analysed' = analysed
  BY DEF Update, TypeOK
<1>2. /\ block_count[c] = entry[s]
      /\ seen[c] = Count(c) /\ Count(c) < Threshold /\ Count(c) \in 0 .. 255
  BY <1>1 DEF RunsSteered, Steered, TypeOK
<1>3. new_count(c) = {Count(c) + 1}
  <2>1. (Count(c) + 1) % 256 = Count(c) + 1
    BY <1>2, FilterAssumption
  <2>2. QED
    BY <1>2, <2>1 DEF new_count
<1>4. PICK n \in 0 .. 255 : /\ n = Count(c) + 1
                            /\ \/ Replace(c, s, n)
                               \/ Insert(s, n)
                               \/ MapFull(s)
  BY <1>3, UpdateCases
<1>5. analysed[s] \in Nat /\ Pending(c, s) = 1
  BY <1>1 DEF Pending, TypeOK
<1>6. CASE Replace(c, s, n)
  <2>1. spare[c] \in Element /\ entry'[s] = spare[c] /\ value'[spare[c]] = n /\ entry[s] # NULL
    BY <1>1, <1>6 DEF Replace, TypeOK
  <2>2. Count(c) = value[entry[s]]
    BY <1>2, <2>1 DEF Count
  <2>3. value[entry[s]] = analysed[s] - 1
    BY <1>1, <1>5, <2>1 DEF PinnedExact
  <2>4. QED
    BY <1>1, <1>4, <1>5, <2>1, <2>2, <2>3, ElementsAreNumbers DEF NULL
<1>7. CASE Insert(s, n)
  <2>1. PICK e \in Free : entry' = [entry EXCEPT ![s] = e] /\ value' = [value EXCEPT ![e] = n]
    BY <1>7 DEF Insert
  <2>2. e \in Element /\ entry'[s] = e /\ value'[e] = n
    BY <1>1, <2>1 DEF Free, TypeOK
  <2>3. entry[s] = NULL /\ Count(c) = 0
    BY <1>2, <1>7 DEF Insert, Count
  <2>4. analysed[s] - 1 = 0
    BY <1>1, <1>5, <2>1, <2>3 DEF PinnedExact
  <2>5. QED
    BY <1>1, <1>4, <1>5, <2>2, <2>3, <2>4, ElementsAreNumbers DEF NULL
<1>8. CASE MapFull(s)
  BY <1>8 DEF MapFull, mapVars, Free
<1>9. QED
  BY <1>4, <1>6, <1>7, <1>8

LEMMA PinnedPreserved == FilterInv /\ [Next]_vars => PinnedExact'
<1>. SUFFICES ASSUME FilterInv, [Next]_vars, NEW s \in Source, NEW c \in CPU, Steer[s] = {c}
              PROVE  IF entry'[s] # NULL
                     THEN value'[entry'[s]] = analysed'[s] - Pending(c, s)'
                     ELSE analysed'[s] - Pending(c, s)' = 0 \/ Free' = {}
  BY DEF PinnedExact
<1>. USE DEF FilterInv
<1>1. CASE Update(c) /\ src_ip[c] = s
  <2>1. Pending(c, s)' = 0
    BY <1>1 DEF Update, Return, Pending, TypeOK
  <2>2. analysed'[s] \in Nat
    BY <1>1 DEF Update, TypeOK
  <2>3. QED
    BY <1>1, <2>1, <2>2, OwnUpdateExact
<1>2. CASE LowVariance(c) /\ src_ip[c] = s
  <2>1. /\ pc[c] = "check" /\ Pending(c, s) = 0 /\ Pending(c, s)' = 1
        /\ entry' = entry /\ value' = value /\ spare' = spare /\ Count(c) < Threshold
    BY <1>2 DEF LowVariance, Pending, mapVars, TypeOK
  <2>2. block_count[c] = entry[s]
    BY <1>2, <2>1 DEF RunsSteered, Steered
  <2>3. CASE entry[s] # NULL
    <3>1. value[entry[s]] = analysed[s] - 0 /\ value[entry[s]] < Threshold
      BY <2>1, <2>2, <2>3 DEF PinnedExact, Count
    <3>2. analysed[s] < Threshold /\ analysed[s] \in Nat
      BY <3>1 DEF TypeOK
    <3>3. analysed'[s] = analysed[s] + 1
      BY <1>2, <3>2, FilterAssumption DEF LowVariance, TypeOK
    <3>4. QED
      BY <2>1, <2>3, <3>1, <3>2, <3>3
  <2>4. CASE entry[s] = NULL
    <3>1. analysed[s] - 0 = 0 \/ Free = {}
      BY <2>1, <2>4 DEF PinnedExact
    <3>2. analysed[s] \in Nat
      BY DEF TypeOK
    <3>3. analysed[s] = 0 => analysed'[s] = 1
      BY <1>2, FilterAssumption DEF LowVariance, TypeOK
    <3>4. Free' = Free
      BY <2>1 DEF Free
    <3>5. QED
      BY <2>1, <2>4, <3>1, <3>2, <3>3, <3>4
  <2>5. QED
    BY <2>3, <2>4
<1>3. ASSUME Pending(c, s)' = Pending(c, s), analysed'[s] = analysed[s],
             entry'[s] = entry[s], entry[s] # NULL => value'[entry[s]] = value[entry[s]]
      PROVE  IF entry'[s] # NULL
             THEN value'[entry'[s]] = analysed'[s] - Pending(c, s)'
             ELSE analysed'[s] - Pending(c, s)' = 0 \/ Free' = {}
  BY <1>3, FullStaysFull DEF PinnedExact
<1>4. CASE \/ Lookup(c) \/ NotUdp(c) \/ Blacklisted(c) \/ Pass(c)
           \/ LowVariance(c) /\ src_ip[c] # s
  <2>1. Pending(c, s)' = Pending(c, s)
    BY <1>4 DEF Lookup, NotUdp, Blacklisted, Pass, LowVariance, Return, Pending, TypeOK
  <2>2. analysed'[s] = analysed[s] /\ entry' = entry /\ value' = value
    BY <1>4 DEF Lookup, NotUdp, Blacklisted, Pass, LowVariance, mapVars, TypeOK
  <2>3. QED
    BY <1>3, <2>1, <2>2
<1>5. CASE Update(c) /\ src_ip[c] # s
  <2>1. Pending(c, s)' = Pending(c, s) /\ analysed' = analysed
    BY <1>5 DEF Update, Return, Pending, TypeOK
  <2>2. QED
    BY <1>3, <1>5, <2>1, UpdateOwnEntry, UpdateOwnValue
<1>6. ASSUME NEW d \in CPU, d # c, xdp_deepfake_filter(d)
      PROVE  /\ Pending(c, s)' = Pending(c, s) /\ analysed'[s] = analysed[s]
             /\ entry'[s] = entry[s]
             /\ entry[s] # NULL => value'[entry[s]] = value[entry[s]]
  <2>1. Pending(c, s)' = Pending(c, s)
    BY <1>6 DEF xdp_deepfake_filter, Lookup, NotUdp, Blacklisted, Pass, LowVariance,
       Update, Return, Pending, TypeOK
  <2>2. pc[d] # "idle" => src_ip[d] # s
    BY <1>6 DEF RunsSteered, Steered
  <2>3. CASE Update(d)
    BY <2>1, <2>2, <2>3, UpdateOwnEntry, UpdateOwnValue DEF Update
  <2>4. CASE LowVariance(d)
    BY <2>1, <2>2, <2>4 DEF LowVariance, mapVars, TypeOK
  <2>5. CASE UNCHANGED <<entry, value, analysed>>
    BY <2>1, <2>5
  <2>6. QED
    BY <1>6, <2>3, <2>4, <2>5 DEF xdp_deepfake_filter, Lookup, NotUdp, Blacklisted, Pass,
       mapVars
<1>7. CASE UNCHANGED vars
  BY <1>3, <1>7 DEF vars, mapVars, runVars, Pending
<1>8. QED
  BY <1>1, <1>2, <1>3, <1>4, <1>5, <1>6, <1>7 DEF Next, xdp_deepfake_filter

LEMMA NextInv == FilterInv /\ [Next]_vars => FilterInv'
BY TypePreserved, DistinctPreserved, SteeredPreserved, InnocentPreserved, PinnedPreserved
   DEF FilterInv

(* What the filter keeps true of the map and of the runs under way, for    *)
(* any CPUs, sources, steering and size of the map.                        *)
THEOREM FilterInvariant == Spec => []FilterInv
BY InitInv, NextInv, PTL DEF Spec

(* nic_xdp.c drops nothing from a source that has sent no low-variance     *)
(* packet, however the CPUs interleave and elements are recycled.          *)
THEOREM InnocentSourcesPass == Spec => []InnocentPasses
<1>1. FilterInv => InnocentPasses
  BY DEF FilterInv
<1>2. QED
  BY <1>1, FilterInvariant, PTL

(* nic_xdp.c counts a source whose frames all arrive on one CPU exactly,   *)
(* as long as the map has had room for it.                                 *)
THEOREM PinnedSourcesExact == Spec => []PinnedExact
<1>1. FilterInv => PinnedExact
  BY DEF FilterInv
<1>2. QED
  BY <1>1, FilterInvariant, PTL

-----------------------------------------------------------------------------
(* A run on a pinned source with an entry looks at that source's count.    *)
LEMMA PinnedCount ==
  ASSUME FilterInv, NEW c \in CPU, pc[c] = "check", Pinned(src_ip[c], c)
  PROVE  Count(c) = analysed[src_ip[c]]
<1>1. src_ip[c] \in Source
  BY DEF FilterInv, TypeOK
<1>2. block_count[c] = entry[src_ip[c]]
  BY DEF FilterInv, RunsSteered, Steered, Pinned
<1>3. value[entry[src_ip[c]]] = analysed[src_ip[c]] - Pending(c, src_ip[c])
  BY <1>1 DEF FilterInv, PinnedExact, Pinned
<1>4. Pending(c, src_ip[c]) = 0 /\ analysed[src_ip[c]] \in Int
  BY <1>1 DEF Pending, FilterInv, TypeOK
<1>5. Count(c) = value[entry[src_ip[c]]]
  BY <1>2 DEF Count, Pinned
<1>6. QED
  BY <1>3, <1>4, <1>5

(* The verdicts on a pinned source go by its exact number of flat packets. *)
THEOREM VerdictsAreExact == Spec => VerdictsExact
<1>1. FilterInv /\ [Next]_vars =>
        [\A c \in CPU : Pinned(src_ip[c], c) =>
           /\ Blacklisted(c) => analysed[src_ip[c]] >= Threshold
           /\ Pass(c) \/ LowVariance(c) => analysed[src_ip[c]] < Threshold]_vars
  BY PinnedCount DEF Blacklisted, Pass, LowVariance
<1>2. QED
  BY <1>1, FilterInvariant, PTL DEF Spec, VerdictsExact

(* No step takes a counted flat packet back.                               *)
LEMMA AnalysedKept ==
  ASSUME TypeOK, [Next]_vars, NEW s \in Source
  PROVE  analysed'[s] >= analysed[s] /\ analysed'[s] \in Int
<1>1. analysed[s] \in Int /\ analysed'[s] \in Int
  BY TypePreserved DEF TypeOK
<1>2. ASSUME NEW c \in CPU, LowVariance(c) PROVE analysed'[s] >= analysed[s]
  BY <1>1, <1>2 DEF LowVariance, TypeOK
<1>3. CASE UNCHANGED analysed
  BY <1>1, <1>3
<1>4. QED
  BY <1>1, <1>2, <1>3 DEF Next, xdp_deepfake_filter, Lookup, NotUdp, Blacklisted, Pass,
     Update, vars

(* No step takes a source out of the map.                                  *)
LEMMA EntriesStay ==
  ASSUME TypeOK, [Next]_vars, NEW s \in Source, entry[s] # NULL
  PROVE  entry'[s] # NULL
<1>1. ASSUME NEW c \in CPU, Update(c) PROVE entry'[s] # NULL
  <2>1. PICK n \in 0 .. 255 : \/ Replace(c, src_ip[c], n)
                              \/ Insert(src_ip[c], n)
                              \/ MapFull(src_ip[c])
    BY <1>1, UpdateCases
  <2>2. spare[c] # NULL
    BY ElementsAreNumbers DEF TypeOK, NULL
  <2>3. CASE s # src_ip[c]
    BY <1>1, <2>3, UpdateOwnEntry
  <2>4. CASE s = src_ip[c]
    <3>1. CASE Replace(c, src_ip[c], n)
      BY <2>2, <2>4, <3>1 DEF Replace, TypeOK
    <3>2. CASE Insert(src_ip[c], n)
      BY <2>4, <3>2 DEF Insert
    <3>3. CASE MapFull(src_ip[c])
      BY <2>4, <3>3 DEF MapFull
    <3>4. QED
      BY <2>1, <3>1, <3>2, <3>3
  <2>5. QED
    BY <2>3, <2>4
<1>2. CASE UNCHANGED entry
  BY <1>2
<1>3. QED
  BY <1>1, <1>2 DEF Next, xdp_deepfake_filter, Lookup, NotUdp, Blacklisted, Pass,
     LowVariance, vars, mapVars

(* A run on a banned, pinned source ends without counting.                 *)
LEMMA NothingPending ==
  ASSUME FilterInv, NEW s \in Source, NEW c \in CPU, Steer[s] = {c}, Banned(s)
  PROVE  ~(pc[c] = "update" /\ src_ip[c] = s)
<1>. SUFFICES ASSUME pc[c] = "update", src_ip[c] = s PROVE FALSE
  OBVIOUS
<1>1. block_count[c] = entry[s] /\ seen[c] = Count(c) /\ seen[c] < Threshold
  BY DEF FilterInv, RunsSteered, Steered
<1>2. value[entry[s]] < Threshold
  BY <1>1 DEF Count, Banned
<1>3. value[entry[s]] \in 0 .. 255
  BY DEF FilterInv, TypeOK, Banned
<1>4. value[entry[s]] >= Threshold
  BY DEF Banned
<1>5. Threshold \in Int
  BY FilterAssumption
<1>6. QED
  BY <1>2, <1>3, <1>4, <1>5

(* A pinned source that has reached the threshold stays blacklisted.       *)
THEOREM BansAreForGood == Spec => BansStay
<1>1. ASSUME FilterInv, [Next]_vars, NEW s \in Source, NEW c \in CPU,
             Steer[s] = {c}, Banned(s)
      PROVE  Banned(s)'
  <2>1. TypeOK /\ FilterInv'
    BY <1>1, NextInv DEF FilterInv
  <2>2. Pending(c, s) = 0
    BY <1>1, NothingPending DEF Pending
  <2>3. analysed[s] >= Threshold
    <3>1. value[entry[s]] = analysed[s] - Pending(c, s)
      BY <1>1 DEF FilterInv, PinnedExact, Banned
    <3>2. analysed[s] \in Int
      BY <2>1 DEF TypeOK
    <3>3. QED
      BY <1>1, <2>2, <3>1, <3>2 DEF Banned
  <2>4. entry'[s] # NULL /\ analysed'[s] >= Threshold /\ analysed'[s] \in Int
    <3>1. entry'[s] # NULL
      BY <1>1, <2>1, EntriesStay DEF Banned
    <3>2. analysed'[s] >= analysed[s] /\ analysed'[s] \in Int /\ analysed[s] \in Int
      BY <1>1, <2>1, AnalysedKept DEF TypeOK
    <3>3. QED
      BY <2>3, <3>1, <3>2, FilterAssumption
  <2>5. ~(pc'[c] = "update" /\ src_ip'[c] = s)
    <3>1. CASE pc'[c] = pc[c] /\ src_ip'[c] = src_ip[c]
      BY <1>1, <3>1, NothingPending
    <3>2. ASSUME LowVariance(c), src_ip[c] = s PROVE FALSE
      <4>1. pc[c] = "check" /\ Pinned(src_ip[c], c) /\ Count(c) < Threshold
        BY <1>1, <3>2 DEF LowVariance, Pinned, Banned
      <4>2. Count(c) = analysed[s] /\ analysed[s] \in Int
        BY <1>1, <2>1, <3>2, <4>1, PinnedCount DEF TypeOK
      <4>3. QED
        BY <2>3, <4>1, <4>2, FilterAssumption
    <3>3. ASSUME NEW d \in CPU, xdp_deepfake_filter(d), d # c
          PROVE  pc'[c] = pc[c] /\ src_ip'[c] = src_ip[c]
      BY <2>1, <3>3 DEF xdp_deepfake_filter, Lookup, NotUdp, Blacklisted, Pass,
         LowVariance, Update, Return, TypeOK
    <3>4. ASSUME xdp_deepfake_filter(c), pc'[c] = "update"
          PROVE  LowVariance(c) /\ src_ip'[c] = src_ip[c]
      BY <2>1, <3>4 DEF xdp_deepfake_filter, Lookup, NotUdp, Blacklisted, Pass,
         LowVariance, Update, Return, TypeOK
    <3>5. QED
      BY <1>1, <3>1, <3>2, <3>3, <3>4 DEF Next, vars, runVars
  <2>6. value'[entry'[s]] = analysed'[s]
    <3>1. value'[entry'[s]] = analysed'[s] - Pending(c, s)'
      BY <1>1, <2>1, <2>4 DEF FilterInv, PinnedExact
    <3>2. Pending(c, s)' = 0
      BY <2>5 DEF Pending
    <3>3. QED
      BY <2>4, <3>1, <3>2
  <2>7. QED
    BY <2>4, <2>6 DEF Banned
<1>2. FilterInv /\ [Next]_vars =>
        [\A s \in Source, c \in CPU : Steer[s] = {c} /\ Banned(s) => Banned(s)']_vars
  BY <1>1
<1>3. QED
  BY <1>2, FilterInvariant, PTL DEF Spec, BansStay
=============================================================================
