-------------------------- MODULE VoiceAuditProofs --------------------------
(* What the audits keep true for any number of workers and requests, any   *)
(* streams and whatever of Faults happens.                                 *)
EXTENDS VoiceAudit, FiniteSetTheorems, TLAPS

(* The analyses of a list of streams are results, one for each, in order. *)
LEMMA AnalysesAre ==
  ASSUME TypeOK, NEW w \in Worker, NEW ss \in Seq(Stream)
  PROVE  /\ Analyses(w, ss) \in Seq(Result)
         /\ Len(Analyses(w, ss)) = Len(ss)
         /\ \A i \in DOMAIN ss : Analyses(w, ss)[i].stream = ss[i]
<1>1. \A i \in DOMAIN ss : analyze_stream(w, ss[i]) \in Result
  BY DEF TypeOK, analyze_stream, Result
<1>2. Analyses(w, ss) \in [1 .. Len(ss) -> Result] /\ Len(ss) \in Nat
  BY <1>1 DEF Analyses
<1>3. Analyses(w, ss) \in Seq(Result) /\ Len(Analyses(w, ss)) = Len(ss)
  BY <1>2
<1>4. QED
  BY <1>3 DEF Analyses, analyze_stream

(* Prices are amounts of cents. *)
LEMMA PriceType == ASSUME TypeOK, NEW r \in Request PROVE Price(r) \in Nat
<1>1. Len(streams[r]) \in Nat
  BY DEF TypeOK
<1>2. 8 * Len(streams[r]) \in Nat
  BY <1>1
<1>3. QED
  BY <1>2 DEF Price

(* Nothing has been received. *)
LEMMA InitInv == Init => AuditInv
<1>. SUFFICES ASSUME Init PROVE AuditInv
  OBVIOUS
<1>0. <<>> \in Seq(Stream) /\ <<>> \in Seq(Result)
  OBVIOUS
<1>1. TypeOK
  <2>1. cached \in [Worker -> BOOLEAN]
    BY Zenon DEF Init
  <2>2. QED
    BY <1>0, <2>1 DEF Init, TypeOK
<1>2. CacheRight
  BY DEF Init, CacheRight
<1>3. ResultsRight
  BY DEF Init, ResultsRight, RightResults, Own
<1>4. ChargedExactly
  BY DEF Init, ChargedExactly
<1>5. HitsPaidFor
  BY DEF Init, HitsPaidFor
<1>6. QED
  BY <1>1, <1>2, <1>3, <1>4, <1>5 DEF AuditInv

-----------------------------------------------------------------------------
(* A hit finds the result of a stream with the key it asks for. *)
LEMMA HitIs ==
  ASSUME AuditInv, NEW s \in Stream, redis[CacheKey(s)] # NoResult
  PROVE  /\ redis[CacheKey(s)] \in Result
         /\ CacheKey(redis[CacheKey(s)].stream) = CacheKey(s)
<1>1. CacheKey(s) \in {CacheKey(t) : t \in Stream}
  OBVIOUS
<1>2. redis[CacheKey(s)] \in Result
  BY <1>1 DEF AuditInv, TypeOK
<1>3. CacheKey(s) \in DOMAIN redis
  BY <1>1 DEF AuditInv, TypeOK
<1>4. QED
  BY <1>2, <1>3 DEF AuditInv, CacheRight

(* The analysis that VoiceStore puts into the cache is the one of the      *)
(* request's stream.                                                       *)
LEMMA StoredIs ==
  ASSUME AuditInv, NEW r \in Request, pc[r] = "analysed"
  PROVE  /\ streams[r][1] \in Stream
         /\ results[r][1] \in Result
         /\ results[r][1].stream = streams[r][1]
<1>1. Len(streams[r]) = 1 /\ Len(results[r]) = 1
  BY DEF AuditInv, ResultsRight, RightResults, Own
<1>2. streams[r] \in Seq(Stream) /\ results[r] \in Seq(Result)
  BY DEF AuditInv, TypeOK
<1>3. 1 \in DOMAIN streams[r]
  BY <1>1, <1>2
<1>4. results[r][1].stream = streams[r][1]
  BY <1>3 DEF AuditInv, ResultsRight, RightResults, Own
<1>5. QED
  BY <1>1, <1>2, <1>4

(* Every value stays of its type. *)
LEMMA TypePreserved == AuditInv /\ [Next]_vars => TypeOK'
<1>. SUFFICES ASSUME AuditInv, [Next]_vars PROVE TypeOK'
  OBVIOUS
<1>. USE DEF Ended
<1>0. TypeOK
  BY DEF AuditInv
<1>1. ASSUME NEW r \in Request, NEW w \in Worker, NEW s \in Stream, VoiceLookup(r, w, s)
      PROVE  TypeOK'
  <2>1. <<s>> \in Seq(Stream)
    OBVIOUS
  <2>2. results' \in [Request -> Seq(Result)]
    <3>1. CASE results' = results
      BY <1>0, <3>1 DEF TypeOK
    <3>2. CASE /\ redis[CacheKey(s)] # NoResult
               /\ results' = [results EXCEPT ![r] = <<redis[CacheKey(s)]>>]
      <4>1. <<redis[CacheKey(s)]>> \in Seq(Result)
        BY <3>2, HitIs
      <4>2. QED
        BY <1>0, <3>2, <4>1 DEF TypeOK
    <3>3. QED
      BY <1>1, <3>1, <3>2 DEF VoiceLookup
  <2>3. pc' \in [Request -> {"idle", "hit", "missed", "analysed", "ready", "answered"} \cup Ended]
    BY <1>0, <1>1 DEF VoiceLookup, Goto, TypeOK
  <2>4. QED
    BY <1>0, <1>1, <2>1, <2>2, <2>3 DEF VoiceLookup, Receive, TypeOK, workers
<1>2. ASSUME NEW r \in Request, VoiceAnalyse(r) PROVE TypeOK'
  <2>1. at[r] \in Worker /\ streams[r] \in Seq(Stream)
    BY <1>0, <1>2 DEF TypeOK, AuditInv, ResultsRight, RightResults, VoiceAnalyse
  <2>2. Analyses(at[r], streams[r]) \in Seq(Result)
    BY <1>0, <2>1, AnalysesAre
  <2>3. QED
    BY <1>0, <1>2, <2>2 DEF VoiceAnalyse, Goto, TypeOK, workers, payload
<1>3. ASSUME NEW r \in Request, VoiceStore(r) PROVE TypeOK'
  <2>1. results[r][1] \in Result
    BY <1>3, StoredIs DEF VoiceStore
  <2>2. QED
    BY <1>0, <1>3, <2>1 DEF VoiceStore, Goto, TypeOK, workers, payload
<1>4. ASSUME NEW r \in Request, NEW w \in Worker, NEW e \in {"multi", "batch"},
             NEW ss \in Bundle, AuditBundle(r, w, e, ss)
      PROVE  TypeOK'
  <2>1. ss \in Seq(Stream)
    BY VoiceAssumption
  <2>2. Analyses(w, ss) \in Seq(Result)
    BY <1>0, <2>1, AnalysesAre
  <2>3. QED
    BY <1>0, <1>4, <2>1, <2>2 DEF AuditBundle, Receive, Goto, TypeOK, workers
<1>5. ASSUME NEW r \in Request, ServeHit(r) \/ Answer(r) \/ RenderFails(r) PROVE TypeOK'
  BY <1>0, <1>5 DEF ServeHit, Answer, RenderFails, Goto, TypeOK, workers, payload
<1>6. ASSUME NEW r \in Request, deduct_credit(r) PROVE TypeOK'
  <2>1. charged[r] + Price(r) \in Nat
    <3>1. charged[r] \in Nat
      BY <1>0 DEF TypeOK
    <3>2. QED
      BY <1>0, <3>1, PriceType
  <2>2. QED
    BY <1>0, <1>6, <2>1 DEF deduct_credit, Goto, TypeOK, workers, payload
<1>7. ASSUME NEW k \in DOMAIN redis, Expire(k) PROVE TypeOK'
  BY <1>0, <1>7 DEF Expire, TypeOK, workers, payload
<1>8. ASSUME NEW w \in Worker, Restart(w) PROVE TypeOK'
  <2>1. native' \in [Worker -> BOOLEAN] /\ cached' \in [Worker -> BOOLEAN]
    BY <1>0, <1>8, Zenon DEF Restart, TypeOK
  <2>2. pc' \in [Request -> {"idle", "hit", "missed", "analysed", "ready", "answered"} \cup Ended]
    BY <1>0, <1>8 DEF Restart, TypeOK
  <2>3. QED
    BY <1>0, <1>8, <2>1, <2>2 DEF Restart, TypeOK, payload
<1>9. ASSUME UNCHANGED vars PROVE TypeOK'
  BY <1>0, <1>9 DEF vars, workers, payload, TypeOK
<1>10. QED
  BY <1>1, <1>2, <1>3, <1>4, <1>5, <1>6, <1>7, <1>8, <1>9
     DEF Next, RequestStep, AuditMulti, AuditBatch

-----------------------------------------------------------------------------
(* The cache only gets analyses under the keys of their streams. *)
LEMMA CachePreserved == AuditInv /\ [Next]_vars => CacheRight'
<1>. SUFFICES ASSUME AuditInv, [Next]_vars PROVE CacheRight'
  OBVIOUS
<1>1. ASSUME UNCHANGED redis PROVE CacheRight'
  BY <1>1 DEF AuditInv, CacheRight
<1>2. ASSUME NEW r \in Request, VoiceStore(r) PROVE CacheRight'
  <2>1. CASE UNCHANGED redis
    BY <1>1, <2>1
  <2>2. CASE redis' = [redis EXCEPT ![CacheKey(streams[r][1])] = results[r][1]]
    <3>1. CacheKey(results[r][1].stream) = CacheKey(streams[r][1])
      BY <1>2, StoredIs DEF VoiceStore
    <3>2. QED
      BY <2>2, <3>1 DEF AuditInv, CacheRight
  <2>3. QED
    BY <1>2, <2>1, <2>2 DEF VoiceStore
<1>3. ASSUME NEW k \in DOMAIN redis, Expire(k) PROVE CacheRight'
  BY <1>3 DEF Expire, AuditInv, CacheRight
<1>4. QED
  BY <1>1, <1>2, <1>3 DEF Next, RequestStep, VoiceLookup, VoiceAnalyse, AuditMulti,
     AuditBatch, AuditBundle, ServeHit, Answer, RenderFails, deduct_credit, Restart, vars

(* A request keeps the results it has, or gets the right ones. *)
LEMMA ResultsPreserved == AuditInv /\ [Next]_vars => ResultsRight'
<1>. SUFFICES ASSUME AuditInv, [Next]_vars, NEW q \in Request PROVE RightResults(q)'
  BY DEF ResultsRight
<1>. USE DEF Ended, Renders
<1>0. TypeOK /\ RightResults(q)
  BY DEF AuditInv, ResultsRight
<1>1. ASSUME NEW r \in Request, NEW w \in Worker, NEW s \in Stream, VoiceLookup(r, w, s)
      PROVE  RightResults(q)'
  <2>1. CASE q # r
    BY <1>0, <1>1, <2>1 DEF VoiceLookup, Receive, Goto, TypeOK, RightResults, Own
  <2>2. CASE q = r
    <3>1. at'[q] = w /\ kind'[q] = "voice" /\ streams'[q] = <<s>>
      BY <1>0, <1>1, <2>2 DEF VoiceLookup, Receive, TypeOK
    <3>2. CASE pc'[q] = "missed"
      BY <3>1, <3>2 DEF RightResults, Own
    <3>3. CASE /\ redis[CacheKey(s)] # NoResult
               /\ pc'[q] = "hit" /\ results'[q] = <<redis[CacheKey(s)]>>
      <4>1. CacheKey(redis[CacheKey(s)].stream) = CacheKey(s)
        BY <3>3, HitIs
      <4>2. CacheKey(results'[q][1].stream) = CacheKey(streams'[q][1])
        BY <3>1, <3>3, <4>1
      <4>3. CacheKey(results[q][1].stream)' = CacheKey(streams[q][1])'
        BY <4>2 DEF CacheKey
      <4>4. QED
        BY <3>1, <3>3, <4>3 DEF RightResults, Own
    <3>4. QED
      BY <1>0, <1>1, <2>2, <3>2, <3>3 DEF VoiceLookup, Goto, TypeOK
  <2>3. QED
    BY <2>1, <2>2
<1>2. ASSUME NEW r \in Request, VoiceAnalyse(r) PROVE RightResults(q)'
  <2>1. CASE q # r
    BY <1>0, <1>2, <2>1 DEF VoiceAnalyse, Goto, TypeOK, RightResults, Own, payload
  <2>2. CASE q = r
    <3>1. at[q] \in Worker /\ streams[q] \in Seq(Stream)
      BY <1>0, <1>2, <2>2 DEF TypeOK, RightResults, VoiceAnalyse
    <3>2. pc'[q] = "analysed" /\ results'[q] = Analyses(at[q], streams[q])
      BY <1>0, <1>2, <2>2 DEF VoiceAnalyse, Goto, TypeOK
    <3>3. /\ Len(results'[q]) = Len(streams[q])
          /\ \A i \in DOMAIN streams[q] : results'[q][i].stream = streams[q][i]
      BY <1>0, <3>1, <3>2, AnalysesAre
    <3>4. QED
      BY <1>0, <1>2, <2>2, <3>2, <3>3 DEF VoiceAnalyse, RightResults, Own, payload
  <2>3. QED
    BY <2>1, <2>2
<1>3. ASSUME NEW r \in Request, VoiceStore(r) PROVE RightResults(q)'
  BY <1>0, <1>3 DEF VoiceStore, Goto, TypeOK, RightResults, Own, payload
<1>4. ASSUME NEW r \in Request, NEW w \in Worker, NEW e \in {"multi", "batch"},
             NEW ss \in Bundle, AuditBundle(r, w, e, ss)
      PROVE  RightResults(q)'
  <2>1. CASE q # r
    BY <1>0, <1>4, <2>1 DEF AuditBundle, Receive, Goto, TypeOK, RightResults, Own
  <2>2. CASE q = r
    <3>1. /\ pc'[q] = "ready" /\ at'[q] = w /\ kind'[q] = e /\ streams'[q] = ss
          /\ results'[q] = Analyses(w, ss)
      BY <1>0, <1>4, <2>2 DEF AuditBundle, Receive, Goto, TypeOK
    <3>2. /\ Len(Analyses(w, ss)) = Len(ss)
          /\ \A i \in DOMAIN ss : Analyses(w, ss)[i].stream = ss[i]
      BY <1>0, AnalysesAre, VoiceAssumption
    <3>3. QED
      BY <3>1, <3>2 DEF RightResults, Own
  <2>3. QED
    BY <2>1, <2>2
<1>5. ASSUME NEW r \in Request, ServeHit(r) PROVE RightResults(q)'
  BY <1>0, <1>5 DEF ServeHit, Goto, TypeOK, RightResults, Own, payload
<1>6. ASSUME NEW r \in Request, Answer(r) \/ RenderFails(r) PROVE RightResults(q)'
  BY <1>0, <1>6 DEF Answer, RenderFails, Goto, TypeOK, RightResults, Own, payload
<1>7. ASSUME NEW r \in Request, deduct_credit(r) PROVE RightResults(q)'
  BY <1>0, <1>7 DEF deduct_credit, Goto, TypeOK, RightResults, Own, payload
<1>8. ASSUME NEW w \in Worker, Restart(w) PROVE RightResults(q)'
  BY <1>0, <1>8 DEF Restart, TypeOK, RightResults, Own, payload
<1>9. ASSUME UNCHANGED <<pc, payload, results>> PROVE RightResults(q)'
  BY <1>0, <1>9 DEF RightResults, Own, payload
<1>10. QED
  BY <1>1, <1>2, <1>3, <1>4, <1>5, <1>6, <1>7, <1>8, <1>9
     DEF Next, RequestStep, AuditMulti, AuditBatch, Expire, vars

-----------------------------------------------------------------------------
(* Only the background task charges, and only it ends a request as done. *)
LEMMA ChargedPreserved == AuditInv /\ [Next]_vars => ChargedExactly'
<1>. SUFFICES ASSUME AuditInv, [Next]_vars, NEW q \in Request
     PROVE  charged'[q] = IF pc'[q] = "done" THEN Price(q)' ELSE 0
  BY DEF ChargedExactly
<1>. USE DEF Ended
<1>0. TypeOK /\ charged[q] = IF pc[q] = "done" THEN Price(q) ELSE 0
  BY DEF AuditInv, ChargedExactly
<1>1. ASSUME charged'[q] = charged[q],
             \/ pc'[q] = pc[q] /\ kind'[q] = kind[q] /\ streams'[q] = streams[q]
             \/ pc[q] # "done" /\ pc'[q] # "done"
      PROVE  charged'[q] = IF pc'[q] = "done" THEN Price(q)' ELSE 0
  BY <1>0, <1>1 DEF Price
<1>2. ASSUME NEW r \in Request, NEW w \in Worker, NEW s \in Stream, VoiceLookup(r, w, s)
      PROVE  charged'[q] = IF pc'[q] = "done" THEN Price(q)' ELSE 0
  BY <1>0, <1>1, <1>2 DEF VoiceLookup, Receive, Goto, TypeOK
<1>3. ASSUME NEW r \in Request, VoiceAnalyse(r) \/ VoiceStore(r) \/ ServeHit(r)
      PROVE  charged'[q] = IF pc'[q] = "done" THEN Price(q)' ELSE 0
  BY <1>0, <1>1, <1>3 DEF VoiceAnalyse, VoiceStore, ServeHit, Goto, TypeOK, payload
<1>4. ASSUME NEW r \in Request, NEW w \in Worker, NEW e \in {"multi", "batch"},
             NEW ss \in Bundle, AuditBundle(r, w, e, ss)
      PROVE  charged'[q] = IF pc'[q] = "done" THEN Price(q)' ELSE 0
  BY <1>0, <1>1, <1>4 DEF AuditBundle, Receive, Goto, TypeOK
<1>5. ASSUME NEW r \in Request, Answer(r) \/ RenderFails(r)
      PROVE  charged'[q] = IF pc'[q] = "done" THEN Price(q)' ELSE 0
  BY <1>0, <1>1, <1>5 DEF Answer, RenderFails, Goto, TypeOK, payload
<1>6. ASSUME NEW r \in Request, deduct_credit(r)
      PROVE  charged'[q] = IF pc'[q] = "done" THEN Price(q)' ELSE 0
  <2>1. CASE q # r
    BY <1>0, <1>1, <1>6, <2>1 DEF deduct_credit, Goto, TypeOK, payload
  <2>2. CASE q = r
    <3>1. charged'[q] = charged[q] + Price(q) /\ pc'[q] = "done" /\ charged[q] = 0
      BY <1>0, <1>6, <2>2 DEF deduct_credit, Goto, TypeOK
    <3>2. Price(q)' = Price(q) /\ Price(q) \in Nat
      BY <1>0, <1>6, PriceType DEF deduct_credit, Price, payload
    <3>3. QED
      BY <3>1, <3>2
  <2>3. QED
    BY <2>1, <2>2
<1>7. ASSUME NEW w \in Worker, Restart(w)
      PROVE  charged'[q] = IF pc'[q] = "done" THEN Price(q)' ELSE 0
  BY <1>0, <1>1, <1>7 DEF Restart, TypeOK, payload
<1>8. ASSUME UNCHANGED <<pc, payload, charged>>
      PROVE  charged'[q] = IF pc'[q] = "done" THEN Price(q)' ELSE 0
  BY <1>0, <1>1, <1>8 DEF payload
<1>9. QED
  BY <1>2, <1>3, <1>4, <1>5, <1>6, <1>7, <1>8
     DEF Next, RequestStep, AuditMulti, AuditBatch, Expire, vars

-----------------------------------------------------------------------------
(* A request that pays for a result goes on paying for it: it can be       *)
(* rendered, so that it is answered and charged, unless its worker dies.   *)
LEMMA PayersStay ==
  ASSUME AuditInv, [Next]_vars, NEW q \in Request,
         kind[q] = "voice", pc[q] \in {"ready", "answered", "done", "lost"}, Renders(q)
  PROVE  /\ pc'[q] \in {"ready", "answered", "done", "lost"}
         /\ UNCHANGED <<kind[q], streams[q], results[q]>>
<1>. USE DEF Ended
<1>0. TypeOK /\ RightResults(q)
  BY DEF AuditInv, ResultsRight
<1>4. ASSUME NEW r \in Request, NEW w \in Worker, NEW s \in Stream,
             VoiceLookup(r, w, s)
      PROVE  /\ pc'[q] \in {"ready", "answered", "done", "lost"}
             /\ UNCHANGED <<kind[q], streams[q], results[q]>>
  BY <1>0, <1>4 DEF VoiceLookup, Receive, Goto, TypeOK
<1>5. ASSUME NEW r \in Request, NEW w \in Worker, NEW e \in {"multi", "batch"},
             NEW ss \in Bundle, AuditBundle(r, w, e, ss)
      PROVE  /\ pc'[q] \in {"ready", "answered", "done", "lost"}
             /\ UNCHANGED <<kind[q], streams[q], results[q]>>
  BY <1>0, <1>5 DEF AuditBundle, Receive, Goto, TypeOK
<1>6. ASSUME NEW r \in Request, RequestStep(r)
      PROVE  /\ pc'[q] \in {"ready", "answered", "done", "lost"}
             /\ UNCHANGED <<kind[q], streams[q], results[q]>>
  <2>1. CASE r # q
    BY <1>0, <1>6, <2>1 DEF RequestStep, VoiceAnalyse, VoiceStore, ServeHit, Answer,
       RenderFails, deduct_credit, Goto, TypeOK, payload
  <2>2. CASE r = q
    BY <1>0, <1>6, <2>2 DEF RequestStep, VoiceAnalyse, VoiceStore, ServeHit, Answer,
       RenderFails, deduct_credit, Goto, TypeOK, payload
  <2>3. QED
    BY <2>1, <2>2
<1>7. ASSUME NEW w \in Worker, Restart(w)
      PROVE  /\ pc'[q] \in {"ready", "answered", "done", "lost"}
             /\ UNCHANGED <<kind[q], streams[q], results[q]>>
  BY <1>0, <1>7 DEF Restart, payload
<1>8. ASSUME UNCHANGED <<pc, payload, results>>
      PROVE  /\ pc'[q] \in {"ready", "answered", "done", "lost"}
             /\ UNCHANGED <<kind[q], streams[q], results[q]>>
  BY <1>0, <1>8 DEF payload
<1>9. QED
  BY <1>4, <1>5, <1>6, <1>7, <1>8 DEF Next, AuditMulti, AuditBatch, Expire, vars

(* A result gets into the cache by the hand of an audit that pays for it,  *)
(* and into an answer from the cache.                                      *)
LEMMA PaidPreserved == AuditInv /\ [Next]_vars => HitsPaidFor'
<1>. SUFFICES ASSUME AuditInv, [Next]_vars PROVE HitsPaidFor'
  OBVIOUS
<1>. USE DEF Ended
<1>0. TypeOK /\ HitsPaidFor
  BY DEF AuditInv
<1> DEFINE Pays(q, res) == /\ kind'[q] = "voice"
                           /\ pc'[q] \in {"ready", "answered", "done", "lost"}
                           /\ streams'[q] = <<res.stream>>
                           /\ results'[q] = <<res>>
<1>0a. ASSUME NEW res \in Result, res.stream \in Finite, Payers(res) # {}
       PROVE  \E q \in Request : Pays(q, res)
  <2>1. PICK q \in Payers(res) : TRUE
    BY <1>0a
  <2>2. Renders(q)
    BY <1>0a, <2>1 DEF Payers, Renders
  <2>3. QED
    BY <2>1, <2>2, PayersStay DEF Payers
<1>1. ASSUME NEW k \in DOMAIN redis, redis[k] # NoResult, redis[k].stream \in Finite
      PROVE  \E q \in Request : Pays(q, redis[k])
  <2>1. redis[k] \in Result /\ Payers(redis[k]) # {}
    BY <1>0, <1>1 DEF HitsPaidFor, TypeOK
  <2>2. QED
    BY <1>0a, <1>1, <2>1
<1>2. ASSUME NEW r \in Request, pc[r] = "served" \/ (pc[r] = "hit" /\ Renders(r))
      PROVE  \E q \in Request : Pays(q, results[r][1])
  <2>1. Len(results[r]) = 1 /\ results[r] \in Seq(Result)
    BY <1>0, <1>2 DEF TypeOK, AuditInv, ResultsRight, RightResults
  <2>2. results[r][1] \in Result /\ results[r][1].stream \in Finite
    BY <1>2, <2>1 DEF Renders, AuditInv, ResultsRight, RightResults
  <2>3. Payers(results[r][1]) # {}
    BY <1>0, <1>2 DEF HitsPaidFor
  <2>4. QED
    BY <1>0a, <2>2, <2>3
<1>3. ASSUME NEW k \in DOMAIN redis, redis'[k] # NoResult, redis'[k].stream \in Finite
      PROVE  \E q \in Request : Pays(q, redis'[k])
  <2>1. CASE redis'[k] = redis[k]
    BY <1>1, <1>3, <2>1
  <2>2. ASSUME NEW r \in Request, VoiceStore(r), redis'[k] # redis[k]
        PROVE  \E q \in Request : Pays(q, redis'[k])
    <3>1. redis'[k] = results[r][1] /\ pc[r] = "analysed"
      BY <1>0, <2>2 DEF VoiceStore, TypeOK
    <3>2. /\ pc'[r] = "ready" /\ kind'[r] = kind[r]
          /\ streams'[r] = streams[r] /\ results'[r] = results[r]
      BY <1>0, <2>2 DEF VoiceStore, Goto, TypeOK, payload
    <3>3. /\ kind[r] = "voice" /\ Len(streams[r]) = 1 /\ Len(results[r]) = 1
          /\ streams[r] \in Seq(Stream) /\ results[r] \in Seq(Result)
      BY <3>1 DEF AuditInv, ResultsRight, RightResults, Own, TypeOK
    <3>4. results[r][1].stream = streams[r][1]
      BY <3>1, StoredIs
    <3>5. streams[r] = <<results[r][1].stream>> /\ results[r] = <<results[r][1]>>
      BY <3>3, <3>4
    <3>6. Pays(r, redis'[k])
      BY <3>1, <3>2, <3>3, <3>5
    <3>7. QED
      BY <3>6
  <2>3. ASSUME NEW e \in DOMAIN redis, Expire(e) PROVE redis'[k] = redis[k]
    BY <1>0, <1>3, <2>3 DEF Expire, TypeOK
  <2>4. CASE UNCHANGED redis
    BY <2>1, <2>4
  <2>5. QED
    BY <2>1, <2>2, <2>3, <2>4 DEF Next, RequestStep, VoiceLookup, VoiceAnalyse,
       AuditMulti, AuditBatch, AuditBundle, ServeHit, Answer, RenderFails, deduct_credit,
       Restart, vars
<1>4. ASSUME NEW r \in Request, pc'[r] = "served" \/ (pc'[r] = "hit" /\ Renders(r)')
      PROVE  \E q \in Request : Pays(q, results'[r][1])
  <2>0. pc'[r] = "hit" /\ results'[r] = results[r] => Renders(r)
    BY <1>4 DEF Renders
  <2>. DEFINE Had == pc[r] = "served" \/ (pc[r] = "hit" /\ Renders(r))
  <2>1. CASE Had /\ results'[r] = results[r]
    <3>1. PICK q \in Request : Pays(q, results[r][1])
      BY <1>2, <2>1
    <3>2. results'[r][1] = results[r][1]
      BY <2>1
    <3>3. Pays(q, results'[r][1])
      BY <3>1, <3>2
    <3>4. QED
      BY <3>3
  <2>2. ASSUME NEW w \in Worker, NEW s \in Stream, VoiceLookup(r, w, s)
        PROVE  \E q \in Request : Pays(q, results'[r][1])
    <3>1. /\ redis[CacheKey(s)] # NoResult /\ CacheKey(s) \in DOMAIN redis
          /\ results'[r] = <<redis[CacheKey(s)]>>
      BY <1>0, <1>4, <2>2 DEF VoiceLookup, Goto, TypeOK
    <3>2. pc'[r] = "hit" /\ Renders(r)'
      BY <1>0, <1>4, <2>2 DEF VoiceLookup, Goto, TypeOK
    <3>3. redis[CacheKey(s)].stream \in Finite
      BY <3>1, <3>2 DEF Renders
    <3>4. QED
      BY <1>1, <3>1, <3>3
  <2>3. ASSUME NEW q \in Request, NEW w \in Worker, NEW s \in Stream,
               VoiceLookup(q, w, s), q # r
        PROVE  Had /\ results'[r] = results[r]
    BY <1>0, <1>4, <2>0, <2>3 DEF VoiceLookup, Goto, TypeOK
  <2>4. ASSUME NEW q \in Request, NEW w \in Worker, NEW e \in {"multi", "batch"},
               NEW ss \in Bundle, AuditBundle(q, w, e, ss)
        PROVE  Had /\ results'[r] = results[r]
    BY <1>0, <1>4, <2>0, <2>4 DEF AuditBundle, Receive, Goto, TypeOK
  <2>5. ASSUME NEW q \in Request, RequestStep(q)
        PROVE  Had /\ results'[r] = results[r]
    BY <1>0, <1>4, <2>0, <2>5 DEF RequestStep, VoiceAnalyse, VoiceStore, ServeHit, Answer,
       RenderFails, deduct_credit, Goto, TypeOK
  <2>6. ASSUME NEW w \in Worker, Restart(w)
        PROVE  Had /\ results'[r] = results[r]
    BY <1>0, <1>4, <2>0, <2>6 DEF Restart, TypeOK
  <2>7. CASE UNCHANGED <<pc, results>>
    BY <1>4, <2>0, <2>1, <2>7
  <2>8. QED
    BY <2>1, <2>2, <2>3, <2>4, <2>5, <2>6, <2>7
       DEF Next, AuditMulti, AuditBatch, Expire, vars
<1>5. DOMAIN redis' = DOMAIN redis
  BY <1>0, TypePreserved DEF TypeOK
<1>6. QED
  BY <1>3, <1>4, <1>5 DEF HitsPaidFor, Payers

(* AuditInv, the invariant of the audits: in particular, every request is  *)
(* charged exactly for what it was answered with (ChargedExactly).         *)
THEOREM AuditInvariant == Spec => []AuditInv
<1>1. AuditInv /\ [Next]_vars => AuditInv'
  BY TypePreserved, CachePreserved, ResultsPreserved, ChargedPreserved,
     PaidPreserved, Zenon DEF AuditInv
<1>2. QED
  BY InitInv, <1>1, PTL DEF Spec

-----------------------------------------------------------------------------
(* A voice audit is answered with an analysis of its channel and tail.     *)
THEOREM AnswersAreOfTheirKey == Spec => []AnswerOfItsKey
<1>1. AuditInv => AnswerOfItsKey
  <2>. SUFFICES ASSUME AuditInv, NEW r \in Request,
                       kind[r] = "voice", pc[r] \in {"served", "answered", "done"}
       PROVE  CacheKey(results[r][1].stream) = CacheKey(streams[r][1])
    BY DEF AnswerOfItsKey, CacheKey
  <2>1. TypeOK /\ RightResults(r)
    BY DEF AuditInv, ResultsRight
  <2>2. CASE pc[r] = "served"
    BY <2>1, <2>2 DEF RightResults
  <2>3. CASE pc[r] # "served"
    <3>1. 1 \in DOMAIN streams[r]
      BY <2>1 DEF RightResults, TypeOK
    <3>2. QED
      BY <2>1, <2>3, <3>1 DEF RightResults, Own
  <2>4. QED
    BY <2>2, <2>3
<1>2. QED
  BY AuditInvariant, <1>1, PTL

(* Nobody is served a result from the cache that no audit pays for: behind *)
(* every hit there is a voice audit whose own analysis it is and which is  *)
(* charged for it, at the latest by its background task, unless its worker *)
(* dies.  Expiry, restarts and a failing Redis change nothing about it.    *)
THEOREM HitsArePaidFor == Spec => []HitsPaidFor
<1>1. AuditInv => HitsPaidFor
  BY DEF AuditInv
<1>2. QED
  BY AuditInvariant, <1>1, PTL

(* More than half, once with rounding and once without.                    *)
LEMMA Halves == \A c, n \in Nat : 2 * c > n <=> c > n \div 2
OBVIOUS

(* The API's vote over fallback analyses is the engine's vote over the     *)
(* channels, for any number of channels.                                   *)
THEOREM VotesAgree == Spec => []EnsemblesAgree
<1>1. AuditInv => EnsemblesAgree
  <2>. SUFFICES ASSUME AuditInv, NEW r \in Request,
                       kind[r] = "multi", pc[r] \in {"answered", "done"},
                       \A i \in DOMAIN results[r] : ~ results[r][i].native
       PROVE  EnsembleVote(results[r]) = "deepfake" <=> ensemble_vote(streams[r])
    BY DEF EnsemblesAgree
  <2> DEFINE low == {i \in DOMAIN streams[r] : variance[streams[r][i]] = "low"}
             n == Len(streams[r])
  <2>1. /\ streams[r] \in Seq(Stream) /\ results[r] \in Seq(Result)
        /\ Len(results[r]) = n
        /\ \A i \in DOMAIN streams[r] : results[r][i].stream = streams[r][i]
    BY DEF AuditInv, TypeOK, ResultsRight, RightResults, Own
  <2>2. DOMAIN results[r] = DOMAIN streams[r] /\ DOMAIN streams[r] = 1 .. n /\ n \in Nat
    BY <2>1
  <2>3. {i \in DOMAIN results[r] : Verdict(results[r][i]) = "deepfake"} = low
    BY <2>1, <2>2 DEF Verdict
  <2>4. Cardinality(low) \in Nat
    <3>1. IsFiniteSet(1 .. n)
      BY <2>2, FS_Interval
    <3>2. IsFiniteSet(low)
      BY <2>2, <3>1, FS_Subset
    <3>3. QED
      BY <3>2, FS_CardinalityType
  <2>5. EnsembleVote(results[r]) = "deepfake" <=> 2 * Cardinality(low) > n
    BY <2>1, <2>3 DEF EnsembleVote, Votes
  <2>6. QED
    BY <2>2, <2>4, <2>5, Halves DEF ensemble_vote
<1>2. QED
  BY AuditInvariant, <1>1, PTL

-----------------------------------------------------------------------------
(* The votes cast for a verdict.                                           *)
LEMMA VotesCounted ==
  ASSUME NEW rs \in Seq(Result), NEW verdict
  PROVE  IsFiniteSet({i \in DOMAIN rs : Verdict(rs[i]) = verdict}) /\ Votes(rs, verdict) \in Nat
<1>1. IsFiniteSet(DOMAIN rs)
  <2>1. DOMAIN rs = 1 .. Len(rs) /\ Len(rs) \in Nat
    OBVIOUS
  <2>2. QED
    BY <2>1, FS_Interval
<1>2. IsFiniteSet({i \in DOMAIN rs : Verdict(rs[i]) = verdict})
  BY <1>1, FS_Subset
<1>3. QED
  BY <1>2, FS_CardinalityType DEF Votes

(* How grave an answer is. *)
Rank(verdict) == CASE verdict = "deepfake" -> 2
                   [] verdict = "suspicious" -> 1
                   [] OTHER -> 0

(* audit_multi_channel()'s vote rises with its channels as long as only    *)
(* channels that were taken for human change: whichever of them become     *)
(* suspicious or deepfakes, and with any number of channels, the answer is *)
(* no less grave than before.                                              *)
THEOREM VotesRise ==
  ASSUME NEW old \in Seq(Result), NEW new \in Seq(Result), Len(new) = Len(old),
         \A i \in DOMAIN old :
           Verdict(old[i]) # "human" => Verdict(new[i]) = Verdict(old[i])
  PROVE  Rank(EnsembleVote(old)) <= Rank(EnsembleVote(new))
<1>1. ASSUME NEW verdict \in {"deepfake", "suspicious"}
      PROVE  Votes(old, verdict) <= Votes(new, verdict)
  <2>. DEFINE before == {i \in DOMAIN old : Verdict(old[i]) = verdict}
              after == {i \in DOMAIN new : Verdict(new[i]) = verdict}
  <2>1. DOMAIN new = DOMAIN old
    OBVIOUS
  <2>2. before \in SUBSET after
    BY <1>1, <2>1
  <2>3. IsFiniteSet(after)
    BY VotesCounted
  <2>4. QED
    BY <2>2, <2>3, FS_Subset DEF Votes
<1>2. \A verdict : Votes(old, verdict) \in Nat /\ Votes(new, verdict) \in Nat
  BY VotesCounted
<1>3. Len(old) \in Nat /\ Votes(old, "deepfake") <= Votes(new, "deepfake")
      /\ Votes(old, "suspicious") <= Votes(new, "suspicious")
  BY <1>1
<1>4. /\ 2 * Votes(old, "deepfake") > Len(old) => 2 * Votes(new, "deepfake") > Len(new)
      /\ 3 * Votes(old, "suspicious") > Len(old) => 3 * Votes(new, "suspicious") > Len(new)
  BY <1>2, <1>3
<1>5. QED
  BY <1>4 DEF Rank, EnsembleVote

(* It falls when a suspicious channel turns out to be a deepfake: a call   *)
(* with two suspicious channels of four is held for review, and the same   *)
(* call with one of the two a deepfake passes as human, since the two      *)
(* kinds of votes are counted apart.                                       *)
THEOREM VoteCanFall ==
  ASSUME NEW human \in Result, NEW suspicious \in Result, NEW deepfake \in Result,
         Verdict(human) = "human", Verdict(suspicious) = "suspicious",
         Verdict(deepfake) = "deepfake"
  PROVE  /\ EnsembleVote(<<suspicious, suspicious, human, human>>) = "suspicious"
         /\ EnsembleVote(<<deepfake, suspicious, human, human>>) = "human"
<1>. DEFINE old == <<suspicious, suspicious, human, human>>
            new == <<deepfake, suspicious, human, human>>
<1>1. /\ {i \in DOMAIN old : Verdict(old[i]) = "deepfake"} = {}
      /\ {i \in DOMAIN old : Verdict(old[i]) = "suspicious"} = {1} \cup {2}
      /\ {i \in DOMAIN new : Verdict(new[i]) = "deepfake"} = {1}
      /\ {i \in DOMAIN new : Verdict(new[i]) = "suspicious"} = {2}
  OBVIOUS
<1>2. Cardinality({1}) = 1 /\ Cardinality({2}) = 1 /\ Cardinality({1} \cup {2}) = 2
  <2>1. \A x \in Nat : IsFiniteSet({x}) /\ Cardinality({x}) = 1
    BY FS_Singleton
  <2>2. Cardinality({1} \cup {2}) = IF 2 \in {1} THEN Cardinality({1}) ELSE Cardinality({1}) + 1
    BY <2>1, FS_AddElement
  <2>3. QED
    BY <2>1, <2>2
<1>3. /\ Votes(old, "deepfake") = 0 /\ Votes(old, "suspicious") = 2
      /\ Votes(new, "deepfake") = 1 /\ Votes(new, "suspicious") = 1
  BY <1>1, <1>2, FS_EmptySet DEF Votes
<1>4. Len(old) = 4 /\ Len(new) = 4
  OBVIOUS
<1>. HIDE DEF old, new
<1>5. EnsembleVote(old) = "suspicious" /\ EnsembleVote(new) = "human"
  BY <1>3, <1>4 DEF EnsembleVote
<1>6. QED
  BY <1>5 DEF old, new
=============================================================================
