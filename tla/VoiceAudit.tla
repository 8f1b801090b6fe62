----------------------------- MODULE VoiceAudit -----------------------------
(***************************************************************************)
(* The three audit endpoints of api/routers/voice_audit.py in the API's    *)
(* worker processes, over the Redis cache they share.  A handler is cut    *)
(* where it awaits Redis or its answer is sent: other requests run in      *)
(* between.  analyze_stream() awaits nothing, so the analyses of a request *)
(* are one step.  Credits are deducted by a background task, which the     *)
(* worker runs after it has sent the answer.                               *)
(*                                                                         *)
(* Left out: DeepfakeService._analysis_cache and _active_streams, which    *)
(* no audit reads, and log_result(), which does nothing.                   *)
(***************************************************************************)
EXTENDS Integers, Sequences, FiniteSets

CONSTANTS Worker, Request,
          NoResult,     \* what the cache has under a key that is not there
          Stream,       \* what can be sent for analysis
          channel,      \* the channel_identity of each stream,
          tail,         \* the hash of its last ten samples,
          variance,     \* its variance: low (below 0.045), middle or high,
          Flagged,      \* those the native engine calls deepfakes,
          Finite,       \* and those whose statistics are finite numbers: not an
                        \* empty one, nor one with a NaN or too large a sample
          Bundle,       \* the lists sent to audit-multi-channel and audit-batch
          Faults        \* which of "redis", "expiry" and "restart" may happen

Result == [stream : Stream, native : BOOLEAN]

ASSUME VoiceAssumption ==
  /\ NoResult \notin Result
  /\ DOMAIN channel = Stream /\ DOMAIN tail = Stream
  /\ variance \in [Stream -> {"low", "middle", "high"}]
  /\ Flagged \subseteq Stream /\ Finite \subseteq Stream
  /\ Bundle \subseteq Seq(Stream) /\ \A ss \in Bundle : Len(ss) > 0
  /\ Faults \subseteq {"redis", "expiry", "restart"}

VARIABLES
  native,       \* DeepfakeService._initialized of each worker
  cached,       \* CacheService._initialized of each worker
  redis,        \* the cache
  pc,           \* where each request is
  at,           \* the worker that serves it
  kind,         \* the endpoint it was sent to
  streams,      \* its payload
  results,      \* what it found, in the cache or by analysis
  charged       \* cents deducted for it

workers == <<native, cached>>
payload == <<at, kind, streams>>
vars == <<workers, redis, pc, payload, results, charged>>

CacheKey_NoChannel(s) == <<tail[s]>>
CacheKey(s) == <<channel[s], tail[s]>>
Ended == {"served", "unserved", "done", "failed", "lost"}

(* A worker that fails to load the engine or to reach Redis when it starts *)
(* does without for as long as it runs.                                    *)
Init ==
  /\ native \in [Worker -> BOOLEAN]
  /\ cached \in [Worker -> IF "redis" \in Faults THEN BOOLEAN ELSE {TRUE}]
  /\ redis = [k \in {CacheKey(s) : s \in Stream} |-> NoResult]
  /\ pc = [r \in Request |-> "idle"]
  /\ at = [r \in Request |-> "none"]
  /\ kind = [r \in Request |-> "none"]
  /\ streams = [r \in Request |-> <<>>]
  /\ results = [r \in Request |-> <<>>]
  /\ charged = [r \in Request |-> 0]

-----------------------------------------------------------------------------
(* analyze_stream(): the engine's verdict or, without it, the variance's. *)
Verdict(result) ==
  IF result.native
    THEN IF result.stream \in Flagged THEN "deepfake" ELSE "human"
    ELSE IF variance[result.stream] = "low" THEN "deepfake"
    ELSE IF variance[result.stream] = "middle" THEN "suspicious" ELSE "human"

analyze_stream(w, s) == [stream |-> s, native |-> native[w]]
Analyses(w, ss) == [i \in DOMAIN ss |-> analyze_stream(w, ss[i])]

(* The vote of audit-multi-channel: over a half of the channels deepfakes, *)
(* or over a third of them suspicious.                                     *)
Votes(rs, verdict) == Cardinality({i \in DOMAIN rs : Verdict(rs[i]) = verdict})
EnsembleVote_Half(rs) ==
  IF 2 * Votes(rs, "deepfake") >= Len(rs) THEN "deepfake"
  ELSE IF 3 * Votes(rs, "suspicious") > Len(rs) THEN "suspicious" ELSE "human"
EnsembleVote(rs) ==
  IF 2 * Votes(rs, "deepfake") > Len(rs) THEN "deepfake"
  ELSE IF 3 * Votes(rs, "suspicious") > Len(rs) THEN "suspicious" ELSE "human"

(* MultiChannelProcessor::ensemble_vote(), the engine's own vote. *)
ensemble_vote(ss) ==
  Cardinality({i \in DOMAIN ss : variance[ss[i]] = "low"}) > Len(ss) \div 2

Price(r) == CASE kind[r] = "voice" -> 10
              [] kind[r] = "multi" -> 25
              [] OTHER             -> 8 * Len(streams[r])

Goto(r, label) == pc' = [pc EXCEPT ![r] = label]
Receive(r, w, endpoint, ss) ==
  /\ pc[r] = "idle"
  /\ at' = [at EXCEPT ![r] = w]
  /\ kind' = [kind EXCEPT ![r] = endpoint]
  /\ streams' = [streams EXCEPT ![r] = ss]

-----------------------------------------------------------------------------
(* audit_voice_stream() up to the answer of CacheService.get(): a miss may *)
(* also be a call to Redis that failed.                                    *)
VoiceLookup(r, w, s) ==
  /\ Receive(r, w, "voice", <<s>>)
  /\ \/ /\ cached[w] /\ redis[CacheKey(s)] # NoResult
        /\ Goto(r, "hit")
        /\ results' = [results EXCEPT ![r] = <<redis[CacheKey(s)]>>]
     \/ /\ \/ ~ cached[w]
           \/ redis[CacheKey(s)] = NoResult
           \/ "redis" \in Faults
        /\ Goto(r, "missed")
        /\ UNCHANGED results
  /\ UNCHANGED <<workers, redis, charged>>

VoiceAnalyse(r) ==
  /\ pc[r] = "missed"
  /\ results' = [results EXCEPT ![r] = Analyses(at[r], streams[r])]
  /\ Goto(r, "analysed")
  /\ UNCHANGED <<workers, redis, payload, charged>>

(* CacheService.set() reports a failure and the handler ignores it. *)
VoiceStore_Insists(r) ==
  /\ pc[r] = "analysed"
  /\ cached[at[r]]
  /\ redis' = [redis EXCEPT ![CacheKey(streams[r][1])] = results[r][1]]
  /\ Goto(r, "ready")
  /\ UNCHANGED <<workers, payload, results, charged>>
VoiceStore(r) ==
  /\ pc[r] = "analysed"
  /\ \/ /\ cached[at[r]]
        /\ redis' = [redis EXCEPT ![CacheKey(streams[r][1])] = results[r][1]]
     \/ /\ ~ cached[at[r]] \/ "redis" \in Faults
        /\ UNCHANGED redis
  /\ Goto(r, "ready")
  /\ UNCHANGED <<workers, payload, results, charged>>

(* audit_multi_channel() and audit_batch() up to their results.  Neither   *)
(* looks into the cache; only the channels' samples are counted.           *)
AuditBundle(r, w, endpoint, ss) ==
  /\ Receive(r, w, endpoint, ss)
  /\ results' = [results EXCEPT ![r] = Analyses(w, ss)]
  /\ Goto(r, "ready")
  /\ UNCHANGED <<workers, redis, charged>>
AuditMulti(r, w, ss) ==
  /\ Len(ss) >= 2
  /\ AuditBundle(r, w, "multi", ss)
AuditBatch(r, w, ss) == AuditBundle(r, w, "batch", ss)

(* JSON has no NaN and no infinity: what has one among its statistics      *)
(* cannot be rendered, and the request ends as a 500.                      *)
Renders(r) == \A i \in DOMAIN results[r] : results[r][i].stream \in Finite

(* A result of the cache is sent as it is, and nothing is charged. *)
ServeHit(r) ==
  /\ pc[r] = "hit"
  /\ Goto(r, IF Renders(r) THEN "served" ELSE "unserved")
  /\ UNCHANGED <<workers, redis, payload, results, charged>>

(* The answer is rendered and sent; a 500 runs no background tasks.        *)
Answer(r) ==
  /\ pc[r] = "ready"
  /\ Renders(r)
  /\ Goto(r, "answered")
  /\ UNCHANGED <<workers, redis, payload, results, charged>>

RenderFails_Charged(r) ==
  /\ pc[r] = "ready"
  /\ ~ Renders(r)
  /\ Goto(r, "failed")
  /\ charged' = [charged EXCEPT ![r] = @ + Price(r)]
  /\ UNCHANGED <<workers, redis, payload, results>>
RenderFails(r) ==
  /\ pc[r] = "ready"
  /\ ~ Renders(r)
  /\ Goto(r, "failed")
  /\ UNCHANGED <<workers, redis, payload, results, charged>>

(* The background task: BillingService.deduct_credit(). *)
deduct_credit(r) ==
  /\ pc[r] = "answered"
  /\ charged' = [charged EXCEPT ![r] = @ + Price(r)]
  /\ Goto(r, "done")
  /\ UNCHANGED <<workers, redis, payload, results>>

-----------------------------------------------------------------------------
(* An entry's 60 seconds are over, or Redis evicts it. *)
Expire(k) ==
  /\ "expiry" \in Faults
  /\ redis[k] # NoResult
  /\ redis' = [redis EXCEPT ![k] = NoResult]
  /\ UNCHANGED <<workers, pc, payload, results, charged>>

(* A worker dies with the requests and the tasks it had, and is started    *)
(* again (lifespan() of api/main.py, DeepfakeService.initialize() and      *)
(* CacheService.initialize()).                                             *)
Restart(w) ==
  /\ "restart" \in Faults
  /\ \E n \in BOOLEAN : native' = [native EXCEPT ![w] = n]
  /\ \E c \in BOOLEAN :
       /\ c \/ "redis" \in Faults
       /\ cached' = [cached EXCEPT ![w] = c]
  /\ pc' = [r \in Request |->
              IF at[r] = w /\ pc[r] \notin Ended \cup {"idle"} THEN "lost" ELSE pc[r]]
  /\ UNCHANGED <<redis, payload, results, charged>>

RequestStep(r) ==
  \/ VoiceAnalyse(r) \/ VoiceStore(r) \/ ServeHit(r)
  \/ Answer(r) \/ RenderFails(r) \/ deduct_credit(r)

Next ==
  \/ \E r \in Request, w \in Worker :
       \/ \E s \in Stream : VoiceLookup(r, w, s)
       \/ \E ss \in Bundle : AuditMulti(r, w, ss) \/ AuditBatch(r, w, ss)
  \/ \E r \in Request : RequestStep(r)
  \/ \E k \in DOMAIN redis : Expire(k)
  \/ \E w \in Worker : Restart(w)

(* A worker's event loop gets to every request it has taken on. *)
Fairness == \A r \in Request : WF_vars(RequestStep(r))
Spec == Init /\ [][Next]_vars /\ Fairness

-----------------------------------------------------------------------------
(* Where a request's results are its own analyses. *)
Own(r) == pc[r] \in {"analysed", "ready", "answered", "done", "failed"}

TypeOK ==
  /\ native \in [Worker -> BOOLEAN] /\ cached \in [Worker -> BOOLEAN]
  /\ redis \in [{CacheKey(s) : s \in Stream} -> Result \cup {NoResult}]
  /\ pc \in [Request -> {"idle", "hit", "missed", "analysed", "ready", "answered"} \cup Ended]
  /\ at \in [Request -> Worker \cup {"none"}]
  /\ kind \in [Request -> {"none", "voice", "multi", "batch"}]
  /\ streams \in [Request -> Seq(Stream)]
  /\ results \in [Request -> Seq(Result)]
  /\ charged \in [Request -> Nat]

(* What is cached under a key is the analysis of a stream with that key. *)
CacheRight ==
  \A k \in DOMAIN redis : redis[k] # NoResult => CacheKey(redis[k].stream) = k

(* A request is some worker's, a voice audit of one stream.  A hit's       *)
(* result has its key; all others are the analyses of the streams, in      *)
(* order.                                                                  *)
RightResults(r) ==
  /\ pc[r] # "idle" => at[r] \in Worker
  /\ pc[r] # "idle" /\ kind[r] = "voice" => Len(streams[r]) = 1
  /\ pc[r] \in {"hit", "served", "unserved"} =>
       /\ kind[r] = "voice"
       /\ Len(results[r]) = 1
       /\ CacheKey(results[r][1].stream) = CacheKey(streams[r][1])
       /\ pc[r] = "served" => Renders(r)
  /\ Own(r) =>
       /\ Len(results[r]) = Len(streams[r])
       /\ \A i \in DOMAIN streams[r] : results[r][i].stream = streams[r][i]
  /\ pc[r] \in {"missed", "analysed"} => kind[r] = "voice"
ResultsRight == \A r \in Request : RightResults(r)

(* An audit is charged its price when it has been answered with an         *)
(* analysis of its own, and else nothing: not for a cached result, a 500   *)
(* or a request that was cut off; whatever workers and Redis do.           *)
ChargedExactly ==
  \A r \in Request : charged[r] = IF pc[r] = "done" THEN Price(r) ELSE 0

(* The audits whose analysis a result is, and which are charged for it, or *)
(* will be unless their worker dies.                                       *)
Payers(result) ==
  {q \in Request : /\ kind[q] = "voice"
                   /\ pc[q] \in {"ready", "answered", "done", "lost"}
                   /\ streams[q] = <<result.stream>>
                   /\ results[q] = <<result>>}

(* What was served from the cache for nothing, or can be, is some audit's  *)
(* own analysis, which that audit pays for.  Of results that cannot be     *)
(* rendered it does not hold: the audit that stored one ended as a 500.    *)
HitsPaidFor ==
  /\ \A k \in DOMAIN redis :
       redis[k] # NoResult /\ redis[k].stream \in Finite => Payers(redis[k]) # {}
  /\ \A r \in Request :
       pc[r] = "served" \/ (pc[r] = "hit" /\ Renders(r)) => Payers(results[r][1]) # {}

AuditInv == TypeOK /\ CacheRight /\ ResultsRight /\ ChargedExactly /\ HitsPaidFor

(* A voice audit is answered with the analysis of a stream that came over  *)
(* the same channel and ended in the same samples, if not with its own:    *)
(* the cache, shared by all requests and workers, mixes up no channels.    *)
AnswerOfItsKey ==
  \A r \in Request :
    kind[r] = "voice" /\ pc[r] \in {"served", "answered", "done"} =>
      /\ channel[results[r][1].stream] = channel[streams[r][1]]
      /\ tail[results[r][1].stream] = tail[streams[r][1]]

(* Where the Python fallback analysed the channels, the API reports a      *)
(* deepfake for exactly those calls for which the engine's own             *)
(* ensemble_vote() does: n / 2 is a real number in the one and rounded     *)
(* down in the other.                                                      *)
EnsemblesAgree ==
  \A r \in Request :
    kind[r] = "multi" /\ pc[r] \in {"answered", "done"}
      /\ (\A i \in DOMAIN results[r] : ~ results[r][i].native) =>
        (EnsembleVote(results[r]) = "deepfake" <=> ensemble_vote(streams[r]))

(* Every audit that was received ends: it is answered and, if it has to be, *)
(* charged, or it fails, or its worker dies.                                *)
EveryAuditEnds == \A r \in Request : pc[r] # "idle" ~> pc[r] \in Ended

(* "Check cache for recent analysis (prevent duplicate processing)", says  *)
(* audit_voice_stream(): while nothing expires and nothing fails, a key is *)
(* analysed once.                                                          *)
DuplicatesPrevented ==
  \A q, r \in Request :
    q # r /\ kind[q] = "voice" /\ kind[r] = "voice" /\ Own(q) /\ Own(r) =>
      CacheKey(streams[q][1]) # CacheKey(streams[r][1])
=============================================================================
