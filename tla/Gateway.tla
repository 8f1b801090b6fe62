------------------------------ MODULE Gateway ------------------------------
(***************************************************************************)
(* What a request meets in one worker process of the API before its        *)
(* router: AuthMiddleware (api/middleware/auth.py) and, inside it,         *)
(* RateLimitMiddleware with one token-bucket RateLimiter per API key       *)
(* (api/middleware/rate_limiter.py).  Nothing between the two awaits       *)
(* anything, so a request passes them in one step.                         *)
(*                                                                         *)
(* The buckets go by time.time(), a wall clock that runs, but may also be  *)
(* set, forward or back, between any two requests.  Tokens are counted in  *)
(* integer units, Cost of them to a request.                               *)
(***************************************************************************)
EXTENDS Integers

CONSTANTS Key,          \* what clients send as X-BioShield-Token, or nothing
          ValidKey,     \* those validate_api_key() knows
          Capacity,     \* default_burst, in units
          Rate,         \* default_rate / 60, units a tick
          Cost,         \* one token, in units
          Second,       \* ticks in a second
          Horizon       \* bound of the clock

ASSUME GatewayAssumption ==
  /\ ValidKey \subseteq Key
  /\ Capacity \in Nat /\ Rate \in Nat \ {0} /\ Cost \in Nat \ {0}
  /\ Cost <= Capacity
  /\ Second \in Nat \ {0}
  /\ Horizon \in Nat

VARIABLES
  clock,        \* time.time()
  limiters,     \* the keys that have a RateLimiter
  tokens,       \* its tokens
  last_refill,  \* and when they were last refilled
  answer,       \* what the last request got
  window,       \* ghost: requests admitted since some request
  sinceFull,    \* ghost: requests admitted since the bucket was last full
  retryAt       \* ghost: when Retry-After last told a refused client to return

bucketVars == <<limiters, tokens, last_refill>>
ghostVars == <<window, sinceFull, retryAt>>
vars == <<clock, answer, bucketVars, ghostVars>>

Now == 0 .. Horizon
Never == -1

Init ==
  /\ clock \in Now
  /\ limiters = {}
  /\ tokens = [k \in ValidKey |-> 0]
  /\ last_refill = [k \in ValidKey |-> 0]
  /\ answer = "none"
  /\ window = [k \in ValidKey |-> [at |-> 0, admitted |-> 0]]
  /\ sinceFull = [k \in ValidKey |-> [at |-> 0, admitted |-> 0]]
  /\ retryAt = [k \in ValidKey |-> Never]

-----------------------------------------------------------------------------
(* RateLimiter.consume(): the bucket as this request finds it, full if it  *)
(* is new.                                                                 *)
Refilled(k) ==
  LET refill == tokens[k] + (clock - last_refill[k]) * Rate
  IN  IF k \notin limiters \/ refill > Capacity THEN Capacity ELSE refill

(* int(wait_time): the wait for the tokens that miss, cut to whole seconds. *)
RetryAfter(k) == (Cost - Refilled(k)) \div (Rate * Second)

Refill_KeepsTime(k, spent) ==
  /\ tokens' = [tokens EXCEPT ![k] = Refilled(k) - spent]
  /\ last_refill' = IF k \in limiters /\ spent = 0 THEN last_refill
                    ELSE [last_refill EXCEPT ![k] = clock]
  /\ limiters' = limiters \cup {k}
Refill_OnlyAdmitted(k, spent) ==
  /\ tokens' = IF k \in limiters /\ spent = 0 THEN tokens
               ELSE [tokens EXCEPT ![k] = Refilled(k) - spent]
  /\ last_refill' = [last_refill EXCEPT ![k] = clock]
  /\ limiters' = limiters \cup {k}
Refill(k, spent) ==
  /\ tokens' = [tokens EXCEPT ![k] = Refilled(k) - spent]
  /\ last_refill' = [last_refill EXCEPT ![k] = clock]
  /\ limiters' = limiters \cup {k}

Opened(full, ghost, n) ==   \* a ghost window, restarted or not, n requests on
  IF full THEN [at |-> clock, admitted |-> n]
  ELSE [ghost EXCEPT !.admitted = @ + n]

CountFull(k, n) ==
  sinceFull' = [sinceFull EXCEPT ![k] = Opened(Refilled(k) = Capacity, @, n)]

Affords_Strict(k) == Refilled(k) > Cost
Affords(k) == Refilled(k) >= Cost

(* One token is left: the request goes on to its router. *)
Route(k) ==
  /\ k \in ValidKey
  /\ Affords(k)
  /\ Refill(k, Cost)
  /\ answer' = "routed"
  /\ \E new \in BOOLEAN :
       /\ k \notin limiters => new
       /\ window' = [window EXCEPT ![k] = Opened(new, @, 1)]
  /\ CountFull(k, 1)
  /\ retryAt' = [retryAt EXCEPT ![k] = Never]
  /\ UNCHANGED clock

(* send_rate_limit_response(): the tokens are refilled all the same. *)
Refuse(k) ==
  /\ k \in ValidKey
  /\ ~ Affords(k)
  /\ Refill(k, 0)
  /\ answer' = "429"
  /\ CountFull(k, 0)
  /\ retryAt' = [retryAt EXCEPT ![k] = clock + Second * RetryAfter(k)]
  /\ UNCHANGED <<clock, window>>

(* A missing or unknown key is answered before the rate limiter sees it. *)
Unauthenticated(k) ==
  /\ k \notin ValidKey
  /\ answer' = "401"
  /\ UNCHANGED <<clock, bucketVars, ghostVars>>

(* The three health paths and /metrics pass both middlewares unchecked. *)
Health ==
  /\ answer' = "health"
  /\ UNCHANGED <<clock, bucketVars, ghostVars>>

(* The clock runs, or is set. *)
Clock ==
  /\ clock' \in Now \ {clock}
  /\ UNCHANGED <<answer, bucketVars, ghostVars>>

Next ==
  \/ \E k \in Key : Route(k) \/ Refuse(k) \/ Unauthenticated(k)
  \/ Health
  \/ Clock

Spec == Init /\ [][Next]_vars

-----------------------------------------------------------------------------
TypeOK ==
  /\ clock \in Now
  /\ limiters \in SUBSET ValidKey
  /\ tokens \in [ValidKey -> Int]
  /\ last_refill \in [ValidKey -> Now]
  /\ answer \in {"none", "401", "429", "health", "routed"}
  /\ window \in [ValidKey -> [at : Now, admitted : Nat]]
  /\ sinceFull \in [ValidKey -> [at : Now, admitted : Nat]]
  /\ retryAt \in [ValidKey -> Nat \cup {Never}]

(* The strengthening of the three properties below, per key: what has been *)
(* admitted and what is left are covered by the burst and the refill, to   *)
(* the token since the bucket was full, and the tokens a refused client    *)
(* waits for come within a second of the time it was told.                 *)
WithinBudget(k) ==
  Cost * window[k].admitted + tokens[k] <= Capacity + Rate * (last_refill[k] - window[k].at)
AllAccounted(k) ==
  Cost * sinceFull[k].admitted + tokens[k] = Capacity + Rate * (last_refill[k] - sinceFull[k].at)
OnTheirWay(k) ==
  retryAt[k] # Never => tokens[k] + Rate * ((retryAt[k] + Second) - last_refill[k]) >= Cost
BucketInv(k) ==
  /\ tokens[k] <= Capacity
  /\ WithinBudget(k)
  /\ AllAccounted(k)
  /\ OnTheirWay(k)

GatewayInv ==
  /\ TypeOK
  /\ \A k \in limiters : BucketInv(k)
  /\ \A k \in ValidKey \ limiters : retryAt[k] = Never

(* From any of its requests on, a key is admitted at most the burst and    *)
(* what the rate has added since, by the clock of the moment, however the  *)
(* clock has been set forward and back meanwhile.                          *)
RateBound ==
  [][\A k \in ValidKey : Route(k) =>
       Cost * window'[k].admitted <= Capacity + Rate * (clock - window'[k].at)]_vars

(* A request is refused only if one more would exceed the burst and what   *)
(* the rate has added since the bucket was last full: no token is lost, in *)
(* refused requests and under a clock set back neither.                    *)
RefusedOverBudget ==
  [][\A k \in ValidKey : Refuse(k) =>
       Cost * (sinceFull'[k].admitted + 1) > Capacity + Rate * (clock - sinceFull'[k].at)]_vars

(* Retry-After, int(wait_time), is never more than a second too early: a   *)
(* client that waits one second longer than it was told is not refused     *)
(* again, whatever other refused requests with its key do to the bucket,   *)
(* unless one of them was admitted meanwhile.  (At the told time it may    *)
(* well be refused: a wait below a second is told as 0.)                   *)
RetryAfterHolds ==
  [][\A k \in ValidKey : Refuse(k) =>
       retryAt[k] = Never \/ clock < retryAt[k] + Second]_vars
=============================================================================
