--------------------------- MODULE GatewayProofs ---------------------------
(***************************************************************************)
(* The properties of Gateway, for every set of keys, burst, rate and cost. *)
(* What a bucket holds and what it has admitted add up to a line in the    *)
(* clock; a refill only moves along that line or is cut off at Capacity.   *)
(***************************************************************************)
EXTENDS Gateway, TLAPS

(* Elapsed times add up, whichever way the clock went. *)
LEMMA Telescope ==
  ASSUME NEW a \in Int, NEW b \in Int, NEW c \in Int
  PROVE  /\ Rate * (a - c) = Rate * (b - c) + Rate * (a - b)
         /\ Rate * (a - c) = Rate * (b - c) + (a - b) * Rate
         /\ Rate * (a - b) \in Int /\ (a - b) * Rate \in Int
BY GatewayAssumption, Z3

(* A bucket holds at most Capacity after a refill and, unless it is full,  *)
(* what it held and what has come since.                                   *)
LEMMA RefilledIs ==
  ASSUME TypeOK, NEW k \in ValidKey
  PROVE  /\ Refilled(k) \in Int
         /\ Refilled(k) <= Capacity
         /\ Refilled(k) # Capacity =>
              k \in limiters /\ Refilled(k) = tokens[k] + (clock - last_refill[k]) * Rate
         /\ k \in limiters => Refilled(k) <= tokens[k] + (clock - last_refill[k]) * Rate
<1>1. clock \in Int /\ last_refill[k] \in Int /\ tokens[k] \in Int /\ Capacity \in Int
  BY GatewayAssumption DEF TypeOK, Now
<1>2. (clock - last_refill[k]) * Rate \in Int
  BY <1>1, Telescope
<1>3. QED  BY <1>1, <1>2 DEF Refilled

(* The told wait and a second are long enough for the tokens that miss.    *)
LEMMA RetryAfterIs ==
  ASSUME TypeOK, NEW k \in ValidKey, ~ Affords(k)
  PROVE  /\ RetryAfter(k) \in Nat /\ Second * RetryAfter(k) \in Nat
         /\ Rate * (Second * RetryAfter(k) + Second) \in Int
         /\ Rate * (Second * RetryAfter(k) + Second) >= Cost - Refilled(k)
<1> DEFINE m == Cost - Refilled(k)
           s == Rate * Second
           q == m \div s
<1>1. m \in Nat /\ Rate \in Nat \ {0} /\ Second \in Nat \ {0}
  BY RefilledIs, GatewayAssumption DEF Affords
<1>2. s \in Nat \ {0}
  BY <1>1, Z3
<1> HIDE DEF m, s
<1>3. q \in Int /\ m = s * q + (m % s) /\ m % s \in 0 .. s - 1
  BY <1>1, <1>2
<1>4. q \in Nat
  BY <1>1, <1>2, Z3
<1> HIDE DEF q
<1>5. s * q + s >= m /\ s * q \in Int
  BY <1>1, <1>2, <1>3, <1>4, Z3
<1>6. Rate * (Second * q + Second) = s * q + s /\ Second * q \in Nat
  BY <1>1, <1>4, Z3 DEF s
<1>7. RetryAfter(k) = q
  BY DEF RetryAfter, q, m, s
<1>8. Rate * (Second * q + Second) \in Int /\ Rate * (Second * q + Second) >= m
  BY <1>2, <1>5, <1>6
<1>9. QED  BY <1>4, <1>6, <1>7, <1>8 DEF m

-----------------------------------------------------------------------------
(* The ghost windows a step opens or extends are windows. *)
LEMMA OpenedIs ==
  ASSUME clock \in Now, NEW full \in BOOLEAN, NEW g \in [at : Now, admitted : Nat], NEW n \in Nat
  PROVE  Opened(full, g, n) \in [at : Now, admitted : Nat]
BY DEF Opened

LEMMA TypeInit == Init => TypeOK
BY GatewayAssumption DEF Init, TypeOK, Now, Never

(* A refill that spends an integer keeps the buckets well typed. *)
LEMMA RefillTyped ==
  ASSUME TypeOK, NEW k \in ValidKey, NEW spent \in Int, Refill(k, spent)
  PROVE  /\ limiters' \in SUBSET ValidKey
         /\ tokens' \in [ValidKey -> Int]
         /\ last_refill' \in [ValidKey -> Now]
         /\ tokens'[k] = Refilled(k) - spent
         /\ last_refill'[k] = clock
         /\ limiters' = limiters \cup {k}
         /\ \A j \in ValidKey \ {k} : tokens'[j] = tokens[j] /\ last_refill'[j] = last_refill[j]
<1>1. Refilled(k) - spent \in Int
  BY RefilledIs
<1>2. QED  BY <1>1 DEF TypeOK, Refill

(* And the windows since full. *)
LEMMA CountFullTyped ==
  ASSUME TypeOK, NEW k \in ValidKey, NEW n \in Nat, CountFull(k, n)
  PROVE  /\ sinceFull' \in [ValidKey -> [at : Now, admitted : Nat]]
         /\ sinceFull'[k] = Opened(Refilled(k) = Capacity, sinceFull[k], n)
         /\ \A j \in ValidKey \ {k} : sinceFull'[j] = sinceFull[j]
<1>1. sinceFull[k] \in [at : Now, admitted : Nat] /\ clock \in Now
  BY DEF TypeOK
<1>2. Opened(Refilled(k) = Capacity, sinceFull[k], n) \in [at : Now, admitted : Nat]
  BY <1>1, OpenedIs
<1>3. QED  BY <1>2 DEF TypeOK, CountFull

LEMMA TypeNext == TypeOK /\ [Next]_vars => TypeOK'
<1> SUFFICES ASSUME TypeOK, [Next]_vars PROVE TypeOK'
  OBVIOUS
<1>1. ASSUME NEW k \in Key, Route(k) PROVE TypeOK'
  <2>1. k \in ValidKey /\ Cost \in Int
    BY <1>1, GatewayAssumption DEF Route
  <2>2. Refill(k, Cost) /\ CountFull(k, 1)
    BY <1>1 DEF Route
  <2>3. /\ limiters' \in SUBSET ValidKey /\ tokens' \in [ValidKey -> Int]
        /\ last_refill' \in [ValidKey -> Now]
    BY <2>1, <2>2, RefillTyped
  <2>4. sinceFull' \in [ValidKey -> [at : Now, admitted : Nat]]
    BY <2>1, <2>2, CountFullTyped
  <2>5. window' \in [ValidKey -> [at : Now, admitted : Nat]]
    <3>1. PICK new \in BOOLEAN : window' = [window EXCEPT ![k] = Opened(new, window[k], 1)]
      BY <1>1, <2>1 DEF Route, TypeOK
    <3>2. Opened(new, window[k], 1) \in [at : Now, admitted : Nat]
      BY <2>1, OpenedIs DEF TypeOK
    <3>3. QED  BY <3>1, <3>2 DEF TypeOK
  <2>6. clock' \in Now /\ answer' = "routed" /\ retryAt' \in [ValidKey -> Nat \cup {Never}]
    BY <1>1 DEF Route, TypeOK
  <2>7. QED  BY <2>3, <2>4, <2>5, <2>6 DEF TypeOK
<1>2. ASSUME NEW k \in Key, Refuse(k) PROVE TypeOK'
  <2>1. k \in ValidKey
    BY <1>2 DEF Refuse
  <2>2. Refill(k, 0) /\ CountFull(k, 0)
    BY <1>2 DEF Refuse
  <2>3. /\ limiters' \in SUBSET ValidKey /\ tokens' \in [ValidKey -> Int]
        /\ last_refill' \in [ValidKey -> Now]
    BY <2>1, <2>2, RefillTyped
  <2>4. sinceFull' \in [ValidKey -> [at : Now, admitted : Nat]]
    BY <2>1, <2>2, CountFullTyped
  <2>5. clock + Second * RetryAfter(k) \in Nat
    <3>1. Second * RetryAfter(k) \in Nat
      BY <1>2, <2>1, RetryAfterIs DEF Refuse
    <3>2. QED  BY <3>1, GatewayAssumption DEF TypeOK, Now
  <2>6. clock' \in Now /\ answer' = "429" /\ retryAt' \in [ValidKey -> Nat \cup {Never}]
        /\ window' \in [ValidKey -> [at : Now, admitted : Nat]]
    BY <1>2, <2>5 DEF Refuse, TypeOK
  <2>7. QED  BY <2>3, <2>4, <2>6 DEF TypeOK
<1>3. ASSUME NEW k \in Key, Unauthenticated(k) PROVE TypeOK'
  BY <1>3 DEF TypeOK, Unauthenticated, bucketVars, ghostVars
<1>4. CASE Health
  BY <1>4 DEF TypeOK, Health, bucketVars, ghostVars
<1>5. CASE Clock
  BY <1>5 DEF TypeOK, Clock, bucketVars, ghostVars
<1>6. CASE UNCHANGED vars
  BY <1>6 DEF TypeOK, vars, bucketVars, ghostVars
<1>7. QED  BY <1>1, <1>2, <1>3, <1>4, <1>5, <1>6 DEF Next

-----------------------------------------------------------------------------
(* Route(k) keeps the bucket of k in order. *)
LEMMA RouteBucket ==
  ASSUME TypeOK, NEW k \in ValidKey, Route(k), k \in limiters => BucketInv(k)
  PROVE  BucketInv(k)'
<1>1. Refill(k, Cost) /\ CountFull(k, 1) /\ Cost \in Int
  BY GatewayAssumption DEF Route
<1>2. tokens'[k] = Refilled(k) - Cost /\ last_refill'[k] = clock
  BY <1>1, RefillTyped
<1>3. /\ Refilled(k) \in Int /\ Refilled(k) <= Capacity
      /\ Refilled(k) # Capacity =>
           k \in limiters /\ Refilled(k) = tokens[k] + (clock - last_refill[k]) * Rate
      /\ k \in limiters => Refilled(k) <= tokens[k] + (clock - last_refill[k]) * Rate
  BY RefilledIs
<1>4. /\ clock \in Int /\ last_refill[k] \in Int /\ tokens[k] \in Int /\ Capacity \in Int /\ Cost \in Nat
      /\ window[k].at \in Int /\ window[k].admitted \in Nat
      /\ sinceFull[k].at \in Int /\ sinceFull[k].admitted \in Nat /\ Rate \in Nat
  <2>1. clock \in Now /\ window[k] \in [at : Now, admitted : Nat] /\ sinceFull[k] \in [at : Now, admitted : Nat]
    BY DEF TypeOK
  <2>2. QED  BY <2>1, GatewayAssumption DEF TypeOK, Now
<1>5. tokens'[k] <= Capacity
  BY <1>2, <1>3, <1>4
<1>6. AllAccounted(k)'
  <2>1. /\ sinceFull'[k] = Opened(Refilled(k) = Capacity, sinceFull[k], 1)
        /\ clock \in Now /\ sinceFull[k] \in [at : Now, admitted : Nat]
    BY <1>1, CountFullTyped DEF TypeOK
  <2>2. CASE Refilled(k) = Capacity
    <3>1. sinceFull'[k].at = clock /\ sinceFull'[k].admitted = 1
      BY <2>1, <2>2 DEF Opened
    <3>2. Rate * (clock - clock) = 0 /\ Cost * 1 = Cost
      BY <1>4
    <3>3. QED  BY <1>2, <1>4, <2>2, <3>1, <3>2 DEF AllAccounted
  <2>3. CASE Refilled(k) # Capacity
    <3>1. sinceFull'[k].at = sinceFull[k].at /\ sinceFull'[k].admitted = sinceFull[k].admitted + 1
      BY <2>1, <2>3 DEF Opened
    <3>2. Cost * sinceFull[k].admitted + tokens[k]
            = Capacity + Rate * (last_refill[k] - sinceFull[k].at)
      BY <1>3, <2>3 DEF BucketInv, AllAccounted
    <3>3. Rate * (clock - sinceFull[k].at)
            = Rate * (last_refill[k] - sinceFull[k].at) + (clock - last_refill[k]) * Rate
      BY <1>4, Z3
    <3>4. Cost * (sinceFull[k].admitted + 1) = Cost * sinceFull[k].admitted + Cost
      BY <1>4, Z3
    <3>5. /\ Rate * (last_refill[k] - sinceFull[k].at) \in Int /\ (clock - last_refill[k]) * Rate \in Int
          /\ Cost * sinceFull[k].admitted \in Int
      BY <1>4, Telescope
    <3>6. Cost * (sinceFull[k].admitted + 1) + (Refilled(k) - Cost)
            = Capacity + Rate * (clock - sinceFull[k].at)
      BY <1>3, <1>4, <2>3, <3>2, <3>3, <3>4, <3>5, SMTT(60)
    <3>7. QED  BY <1>2, <3>1, <3>6 DEF AllAccounted
  <2>4. QED  BY <2>2, <2>3
<1>7. WithinBudget(k)'
  <2>1. PICK new \in BOOLEAN :
          (k \notin limiters => new) /\ window' = [window EXCEPT ![k] = Opened(new, window[k], 1)]
    BY DEF Route, TypeOK
  <2>2. /\ window'[k] = Opened(new, window[k], 1)
        /\ clock \in Now /\ window[k] \in [at : Now, admitted : Nat]
    BY <2>1 DEF TypeOK
  <2>3. CASE new
    <3>1. window'[k].at = clock /\ window'[k].admitted = 1
      BY <2>2, <2>3 DEF Opened
    <3>2. Rate * (clock - clock) = 0 /\ Cost * 1 = Cost
      BY <1>4
    <3>3. QED  BY <1>2, <1>3, <1>4, <3>1, <3>2 DEF WithinBudget
  <2>4. CASE ~ new
    <3>0. window'[k].at = window[k].at /\ window'[k].admitted = window[k].admitted + 1 /\ k \in limiters
      BY <2>1, <2>2, <2>4 DEF Opened
    <3>1. Cost * window[k].admitted + tokens[k] <= Capacity + Rate * (last_refill[k] - window[k].at)
      BY <3>0 DEF BucketInv, WithinBudget
    <3>2. Rate * (clock - window[k].at)
            = Rate * (last_refill[k] - window[k].at) + (clock - last_refill[k]) * Rate
      BY <1>4, Telescope
    <3>3. Cost * (window[k].admitted + 1) = Cost * window[k].admitted + Cost
      BY <1>4, Z3
    <3>4. /\ Rate * (last_refill[k] - window[k].at) \in Int /\ (clock - last_refill[k]) * Rate \in Int
          /\ Cost * window[k].admitted \in Int
      BY <1>4, Telescope
    <3>5. Cost * (window[k].admitted + 1) + (Refilled(k) - Cost) <= Capacity + Rate * (clock - window[k].at)
      BY <1>3, <1>4, <3>0, <3>1, <3>2, <3>3, <3>4
    <3>6. QED  BY <1>2, <3>0, <3>5 DEF WithinBudget
  <2>5. QED  BY <2>1, <2>3, <2>4
<1>8. OnTheirWay(k)'
  BY DEF Route, TypeOK, OnTheirWay
<1>9. QED  BY <1>5, <1>6, <1>7, <1>8 DEF BucketInv

(* Refuse(k) keeps the bucket of k in order. *)
LEMMA RefuseBucket ==
  ASSUME TypeOK, NEW k \in ValidKey, Refuse(k), k \in limiters => BucketInv(k)
  PROVE  BucketInv(k)'
<1>1. Refill(k, 0) /\ CountFull(k, 0) /\ 0 \in Int
  BY GatewayAssumption DEF Refuse
<1>2. tokens'[k] = Refilled(k) - 0 /\ last_refill'[k] = clock
  BY <1>1, RefillTyped
<1>3. /\ Refilled(k) \in Int /\ Refilled(k) <= Capacity
      /\ Refilled(k) # Capacity =>
           k \in limiters /\ Refilled(k) = tokens[k] + (clock - last_refill[k]) * Rate
      /\ k \in limiters => Refilled(k) <= tokens[k] + (clock - last_refill[k]) * Rate
  BY RefilledIs
<1>4. /\ clock \in Int /\ last_refill[k] \in Int /\ tokens[k] \in Int /\ Capacity \in Int /\ Cost \in Nat
      /\ window[k].at \in Int /\ window[k].admitted \in Nat
      /\ sinceFull[k].at \in Int /\ sinceFull[k].admitted \in Nat /\ Rate \in Nat
  <2>1. clock \in Now /\ window[k] \in [at : Now, admitted : Nat] /\ sinceFull[k] \in [at : Now, admitted : Nat]
    BY DEF TypeOK
  <2>2. QED  BY <2>1, GatewayAssumption DEF TypeOK, Now
<1>5. tokens'[k] <= Capacity
  BY <1>2, <1>3, <1>4
<1>6. AllAccounted(k)'
  <2>1. /\ sinceFull'[k] = Opened(Refilled(k) = Capacity, sinceFull[k], 0)
        /\ clock \in Now /\ sinceFull[k] \in [at : Now, admitted : Nat]
    BY <1>1, CountFullTyped DEF TypeOK
  <2>2. CASE Refilled(k) = Capacity
    <3>1. sinceFull'[k].at = clock /\ sinceFull'[k].admitted = 0
      BY <2>1, <2>2 DEF Opened
    <3>2. Rate * (clock - clock) = 0 /\ Cost * 0 = 0
      BY <1>4
    <3>3. QED  BY <1>2, <1>4, <2>2, <3>1, <3>2 DEF AllAccounted
  <2>3. CASE Refilled(k) # Capacity
    <3>1. sinceFull'[k].at = sinceFull[k].at /\ sinceFull'[k].admitted = sinceFull[k].admitted + 0
      BY <2>1, <2>3 DEF Opened
    <3>2. Cost * sinceFull[k].admitted + tokens[k]
            = Capacity + Rate * (last_refill[k] - sinceFull[k].at)
      BY <1>3, <2>3 DEF BucketInv, AllAccounted
    <3>3. Rate * (clock - sinceFull[k].at)
            = Rate * (last_refill[k] - sinceFull[k].at) + (clock - last_refill[k]) * Rate
      BY <1>4, Z3
    <3>4. Cost * (sinceFull[k].admitted + 0) = Cost * sinceFull[k].admitted + 0
      BY <1>4, Z3
    <3>5. /\ Rate * (last_refill[k] - sinceFull[k].at) \in Int /\ (clock - last_refill[k]) * Rate \in Int
          /\ Cost * sinceFull[k].admitted \in Int
      BY <1>4, Telescope
    <3>6. Cost * (sinceFull[k].admitted + 0) + (Refilled(k) - 0)
            = Capacity + Rate * (clock - sinceFull[k].at)
      BY <1>3, <1>4, <2>3, <3>2, <3>3, <3>4, <3>5
    <3>7. QED  BY <1>2, <3>1, <3>6 DEF AllAccounted
  <2>4. QED  BY <2>2, <2>3
<1>7. WithinBudget(k)'
  <2>0. window' = window
    BY DEF Refuse
  <2>1. CASE k \in limiters
    <3>1. Cost * window[k].admitted + tokens[k] <= Capacity + Rate * (last_refill[k] - window[k].at)
      BY <2>1 DEF BucketInv, WithinBudget
    <3>2. Rate * (clock - window[k].at)
            = Rate * (last_refill[k] - window[k].at) + (clock - last_refill[k]) * Rate
      BY <1>4, Telescope
    <3>3. Cost * (window[k].admitted + 0) = Cost * window[k].admitted + 0
      BY <1>4, Z3
    <3>4. /\ Rate * (last_refill[k] - window[k].at) \in Int /\ (clock - last_refill[k]) * Rate \in Int
          /\ Cost * window[k].admitted \in Int
      BY <1>4, Telescope
    <3>5. Cost * (window[k].admitted + 0) + (Refilled(k) - 0) <= Capacity + Rate * (clock - window[k].at)
      BY <1>3, <1>4, <2>1, <3>1, <3>2, <3>3, <3>4
    <3>6. window[k].admitted + 0 = window[k].admitted
      BY <1>4
    <3>7. QED  BY <1>2, <2>0, <3>5, <3>6 DEF WithinBudget
  <2>2. CASE k \notin limiters
    BY <2>2, GatewayAssumption, <1>3 DEF Refuse, Affords
  <2>3. QED  BY <2>1, <2>2
<1>8. OnTheirWay(k)'
  <2> DEFINE told == Second * RetryAfter(k)
  <2>1. retryAt'[k] = clock + told
    BY DEF Refuse, TypeOK
  <2>2. told \in Nat /\ Rate * (told + Second) >= Cost - Refilled(k)
        /\ Rate * (told + Second) \in Int
    BY RetryAfterIs DEF Refuse
  <2> HIDE DEF told
  <2>3. ((clock + told) + Second) - clock = told + Second
    BY <1>4, <2>2, GatewayAssumption
  <2>4. QED  BY <1>2, <1>3, <1>4, <2>1, <2>2, <2>3 DEF OnTheirWay
<1>9. QED  BY <1>5, <1>6, <1>7, <1>8 DEF BucketInv

(* Route(k) leaves every other bucket as it is. *)
LEMMA RouteOthers ==
  ASSUME TypeOK, NEW k \in ValidKey, Route(k), NEW j \in ValidKey \ {k}, BucketInv(j)
  PROVE  BucketInv(j)'
<1>1. Refill(k, Cost) /\ CountFull(k, 1) /\ Cost \in Int
  BY GatewayAssumption DEF Route
<1>2. tokens'[j] = tokens[j] /\ last_refill'[j] = last_refill[j]
  BY <1>1, RefillTyped
<1>3. sinceFull'[j] = sinceFull[j]
  BY <1>1, CountFullTyped
<1>4. window'[j] = window[j] /\ retryAt'[j] = retryAt[j]
  BY DEF Route, TypeOK
<1>5. QED  BY <1>2, <1>3, <1>4 DEF BucketInv, WithinBudget, AllAccounted, OnTheirWay

(* Refuse(k) leaves every other bucket as it is. *)
LEMMA RefuseOthers ==
  ASSUME TypeOK, NEW k \in ValidKey, Refuse(k), NEW j \in ValidKey \ {k}, BucketInv(j)
  PROVE  BucketInv(j)'
<1>1. Refill(k, 0) /\ CountFull(k, 0) /\ 0 \in Int
  BY GatewayAssumption DEF Refuse
<1>2. tokens'[j] = tokens[j] /\ last_refill'[j] = last_refill[j]
  BY <1>1, RefillTyped
<1>3. sinceFull'[j] = sinceFull[j]
  BY <1>1, CountFullTyped
<1>4. window'[j] = window[j] /\ retryAt'[j] = retryAt[j]
  BY DEF Refuse, TypeOK
<1>5. QED  BY <1>2, <1>3, <1>4 DEF BucketInv, WithinBudget, AllAccounted, OnTheirWay

-----------------------------------------------------------------------------
(* What GatewayInv says besides the types. *)
BucketsInOrder ==
  /\ \A k \in limiters : BucketInv(k)
  /\ \A k \in ValidKey \ limiters : retryAt[k] = Never

(* Every step keeps all buckets in order. *)
LEMMA BucketsNext == TypeOK /\ BucketsInOrder /\ [Next]_vars => BucketsInOrder'
<1> SUFFICES ASSUME TypeOK, BucketsInOrder, [Next]_vars PROVE BucketsInOrder'
  OBVIOUS
<1>0. ASSUME UNCHANGED <<bucketVars, ghostVars>> PROVE BucketsInOrder'
  BY <1>0 DEF BucketsInOrder, BucketInv, WithinBudget, AllAccounted, OnTheirWay, bucketVars, ghostVars
<1>1. ASSUME NEW k \in Key, Route(k) PROVE BucketsInOrder'
  <2>1. k \in ValidKey
    BY <1>1 DEF Route
  <2>2. limiters' = limiters \cup {k}
    BY <1>1 DEF Route, Refill
  <2>3. ASSUME NEW j \in limiters' PROVE BucketInv(j)'
    <3>1. CASE j = k
      BY <1>1, <2>1, <3>1, RouteBucket DEF BucketsInOrder
    <3>2. CASE j # k
      <4>1. j \in ValidKey \ {k} /\ BucketInv(j)
        BY <2>2, <3>2 DEF BucketsInOrder, TypeOK
      <4>2. QED  BY <1>1, <2>1, <4>1, RouteOthers
    <3>3. QED  BY <3>1, <3>2
  <2>4. ASSUME NEW j \in ValidKey \ limiters' PROVE retryAt'[j] = Never
    BY <1>1, <2>2, <2>4 DEF Route, TypeOK, BucketsInOrder
  <2>5. QED  BY <2>3, <2>4 DEF BucketsInOrder
<1>2. ASSUME NEW k \in Key, Refuse(k) PROVE BucketsInOrder'
  <2>1. k \in ValidKey
    BY <1>2 DEF Refuse
  <2>2. limiters' = limiters \cup {k}
    BY <1>2 DEF Refuse, Refill
  <2>3. ASSUME NEW j \in limiters' PROVE BucketInv(j)'
    <3>1. CASE j = k
      BY <1>2, <2>1, <3>1, RefuseBucket DEF BucketsInOrder
    <3>2. CASE j # k
      <4>1. j \in ValidKey \ {k} /\ BucketInv(j)
        BY <2>2, <3>2 DEF BucketsInOrder, TypeOK
      <4>2. QED  BY <1>2, <2>1, <4>1, RefuseOthers
    <3>3. QED  BY <3>1, <3>2
  <2>4. ASSUME NEW j \in ValidKey \ limiters' PROVE retryAt'[j] = Never
    BY <1>2, <2>2, <2>4 DEF Refuse, TypeOK, BucketsInOrder
  <2>5. QED  BY <2>3, <2>4 DEF BucketsInOrder
<1>3. ASSUME NEW k \in Key, Unauthenticated(k) PROVE BucketsInOrder'
  BY <1>0, <1>3 DEF Unauthenticated
<1>4. CASE Health
  BY <1>0, <1>4 DEF Health
<1>5. CASE Clock
  BY <1>0, <1>5 DEF Clock
<1>6. CASE UNCHANGED vars
  BY <1>0, <1>6 DEF vars
<1>7. QED  BY <1>1, <1>2, <1>3, <1>4, <1>5, <1>6 DEF Next

(* The rate limiter's inductive invariant. *)
THEOREM GatewayInvariant == Spec => []GatewayInv
<1>1. Init => GatewayInv
  BY TypeInit DEF Init, GatewayInv
<1>2. GatewayInv /\ [Next]_vars => GatewayInv'
  BY TypeNext, BucketsNext DEF GatewayInv, BucketsInOrder
<1>3. QED  BY <1>1, <1>2, PTL DEF Spec

(* An admission is within the burst and the refill: after it the bucket is *)
(* in order and holds no debt.                                             *)
THEOREM RateIsBounded == Spec => RateBound
<1>1. GatewayInv /\ GatewayInv' /\ [Next]_vars =>
        [\A k \in ValidKey : Route(k) =>
           Cost * window'[k].admitted <= Capacity + Rate * (clock - window'[k].at)]_vars
  <2> SUFFICES ASSUME GatewayInv, GatewayInv', NEW k \in ValidKey, Route(k)
               PROVE  Cost * window'[k].admitted <= Capacity + Rate * (clock - window'[k].at)
    BY DEF vars
  <2>1. TypeOK /\ Refill(k, Cost) /\ Cost \in Int
    BY GatewayAssumption DEF GatewayInv, Route
  <2>2. tokens'[k] = Refilled(k) - Cost /\ last_refill'[k] = clock /\ k \in limiters'
    BY <2>1, RefillTyped
  <2>3. Refilled(k) >= Cost /\ Refilled(k) \in Int
    BY <2>1, RefilledIs DEF Route, Affords
  <2>4. Cost * window'[k].admitted + tokens'[k] <= Capacity + Rate * (last_refill'[k] - window'[k].at)
    BY <2>2 DEF GatewayInv, BucketInv, WithinBudget
  <2>5. /\ Cost * window'[k].admitted \in Int /\ Capacity \in Int
        /\ Rate * (clock - window'[k].at) \in Int
    <3>1. window'[k].admitted \in Int /\ window'[k].at \in Int /\ clock \in Int
      <4>1. window'[k] \in [at : Now, admitted : Nat] /\ clock \in Now
        BY DEF GatewayInv, TypeOK
      <4>2. QED  BY <4>1, GatewayAssumption DEF Now
    <3>2. QED  BY <3>1, GatewayAssumption
  <2>6. QED  BY <2>1, <2>2, <2>3, <2>4, <2>5
<1>2. QED  BY <1>1, GatewayInvariant, PTL DEF Spec, RateBound

(* A refusal means that the budget since the bucket was full is spent. *)
THEOREM RefusalsAreDue == Spec => RefusedOverBudget
<1>1. GatewayInv /\ GatewayInv' /\ [Next]_vars =>
        [\A k \in ValidKey : Refuse(k) =>
           Cost * (sinceFull'[k].admitted + 1) > Capacity + Rate * (clock - sinceFull'[k].at)]_vars
  <2> SUFFICES ASSUME GatewayInv, GatewayInv', NEW k \in ValidKey, Refuse(k)
               PROVE  Cost * (sinceFull'[k].admitted + 1) > Capacity + Rate * (clock - sinceFull'[k].at)
    BY DEF vars
  <2>1. TypeOK /\ Refill(k, 0)
    BY DEF GatewayInv, Refuse
  <2>2. tokens'[k] = Refilled(k) - 0 /\ last_refill'[k] = clock /\ k \in limiters'
    BY <2>1, RefillTyped
  <2>3. Refilled(k) < Cost /\ Refilled(k) \in Int /\ Cost \in Int
    BY <2>1, RefilledIs, GatewayAssumption DEF Refuse, Affords
  <2>4. Cost * sinceFull'[k].admitted + tokens'[k] = Capacity + Rate * (last_refill'[k] - sinceFull'[k].at)
    BY <2>2 DEF GatewayInv, BucketInv, AllAccounted
  <2>5. /\ Cost * (sinceFull'[k].admitted + 1) = Cost * sinceFull'[k].admitted + Cost
        /\ Cost * sinceFull'[k].admitted \in Int /\ Capacity \in Int
        /\ Rate * (clock - sinceFull'[k].at) \in Int
    <3>1. sinceFull'[k].admitted \in Int /\ sinceFull'[k].at \in Int /\ clock \in Int
      <4>1. sinceFull'[k] \in [at : Now, admitted : Nat] /\ clock \in Now
        BY DEF GatewayInv, TypeOK
      <4>2. QED  BY <4>1, GatewayAssumption DEF Now
    <3>2. Rate \in Int /\ Cost \in Int /\ Capacity \in Int
      BY GatewayAssumption
    <3>3. Cost * (sinceFull'[k].admitted + 1) = Cost * sinceFull'[k].admitted + Cost
      BY <3>1, <3>2, Z3
    <3>4. QED  BY <3>1, <3>2, <3>3
  <2>6. QED  BY <2>2, <2>3, <2>4, <2>5
<1>2. QED  BY <1>1, GatewayInvariant, PTL DEF Spec, RefusedOverBudget

(* A second after the time Retry-After named, the tokens are there.        *)
THEOREM RetriesSucceed == Spec => RetryAfterHolds
<1>1. GatewayInv /\ [Next]_vars =>
        [\A k \in ValidKey : Refuse(k) =>
           retryAt[k] = Never \/ clock < retryAt[k] + Second]_vars
  <2> SUFFICES ASSUME GatewayInv, NEW k \in ValidKey, Refuse(k), retryAt[k] # Never,
                      clock >= retryAt[k] + Second
               PROVE  FALSE
    <3>1. GatewayInv => \A k \in ValidKey :
            retryAt[k] = Never \/ clock < retryAt[k] + Second \/ clock >= retryAt[k] + Second
      BY GatewayAssumption DEF GatewayInv, TypeOK, Now
    <3>2. QED  BY <3>1 DEF vars
  <2> DEFINE due == retryAt[k] + Second
  <2>1. TypeOK /\ k \in limiters
    BY DEF GatewayInv
  <2>2. tokens[k] + Rate * (due - last_refill[k]) >= Cost
    BY <2>1 DEF GatewayInv, BucketInv, OnTheirWay
  <2>3. Refilled(k) < Cost /\ Refilled(k) \in Int /\ Cost \in Int /\ Cost <= Capacity /\ Capacity \in Int
    BY <2>1, RefilledIs, GatewayAssumption DEF Refuse, Affords
  <2>4. Refilled(k) = tokens[k] + (clock - last_refill[k]) * Rate
    BY <2>1, <2>3, RefilledIs
  <2>5. due \in Int /\ clock \in Int /\ last_refill[k] \in Int /\ tokens[k] \in Int
        /\ Rate \in Nat /\ clock >= due
    BY GatewayAssumption DEF GatewayInv, TypeOK, Now
  <2> HIDE DEF due
  <2>6. (clock - last_refill[k]) * Rate = Rate * (due - last_refill[k]) + Rate * (clock - due)
    BY <2>5, Z3
  <2>7. Rate * (clock - due) >= 0
    BY <2>5, Z3
  <2>8. Rate * (due - last_refill[k]) \in Int /\ Rate * (clock - due) \in Int
    BY <2>5
  <2>9. QED  BY <2>2, <2>3, <2>4, <2>5, <2>6, <2>7, <2>8
<1>2. QED  BY <1>1, GatewayInvariant, PTL DEF Spec, RetryAfterHolds
=============================================================================
