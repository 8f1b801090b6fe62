-------------------------- MODULE PaypalTokenProofs --------------------------
(* What a worker's token cache keeps true for any calls, tokens, delays    *)
(* and clocks, as long as the margin covers the way to PayPal and back.    *)
EXTENDS PaypalToken, TLAPS

USE TokenAssumption

LEMMA Assumptions ==
  /\ Margin \in Int /\ Delay \in Int /\ Use \in Int
  /\ Delay >= 0 /\ Use >= 0 /\ Delay + Use <= Margin
OBVIOUS

LEMMA IdleIsState == Idle \in State /\ Idle.at = "idle"
BY DEF Idle, State

(* What a call's step makes of the calls. *)
LEMMA Moved ==
  ASSUME TypeOK, NEW c \in Call, NEW at \in {"asking", "granted", "using"},
         NEW token \in Token \cup {NoToken}, NEW slip \in Int, Moves(c, at, token, slip)
  PROVE  /\ call' \in [Call -> State]
         /\ call'[c].at = at /\ call'[c].token = token
         /\ call'[c].since = now /\ call'[c].slip = slip
         /\ \A d \in Call : d # c => call'[d] = call[d]
<1>. DEFINE entry == [at |-> at, since |-> now, token |-> token, slip |-> slip]
<1>1. entry \in State
  BY DEF State, TypeOK
<1>2. entry.at = at /\ entry.token = token /\ entry.since = now /\ entry.slip = slip
  OBVIOUS
<1>3. call' = [call EXCEPT ![c] = entry] /\ call \in [Call -> State]
  BY DEF Moves, TypeOK
<1>. HIDE DEF entry
<1>4. call' \in [Call -> State] /\ call'[c] = entry /\ \A d \in Call : d # c => call'[d] = call[d]
  BY <1>1, <1>3
<1>5. QED
  BY <1>2, <1>4

(* A call that ends is idle again. *)
LEMMA Ended ==
  ASSUME TypeOK, NEW c \in Call, call' = [call EXCEPT ![c] = Idle]
  PROVE  /\ call' \in [Call -> State]
         /\ call'[c].at = "idle"
         /\ \A d \in Call : d # c => call'[d] = call[d]
<1>1. call \in [Call -> State]
  BY DEF TypeOK
<1>2. call' \in [Call -> State] /\ call'[c] = Idle /\ \A d \in Call : d # c => call'[d] = call[d]
  BY <1>1, IdleIsState
<1>3. QED
  BY <1>2, IdleIsState

LEMMA Stays ==
  ASSUME NEW c \in Call, InTime(c), now' = now, call'[c] = call[c]
  PROVE  InTime(c)'
BY DEF InTime

LEMMA IdleInTime ==
  ASSUME NEW c \in Call, call'[c].at \in {"idle", "asking"}
  PROVE  InTime(c)'
BY DEF InTime

LEMMA InitInv == Init => TokenInv
<1>. SUFFICES ASSUME Init PROVE TokenInv
  OBVIOUS
<1>1. TypeOK
  <2>1. call \in [Call -> State]
    BY IdleIsState DEF Init
  <2>2. QED
    BY <2>1 DEF Init, TypeOK
<1>2. ExpiryOfToken
  BY DEF Init, ExpiryOfToken
<1>3. ASSUME NEW c \in Call PROVE InTime(c)
  BY IdleIsState DEF Init, InTime
<1>4. QED
  BY <1>1, <1>2, <1>3 DEF TokenInv

(* A token that looks good now was stored with an expiry after now. *)
LEMMA ReusePreserves == ASSUME TokenInv, NEW c \in Call, Reuse(c) PROVE TokenInv'
<1>0. TypeOK /\ ExpiryOfToken /\ \A d \in Call : InTime(d)
  BY DEF TokenInv
<1>1. /\ Moves(c, "using", access_token, stamped - skew)
      /\ UNCHANGED <<now, skew, access_token, token_expiry, stamped>>
      /\ access_token # NoToken /\ now + skew < token_expiry
  BY DEF Reuse, Usable, clock, cache
<1>2. /\ now \in Int /\ skew \in Int /\ stamped \in Int /\ token_expiry \in Int
      /\ access_token \in Token /\ access_token.end \in Int
  BY <1>0, <1>1 DEF TypeOK, Token
<1>3. /\ call' \in [Call -> State]
      /\ call'[c].at = "using" /\ call'[c].token = access_token
      /\ call'[c].since = now /\ call'[c].slip = stamped - skew
      /\ \A d \in Call : d # c => call'[d] = call[d]
  <2>1. stamped - skew \in Int
    BY <1>2
  <2>2. QED
    BY <1>0, <1>1, <1>2, <2>1, Moved
<1>4. token_expiry + Margin <= access_token.end + stamped + Delay
  BY <1>0, <1>1 DEF ExpiryOfToken
<1>5. now + Margin < access_token.end + (stamped - skew) + Delay /\ now <= now + Use
  BY <1>1, <1>2, <1>4
<1>6. InTime(c)'
  BY <1>1, <1>2, <1>3, <1>5 DEF InTime
<1>7. ASSUME NEW d \in Call PROVE InTime(d)'
  BY <1>0, <1>1, <1>3, <1>6, Stays
<1>8. TypeOK' /\ ExpiryOfToken'
  BY <1>0, <1>1, <1>3 DEF TypeOK, ExpiryOfToken
<1>9. QED
  BY <1>7, <1>8 DEF TokenInv

LEMMA AskPreserves == ASSUME TokenInv, NEW c \in Call, Ask(c) PROVE TokenInv'
<1>0. TypeOK /\ ExpiryOfToken /\ \A d \in Call : InTime(d)
  BY DEF TokenInv
<1>1. /\ Moves(c, "asking", NoToken, 0)
      /\ UNCHANGED <<now, skew, access_token, token_expiry, stamped>>
  BY DEF Ask, clock, cache
<1>2. /\ call' \in [Call -> State] /\ call'[c].at = "asking"
      /\ \A d \in Call : d # c => call'[d] = call[d]
  BY <1>0, <1>1, Moved
<1>3. ASSUME NEW d \in Call PROVE InTime(d)'
  BY <1>0, <1>1, <1>2, Stays, IdleInTime
<1>4. TypeOK' /\ ExpiryOfToken'
  BY <1>0, <1>1, <1>2 DEF TypeOK, ExpiryOfToken
<1>5. QED
  BY <1>3, <1>4 DEF TokenInv

LEMMA GrantPreserves == ASSUME TokenInv, NEW c \in Call, Grant(c) PROVE TokenInv'
<1>0. TypeOK /\ ExpiryOfToken /\ \A d \in Call : InTime(d)
  BY DEF TokenInv
<1>1. UNCHANGED <<now, skew, access_token, token_expiry, stamped>>
  BY DEF Grant, clock, cache
<1>2. PICK granted \in Life :
        Moves(c, "granted", [end |-> now + granted, granted |-> granted], 0)
  BY DEF Grant
<1>. DEFINE token == [end |-> now + granted, granted |-> granted]
<1>3. now \in Int /\ granted \in Int
  BY <1>0 DEF TypeOK
<1>4. token \in Token /\ token.end = now + token.granted
  BY <1>3 DEF Token
<1>5. Moves(c, "granted", token, 0)
  BY <1>2
<1>. HIDE DEF token
<1>6. /\ call' \in [Call -> State]
      /\ call'[c].at = "granted" /\ call'[c].token = token /\ call'[c].since = now
      /\ \A d \in Call : d # c => call'[d] = call[d]
  BY <1>0, <1>4, <1>5, Moved
<1>7. now <= now + Delay /\ now <= now
  BY <1>3
<1>8. InTime(c)'
  BY <1>1, <1>4, <1>6, <1>7 DEF InTime
<1>9. ASSUME NEW d \in Call PROVE InTime(d)'
  BY <1>0, <1>1, <1>6, <1>8, Stays
<1>10. TypeOK' /\ ExpiryOfToken'
  BY <1>0, <1>1, <1>6 DEF TypeOK, ExpiryOfToken
<1>11. QED
  BY <1>9, <1>10 DEF TokenInv

(* Whatever else was stored meanwhile, the expiry is that of this token. *)
LEMMA AnswerPreserves == ASSUME TokenInv, NEW c \in Call, Answer(c) PROVE TokenInv'
<1>0. TypeOK /\ ExpiryOfToken /\ \A d \in Call : InTime(d)
  BY DEF TokenInv
<1>. DEFINE token == call[c].token
            since == call[c].since
<1>1. /\ Moves(c, "using", token, 0)
      /\ now' = now /\ skew' = skew /\ access_token' = token /\ stamped' = skew
      /\ token_expiry' = now + skew + token.granted - Margin
  BY DEF Answer, Expiry, clock
<1>2. /\ token \in Token /\ token.end = since + token.granted
      /\ now <= since + Delay /\ since <= now
  BY <1>0 DEF Answer, InTime
<1>3. /\ now \in Int /\ skew \in Int /\ skew \in Skew /\ since \in Int
      /\ token.granted \in Int /\ token.end \in Int
  <2>1. call[c] \in State
    BY <1>0 DEF TypeOK
  <2>2. QED
    BY <1>0, <1>2, <2>1 DEF TypeOK, State, Token
<1>. HIDE DEF token, since
<1>4. /\ call' \in [Call -> State]
      /\ call'[c].at = "using" /\ call'[c].token = token /\ call'[c].since = now
      /\ \A d \in Call : d # c => call'[d] = call[d]
  BY <1>0, <1>1, <1>2, Moved
<1>5. /\ now <= now + Use
      /\ now + token.granted <= token.end + Delay
      /\ token.end + skew <= now + skew + token.granted - Margin + Margin
      /\ now + skew + token.granted - Margin + Margin <= token.end + skew + Delay
      /\ now + skew + token.granted - Margin \in Int
  BY <1>2, <1>3
<1>6. InTime(c)'
  BY <1>1, <1>2, <1>4, <1>5 DEF InTime
<1>7. ASSUME NEW d \in Call PROVE InTime(d)'
  BY <1>0, <1>1, <1>4, <1>6, Stays
<1>8. TypeOK'
  BY <1>1, <1>2, <1>3, <1>4, <1>5 DEF TypeOK
<1>9. ExpiryOfToken'
  BY <1>1, <1>5 DEF ExpiryOfToken
<1>10. QED
  BY <1>7, <1>8, <1>9 DEF TokenInv

LEMMA EndPreserves ==
  ASSUME TokenInv, NEW c \in Call, AskFails(c) \/ Present(c) PROVE TokenInv'
<1>0. TypeOK /\ ExpiryOfToken /\ \A d \in Call : InTime(d)
  BY DEF TokenInv
<1>1. /\ call' = [call EXCEPT ![c] = Idle]
      /\ UNCHANGED <<now, skew, access_token, token_expiry, stamped>>
  BY DEF AskFails, Present, clock, cache
<1>2. /\ call' \in [Call -> State] /\ call'[c].at = "idle"
      /\ \A d \in Call : d # c => call'[d] = call[d]
  BY <1>0, <1>1, Ended
<1>3. ASSUME NEW d \in Call PROVE InTime(d)'
  BY <1>0, <1>1, <1>2, Stays, IdleInTime
<1>4. TypeOK' /\ ExpiryOfToken'
  BY <1>0, <1>1, <1>2 DEF TypeOK, ExpiryOfToken
<1>5. QED
  BY <1>3, <1>4 DEF TokenInv

(* Time goes on only while nothing is due. *)
LEMMA TickPreserves == ASSUME TokenInv, Tick PROVE TokenInv'
<1>0. TypeOK /\ ExpiryOfToken /\ \A c \in Call : InTime(c)
  BY DEF TokenInv
<1>1. /\ now' = now + 1 /\ call' = call
      /\ UNCHANGED <<skew, access_token, token_expiry, stamped>>
      /\ \A c \in Call : ~Due(c)
  BY DEF Tick, cache
<1>2. now \in Int
  BY <1>0 DEF TypeOK
<1>3. TypeOK' /\ ExpiryOfToken'
  BY <1>0, <1>1, <1>2 DEF TypeOK, ExpiryOfToken
<1>4. ASSUME NEW c \in Call PROVE InTime(c)'
  <2>1. InTime(c) /\ ~Due(c)
    BY <1>0, <1>1
  <2>2. call[c].since \in Int
    BY <1>0 DEF TypeOK, State
  <2>3. CASE call[c].at = "granted"
    <3>1. now + 1 <= call[c].since + Delay /\ call[c].since <= now + 1
      BY <1>2, <2>1, <2>2, <2>3 DEF InTime, Due
    <3>2. QED
      BY <1>1, <2>1, <2>3, <3>1 DEF InTime
  <2>4. CASE call[c].at = "using"
    <3>1. now + 1 <= call[c].since + Use
      BY <1>2, <2>1, <2>2, <2>4 DEF Due
    <3>2. QED
      BY <1>1, <2>1, <2>4, <3>1 DEF InTime
  <2>5. CASE call[c].at \notin {"granted", "using"}
    BY <1>1, <2>5 DEF InTime
  <2>6. QED
    BY <2>3, <2>4, <2>5
<1>5. QED
  BY <1>3, <1>4 DEF TokenInv

LEMMA OutsidePreserves ==
  ASSUME TokenInv, SetClock \/ Restart \/ UNCHANGED vars PROVE TokenInv'
<1>0. TypeOK /\ ExpiryOfToken /\ \A c \in Call : InTime(c)
  BY DEF TokenInv
<1>1. CASE SetClock \/ UNCHANGED vars
  <2>1. /\ skew' \in Skew
        /\ UNCHANGED <<now, access_token, token_expiry, stamped, call>>
    BY <1>0, <1>1 DEF SetClock, vars, clock, cache, TypeOK
  <2>2. QED
    BY <1>0, <2>1 DEF TokenInv, TypeOK, ExpiryOfToken, InTime
<1>2. CASE Restart
  <2>1. /\ access_token' = NoToken /\ token_expiry' = 0 /\ stamped' = skew
        /\ now' = now /\ skew' = skew /\ call' = [c \in Call |-> Idle]
    BY <1>2 DEF Restart, clock
  <2>2. call' \in [Call -> State] /\ \A c \in Call : call'[c].at = "idle"
    BY <2>1, IdleIsState
  <2>3. \A c \in Call : InTime(c)'
    BY <2>2, IdleInTime
  <2>4. TypeOK' /\ ExpiryOfToken'
    BY <1>0, <2>1, <2>2 DEF TypeOK, ExpiryOfToken
  <2>5. QED
    BY <2>3, <2>4 DEF TokenInv
<1>3. QED
  BY <1>1, <1>2

-----------------------------------------------------------------------------
(* The expiry kept with a token is that token's, whoever stored it last,   *)
(* and no answer or request is under way for longer than it may be.        *)
THEOREM TokenInvariant == Spec => []TokenInv
<1>1. TokenInv /\ [Next]_vars => TokenInv'
  BY ReusePreserves, AskPreserves, GrantPreserves, AnswerPreserves, EndPreserves,
     TickPreserves, OutsidePreserves DEF Next
<1>2. QED
  BY InitInv, <1>1, PTL DEF Spec

(* A token is late at PayPal only by what the clock was set back.          *)
THEOREM TokensAreFresh == Spec => []TokenFresh
<1>1. TokenInv => TokenFresh
  <2>. SUFFICES ASSUME TokenInv, NEW c \in Call,
                       call[c].at = "using", now >= call[c].token.end
       PROVE  \/ now - call[c].token.end < call[c].slip
              \/ call[c].token.granted <= Delay + Use
    BY DEF TokenFresh
  <2>1. /\ call[c].token \in Token
        /\ now <= call[c].since + Use
        /\ \/ call[c].since + Margin < call[c].token.end + call[c].slip + Delay
           \/ call[c].since + call[c].token.granted <= call[c].token.end + Delay
    BY DEF TokenInv, InTime
  <2>2. /\ now \in Int /\ call[c].since \in Int /\ call[c].slip \in Int
        /\ call[c].token.end \in Int /\ call[c].token.granted \in Int
    BY <2>1 DEF TokenInv, TypeOK, State, Token
  <2>3. QED
    BY <2>1, <2>2
<1>2. QED
  BY TokenInvariant, <1>1, PTL

(* No token is given up earlier than the margin before its end, but for    *)
(* what the clock was set forward.                                         *)
THEOREM RefreshesAreDue == Spec => RefreshDue
<1>. DEFINE Asks == \A c \in Call :
       call[c].at = "idle" /\ call'[c].at = "asking" /\ access_token # NoToken =>
         access_token.end <= now + Margin + (skew - stamped)
<1>1. TokenInv /\ [Next]_vars => [Asks]_vars
  <2>. SUFFICES ASSUME TokenInv, Next, NEW c \in Call,
                       call[c].at = "idle", call'[c].at = "asking", access_token # NoToken
       PROVE  access_token.end <= now + Margin + (skew - stamped)
    OBVIOUS
  <2>0. TypeOK /\ ExpiryOfToken
    BY DEF TokenInv
  <2>1. ~Usable
    <3>1. ASSUME NEW d \in Call, Ask(d) PROVE ~Usable
      BY <3>1 DEF Ask
    <3>2. ASSUME NEW d \in Call, Reuse(d) PROVE FALSE
      <4>1. access_token \in Token /\ stamped - skew \in Int
        BY <2>0 DEF TypeOK
      <4>2. /\ call'[d].at = "using" /\ \A x \in Call : x # d => call'[x] = call[x]
        BY <2>0, <3>2, <4>1, Moved DEF Reuse
      <4>3. QED
        BY <4>2
    <3>3. ASSUME NEW d \in Call, Grant(d) PROVE FALSE
      <4>1. PICK g \in Life : Moves(d, "granted", [end |-> now + g, granted |-> g], 0)
        BY <3>3 DEF Grant
      <4>2. [end |-> now + g, granted |-> g] \in Token
        BY <2>0 DEF TypeOK, Token
      <4>3. /\ call'[d].at = "granted" /\ \A x \in Call : x # d => call'[x] = call[x]
        BY <2>0, <4>1, <4>2, Moved
      <4>4. QED
        BY <4>3
    <3>4. ASSUME NEW d \in Call, Answer(d) PROVE FALSE
      <4>1. call[d].token \in Token
        BY <3>4 DEF Answer, TokenInv, InTime
      <4>2. /\ call'[d].at = "using" /\ \A x \in Call : x # d => call'[x] = call[x]
        BY <2>0, <3>4, <4>1, Moved DEF Answer
      <4>3. QED
        BY <4>2
    <3>5. ASSUME NEW d \in Call, AskFails(d) \/ Present(d) PROVE FALSE
      <4>1. /\ call'[d].at = "idle" /\ \A x \in Call : x # d => call'[x] = call[x]
        BY <2>0, <3>5, Ended DEF AskFails, Present
      <4>2. QED
        BY <4>1
    <3>6. CASE Tick \/ SetClock
      BY <3>6 DEF Tick, SetClock
    <3>7. CASE Restart
      BY <3>7, IdleIsState DEF Restart
    <3>8. QED
      BY <3>1, <3>2, <3>3, <3>4, <3>5, <3>6, <3>7 DEF Next
  <2>2. token_expiry <= now + skew /\ access_token.end + stamped <= token_expiry + Margin
    BY <2>0, <2>1 DEF Usable, ExpiryOfToken, TypeOK
  <2>3. /\ now \in Int /\ skew \in Int /\ stamped \in Int /\ token_expiry \in Int
        /\ access_token.end \in Int
    BY <2>0 DEF TypeOK, Token
  <2>4. QED
    BY <2>2, <2>3
<1>2. QED
  BY TokenInvariant, <1>1, PTL DEF Spec, RefreshDue
=============================================================================
