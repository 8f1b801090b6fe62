----------------------------- MODULE PaypalToken -----------------------------
(***************************************************************************)
(* PayPalService.get_access_token of one worker (api/services/             *)
(* paypal_service.py): the OAuth token that every call to PayPal presents  *)
(* is kept until Margin before its end, and the end is told from           *)
(* datetime.now(), the wall clock in local time.                           *)
(*                                                                         *)
(* Calls are coroutines that give way to each other while they wait for    *)
(* PayPal, so several may ask for a token at once, and their answers come  *)
(* in any order.  A second is a tick.  How long an answer and a request    *)
(* are under way is bounded by httpx's time-outs.                          *)
(***************************************************************************)
EXTENDS Integers

CONSTANTS
  Call,      \* coroutines that call PayPal
  NoToken,
  Life,      \* expires_in of the tokens PayPal grants
  Margin,    \* the 60 seconds taken off expires_in
  Delay,     \* from PayPal's grant until its answer is read, at most
  Use,       \* from the look at the clock until PayPal sees the token, at most
  Skew,      \* by how much the wall clock may differ from the time
  MaxTime    \* bound of the time

Token == [end : Int, granted : Int]

ASSUME TokenAssumption ==
  /\ NoToken \notin Token
  /\ Life \subseteq Nat /\ Skew \subseteq Int
  /\ Margin \in Nat /\ Delay \in Nat /\ Use \in Nat /\ MaxTime \in Nat
  /\ Delay + Use <= Margin

VARIABLES
  now, skew,      \* the time, and the wall clock's difference from it
  access_token,   \* _access_token: for PayPal it ends at its end
  token_expiry,   \* _token_expiry, a wall clock time
  stamped,        \* ghost: skew when token_expiry was set
  call            \* each call: where it is, since when, with which token,
                  \* and by how much the clock had been set back when it looked

clock == <<now, skew>>
cache == <<access_token, token_expiry, stamped>>
vars == <<clock, cache, call>>

Idle == [at |-> "idle", since |-> 0, token |-> NoToken, slip |-> 0]

Init ==
  /\ now = 0 /\ skew \in Skew
  /\ access_token = NoToken /\ token_expiry = 0 /\ stamped = skew
  /\ call = [c \in Call |-> Idle]

-----------------------------------------------------------------------------
Usable_MarginAgain == access_token # NoToken /\ now + skew < token_expiry - Margin
Usable == access_token # NoToken /\ now + skew < token_expiry

Expiry_NoMargin(granted) == now + skew + granted
Expiry(granted) == now + skew + granted - Margin

Moves(c, at, token, slip) ==
  call' = [call EXCEPT ![c] = [at |-> at, since |-> now, token |-> token, slip |-> slip]]

(* The token at hand, as long as the clock says it is good. *)
Reuse(c) ==
  /\ call[c].at = "idle"
  /\ Usable
  /\ Moves(c, "using", access_token, stamped - skew)
  /\ UNCHANGED <<clock, cache>>

Ask(c) ==
  /\ call[c].at = "idle"
  /\ ~Usable
  /\ Moves(c, "asking", NoToken, 0)
  /\ UNCHANGED <<clock, cache>>

(* PayPal grants a token. *)
Grant(c) ==
  /\ call[c].at = "asking"
  /\ \E granted \in Life :
       Moves(c, "granted", [end |-> now + granted, granted |-> granted], 0)
  /\ UNCHANGED <<clock, cache>>

(* The answer is stored, over whatever another call has stored meanwhile. *)
Answer(c) ==
  /\ call[c].at = "granted"
  /\ access_token' = call[c].token
  /\ token_expiry' = Expiry(call[c].token.granted)
  /\ stamped' = skew
  /\ Moves(c, "using", call[c].token, 0)
  /\ UNCHANGED clock

(* No token, or no answer in time: the call raises. *)
AskFails(c) ==
  /\ call[c].at \in {"asking", "granted"}
  /\ call' = [call EXCEPT ![c] = Idle]
  /\ UNCHANGED <<clock, cache>>

(* PayPal sees the token.  If it refuses it, or anything else, the call    *)
(* raises (verify_webhook_signature says no); the token is kept.           *)
Present(c) ==
  /\ call[c].at = "using"
  /\ call' = [call EXCEPT ![c] = Idle]
  /\ UNCHANGED <<clock, cache>>

-----------------------------------------------------------------------------
Due(c) ==
  \/ call[c].at = "granted" /\ now >= call[c].since + Delay
  \/ call[c].at = "using" /\ now >= call[c].since + Use

Tick ==
  /\ now < MaxTime
  /\ \A c \in Call : ~Due(c)
  /\ now' = now + 1
  /\ UNCHANGED <<skew, cache, call>>

(* The clock is set, or summer time begins or ends. *)
SetClock ==
  /\ skew' \in Skew
  /\ UNCHANGED <<now, cache, call>>

Restart ==
  /\ access_token' = NoToken /\ token_expiry' = 0 /\ stamped' = skew
  /\ call' = [c \in Call |-> Idle]
  /\ UNCHANGED clock

Next ==
  \/ \E c \in Call : \/ Reuse(c) \/ Ask(c) \/ Grant(c) \/ Answer(c)
                     \/ AskFails(c) \/ Present(c)
  \/ Tick \/ SetClock \/ Restart

Spec == Init /\ [][Next]_vars

-----------------------------------------------------------------------------
State == [at : {"idle", "asking", "granted", "using"}, since : Int,
          token : Token \cup {NoToken}, slip : Int]

TypeOK ==
  /\ now \in Int /\ skew \in Skew
  /\ access_token \in Token \cup {NoToken} /\ token_expiry \in Int /\ stamped \in Int
  /\ call \in [Call -> State]

(* token_expiry is the end of the token it was stored with, as the clock   *)
(* told it then: Margin early, and late by no more than the answer was.    *)
ExpiryOfToken ==
  access_token # NoToken =>
    /\ access_token.end + stamped <= token_expiry + Margin
    /\ token_expiry + Margin <= access_token.end + stamped + Delay

(* Answers and requests are in time, and a token in use was fetched just   *)
(* now or looked good for as long as the clock was right.                  *)
InTime(c) ==
  /\ call[c].at = "granted" =>
       /\ call[c].token \in Token
       /\ call[c].token.end = call[c].since + call[c].token.granted
       /\ now <= call[c].since + Delay /\ call[c].since <= now
  /\ call[c].at = "using" =>
       /\ call[c].token \in Token
       /\ now <= call[c].since + Use
       /\ \/ call[c].since + Margin < call[c].token.end + call[c].slip + Delay
          \/ call[c].since + call[c].token.granted <= call[c].token.end + Delay

(* The inductive invariant. *)
TokenInv == TypeOK /\ ExpiryOfToken /\ \A c \in Call : InTime(c)

(* PayPal sees a token after its end only if the clock has been set back,  *)
(* by more than the token is late, between its storing and the look at it; *)
(* or if PayPal granted it for less than the way there and back.  Neither  *)
(* concurrent refreshes nor answers out of order cause it.                 *)
TokenFresh ==
  \A c \in Call :
    call[c].at = "using" /\ now >= call[c].token.end =>
      \/ now - call[c].token.end < call[c].slip
      \/ call[c].token.granted <= Delay + Use

(* A token is asked for only if there is none or if the one at hand ends   *)
(* within Margin, but for what the clock has been set forward since.       *)
RefreshDue ==
  [][\A c \in Call :
       call[c].at = "idle" /\ call'[c].at = "asking" /\ access_token # NoToken =>
         access_token.end <= now + Margin + (skew - stamped)]_vars
=============================================================================
