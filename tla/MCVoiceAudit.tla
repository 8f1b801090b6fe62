---------------------------- MODULE MCVoiceAudit ----------------------------
(* Streams named for what they are: a call, another that differs from it   *)
(* by a NaN before its tail and so has its key, and one of the same tail   *)
(* on another channel.                                                     *)
EXTENDS VoiceAudit

MCStream == {"call", "other", "nan"}
MCChannel == [s \in MCStream |-> IF s = "other" THEN "sip2" ELSE "sip1"]
MCTail == [s \in MCStream |-> 1]
MCVariance == [s \in MCStream |->
                 CASE s = "call" -> "low" [] s = "other" -> "middle" [] s = "nan" -> "high"]
MCFlagged == {"other"}
MCFinite == MCStream \ {"nan"}
MCBundle == {<<"call", "other">>, <<"call", "call", "other">>, <<"other", "nan">>}
=============================================================================
