-------------------------- MODULE ConfirmationTokens --------------------------
(***************************************************************************)
(* The registry of confirmation tokens (ConfirmationTokenRegistry in        *)
(* daemon/src/confirmation-tokens.ts).  A token is bound to a scope, what   *)
(* was confirmed, and dies when it is presented, when its page closes, when *)
(* a browser is stopped, or by a timer, which may be late.  The registry's  *)
(* cap of a thousand tokens is out of sight.                                *)
(***************************************************************************)
EXTENDS Clock

CONSTANTS
  Tokens,       \* the tokens that are ever issued
  TokenLife     \* how long one lives

ASSUME TokenLifeAssumption == TokenLife \in Nat \ {0}

VARIABLES
  scope,        \* what each token on record is bound to
  until,        \* when it expires, 0 before it is issued
  entries       \* the tokens on record

tokenVars == <<scope, until, entries>>

Unbound == [name |-> "none"]

TokensInit ==
  /\ scope = [t \in Tokens |-> Unbound]
  /\ until = [t \in Tokens |-> 0]
  /\ entries = {}

Issued == {t \in Tokens : until[t] > 0}

-----------------------------------------------------------------------------
(* Tokens leave the record, and what they are bound to with them.           *)
Remove(tokens) ==
  /\ entries' = entries \ tokens
  /\ scope' = [t \in Tokens |-> IF t \in tokens THEN Unbound ELSE scope[t]]
  /\ UNCHANGED until

(* issue: the expired tokens are pruned first.                              *)
Issue(t, bound) ==
  /\ until[t] = 0
  /\ scope' = [e \in Tokens |-> IF e = t THEN bound
                                ELSE IF until[e] > now THEN scope[e] ELSE Unbound]
  /\ until' = [until EXCEPT ![t] = now + TokenLife]
  /\ entries' = {e \in entries : until[e] > now} \cup {t}

(* consume: does token `t' stand for `presented'?  Whatever the answer, it  *)
(* is burned.                                                               *)
Stands(t, presented) ==
  /\ t \in entries
  /\ now < until[t]
  /\ scope[t] = presented

(* Slip: a token is burned only when it is accepted.                        *)
BurnAccepted(t, accepted) == Remove(IF accepted THEN {t} ELSE {})

Burn(t, accepted) == Remove({t})

(* The timer of a token fires.                                              *)
TimerFires(t) ==
  /\ t \in entries
  /\ until[t] <= now
  /\ Remove({t})

(* reset, and what clearPage does to the tokens of the only page there is.  *)
Forget == entries # {} /\ Remove(entries)
=============================================================================
