---------------------------- MODULE OnceDelivery ----------------------------
(***************************************************************************)
(* What the delivery protocol promises about the work of an agent call: it *)
(* is announced once, takes effect at most once, and is acknowledged only  *)
(* after it took effect.  One call at a time has the turn; a call that     *)
(* loses the turn half way, for whatever reason, never gets another one.   *)
(***************************************************************************)
CONSTANTS Call, Nobody

VARIABLES stage, turn

vars == <<stage, turn>>

Init ==
  /\ stage = [c \in Call |-> "new"]
  /\ turn = Nobody

Announce(c) ==
  /\ turn = Nobody /\ stage[c] = "new"
  /\ stage' = [stage EXCEPT ![c] = "announced"]
  /\ turn' \in {c, Nobody}

TakeEffect(c) ==
  /\ turn = c /\ stage[c] = "announced"
  /\ stage' = [stage EXCEPT ![c] = "effective"]
  /\ turn' \in {c, Nobody}

Acknowledge(c) ==
  /\ turn = c /\ stage[c] = "effective"
  /\ stage' = [stage EXCEPT ![c] = "acknowledged"]
  /\ turn' = Nobody

LoseTurn ==
  /\ turn # Nobody
  /\ turn' = Nobody
  /\ UNCHANGED stage

Next == LoseTurn \/ \E c \in Call : Announce(c) \/ TakeEffect(c) \/ Acknowledge(c)

Spec == Init /\ [][Next]_vars
=============================================================================
