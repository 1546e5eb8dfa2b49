----------------------------- MODULE Turnstile -----------------------------
(***************************************************************************)
(* What an execution gate promises: a turnstile with a fixed number of     *)
(* places and one line in front of it.  Whoever arrives goes straight in   *)
(* when there is room and joins the end of the line otherwise; a place     *)
(* that is left goes to the head of the line in the same step, so nobody   *)
(* who arrives later can overtake.  Shutting it sends the whole line away. *)
(***************************************************************************)
EXTENDS Naturals, FiniteSets

CONSTANTS Visitor, places

VARIABLES
  line,    \* who is in the line
  ahead,   \* <<u, v>> when u is in front of v there
  inside,
  shut

vars == <<line, ahead, inside, shut>>

IsHead(v) == v \in line /\ \A u \in line : <<u, v>> \notin ahead

\* The line when v has left it: the others keep their order.
StepsOut(v) ==
  /\ line' = line \ {v}
  /\ ahead' = {pair \in ahead : v \notin {pair[1], pair[2]}}

Init == line = {} /\ ahead = {} /\ inside = {} /\ shut = FALSE

Enter(v) ==
  /\ ~shut
  /\ v \notin inside /\ v \notin line
  /\ Cardinality(inside) < places
  /\ line = {}
  /\ inside' = inside \cup {v}
  /\ UNCHANGED <<line, ahead, shut>>

Wait(v) ==
  /\ ~shut
  /\ v \notin inside /\ v \notin line
  /\ Cardinality(inside) = places
  /\ line' = line \cup {v}
  /\ ahead' = ahead \cup (line \X {v})
  /\ UNCHANGED <<inside, shut>>

Leave(v) ==
  /\ v \in inside
  /\ \/ line = {} /\ inside' = inside \ {v} /\ UNCHANGED <<line, ahead>>
     \/ \E u \in Visitor : /\ IsHead(u)
                           /\ inside' = (inside \ {v}) \cup {u}
                           /\ StepsOut(u)
  /\ UNCHANGED shut

GiveUp(v) ==
  /\ v \in line
  /\ StepsOut(v)
  /\ UNCHANGED <<inside, shut>>

Shut ==
  /\ ~shut
  /\ shut' = TRUE
  /\ line' = {} /\ ahead' = {}
  /\ UNCHANGED inside

Next == (\E v \in Visitor : Enter(v) \/ Wait(v) \/ Leave(v) \/ GiveUp(v)) \/ Shut

Spec == Init /\ [][Next]_vars
=============================================================================
