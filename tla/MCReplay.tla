----------------------------- MODULE MCReplay -----------------------------
(***************************************************************************)
(* Model-checking instances of what a resumed run finds in its journal.    *)
(* Panel records and the identity of calls share no state, so a behaviour  *)
(* steps one of them, chosen at the start, while the other stays in its    *)
(* initial state.                                                          *)
(***************************************************************************)
EXTENDS PanelLedger, CallIdentity

CONSTANT Parts  \* which of "panels" and "identity" behaviours step

VARIABLE part

----------------------------------------------------------------------------
(* The scripts of PanelLedger. *)
Call(c) == [do |-> "agent", of |-> c]
Panel(p) == [do |-> "parallel", of |-> p]
Settle(ok) == [do |-> "end", of |-> ok]

\* A branch's script from its first step, the next ones and its end.
Steps(first, next(_), end) ==
  [rs \in BoundedSeq(BOOLEAN, 2) |->
     IF rs = <<>> THEN first ELSE IF Len(rs) = 1 THEN next(rs[1]) ELSE end]

\* await parallel([async () => await agent(A) ? parallel([C, D]) : agent(F),
\*                 async () => await agent(B) ?? throw]); await agent(Z)
NestedWithin ==
  ("O" :> <<>>) @@ ("A" :> <<<<"O", 1>>>>) @@ ("F" :> <<<<"O", 1>>>>) @@ ("B" :> <<<<"O", 2>>>>)
  @@ ("N" :> <<<<"O", 1>>>>) @@ ("C" :> <<<<"O", 1>>, <<"N", 1>>>>)
  @@ ("D" :> <<<<"O", 1>>, <<"N", 2>>>>) @@ ("Z" :> <<>>)

NestedReserve == ("O" :> 4) @@ ("N" :> 2)

NestedScript ==
  (RootBranch :> Steps(Panel("O"), LAMBDA ok : Call("Z"), Settle(TRUE)))
  @@ (<<"O", 1>> :> Steps(Call("A"), LAMBDA ok : IF ok THEN Panel("N") ELSE Call("F"), Settle(TRUE)))
  @@ (<<"O", 2>> :> Steps(Call("B"), LAMBDA ok : Settle(ok), Settle(TRUE)))
  @@ (<<"N", 1>> :> Steps(Call("C"), LAMBDA ok : Settle(TRUE), Settle(TRUE)))
  @@ (<<"N", 2>> :> Steps(Call("D"), LAMBDA ok : Settle(ok), Settle(TRUE)))

\* parallel([() => agent(A)], { reserveAgents: 2 }) and then agent(B)
SpareWithin == ("O" :> <<>>) @@ ("A" :> <<<<"O", 1>>>>) @@ ("B" :> <<>>)

SpareReserve == "O" :> 2

SpareScript ==
  (RootBranch :> Steps(Panel("O"), LAMBDA ok : Call("B"), Settle(TRUE)))
  @@ (<<"O", 1>> :> Steps(Call("A"), LAMBDA ok : Settle(TRUE), Settle(TRUE)))

----------------------------------------------------------------------------
(* The scripts of CallIdentity. *)
Always(p) == [ok \in BOOLEAN |-> p]
Ask(p, loops) == [op |-> "agent", request |-> Always(p), loops |-> loops]
SetPhase(t) == [op |-> "phase", title |-> t]
Go(when, loop, bound, to) == [op |-> "jump", when |-> when, loop |-> loop, bound |-> bound, to |-> to]
Top(loop, inner) == [op |-> "mark", loop |-> loop, inner |-> inner]
Invoke(body, loops) == [op |-> "helper", body |-> body, loops |-> loops]

\* await parallel([
\*   async () => { phase("A"); await same() },
\*   async () => { await same(); phase("B"); await agent("q") } ])
\* await pipeline([1, 2], () => agent("q"), () => agent("q"))
\* where async function same() { phase("C"); return await agent("q") }
Branches ==
  ("branches" :> <<[op |-> "parallel", bodies |-> <<"left", "right">>, loops |-> <<>>],
               [op |-> "pipeline", items |-> 2, stages |-> <<"stage", "stage">>, loops |-> <<>>]>>)
  @@ ("left" :> <<SetPhase("A"), Invoke("same", <<>>)>>)
  @@ ("right" :> <<Invoke("same", <<>>), SetPhase("B"), Ask("q", <<>>)>>)
  @@ ("same" :> <<SetPhase("C"), Ask("q", <<>>)>>)
  @@ ("stage" :> <<Ask("q", <<>>)>>)

\* for (i of [1, 2, 3]) { (await agent("q")) ?? (await again()) }
\* await workflow("child", { after: <the last answer> }), whose body is agent("q")
Loops ==
  ("loops" :> <<Top("L", {}), Ask("q", <<"L">>), Go("ok", "L", 0, 5), Invoke("again", <<"L">>),
               Go("more", "L", 3, 1),
               [op |-> "workflow", request |-> [ok \in BOOLEAN |-> IF ok THEN "kept" ELSE "lost"],
                body |-> "child", loops |-> <<>>],
               Invoke("again", <<>>)>>)
  @@ ("again" :> <<Ask("q", <<>>)>>)
  @@ ("child" :> <<Ask("q", <<>>), Invoke("again", <<>>)>>)

\* for (i of [1, 2]) { do { r = await agent("q") } while (r === null && ++tries < 2) }
Retries ==
  ("retries" :> <<Top("L", {"R"}), Top("R", {}), Ask("q", <<"L", "R">>), Go("retry", "R", 2, 2),
               Go("more", "L", 2, 1)>>)

AllCode == Branches @@ Loops @@ Retries

ASSUME HonestReserves

----------------------------------------------------------------------------
ReplayInit ==
  /\ part \in Parts
  /\ IdentityInit
  /\ part = "panels" => frames[Root].code = CHOOSE script \in Workflows : TRUE
  /\ LedgerInit

ReplayNext ==
  \/ part = "panels" /\ LedgerNext /\ UNCHANGED <<part, identityVars>>
  \/ part = "identity" /\ IdentityNext /\ UNCHANGED <<part, ledgerVars>>

\* Slots are told apart by their paths only.  (TLC can store a state only when it has
\* evaluated the functions in it, which the comparison of path with itself makes it do.)
ReplayView ==
  <<part, identityVars, ledger, readable, hostVars, rootFree, consumed, live,
    path = path, [q \in Range(path) |-> Cardinality({s \in Slot : path[s] = q})],
    contingent, parents, nextPanel, trace, ended, history>>

ReplaySpec == ReplayInit /\ [][ReplayNext]_<<part, ledgerVars, identityVars>>
=============================================================================
