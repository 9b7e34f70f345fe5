------------------------------ MODULE MCPairRaces ------------------------------
(* What may go on in a pair room at the same time, in four small scenarios for  *)
(* TLC; a behaviour is one of them.                                             *)
(*   ticks    two ticks of the worker, each able to outlive its lease           *)
(*   cancels  one tick and the players' mutual cancellation                     *)
(*   expiry   one tick and the players' cancel, expire and withdraw requests    *)
(*   joins    one tick and two challengers, served at the same time             *)
EXTENDS PairPlay, TLC

CONSTANTS theRoom, c, d0, d1, d2, h0, h1, h2, w0, w1, w2, op, escrow, none

VARIABLE scenario

AllChallengers == {d0, d1, d2}
AllHandlers == {h0, h1, h2}
AllWorkers == {w0, w1, w2}
ArcError == {"ARC_ERROR"}
Cancels == {<<"REQUEST_CANCEL", c>>, <<"REQUEST_CANCEL", d0>>}
Expiry == {<<"CANCEL", c>>, <<"EXPIRE", d0>>, <<"WITHDRAW", c>>}
EveryAction == Cancels \cup Expiry

Ticking == IF scenario = "ticks" THEN {w1, w2} ELSE {w0}
Serving == IF scenario = "joins" THEN {h1, h2} ELSE {h0}
Coming == IF scenario = "joins" THEN {d1, d2} ELSE {d0}
Asked == CASE scenario = "cancels" -> Cancels
           [] scenario = "expiry" -> Expiry
           [] OTHER -> {}

\* Asks, of the scenario's challengers and for its actions.
AsksFor(h) ==
    /\ \/ StartCreate(h)
       \/ \E p \in Coming : StartJoin(h, p)
       \/ \E action \in Asked : StartAction(h, action[2], action[1])
    /\ UNCHANGED work

MCInit == Init /\ scenario \in {"ticks", "cancels", "expiry", "joins"}
MCNext ==
    /\ \/ \E h \in Serving : AsksFor(h) \/ ServeStep(h)
       \/ \E w \in Ticking : WorkStep(w)
       \/ \E kind \in Kinds, p \in Principals : WalletStep(kind, p)
       \/ LandStep
       \/ TimeStep
    /\ UNCHANGED scenario
MCSpec == MCInit /\ [][MCNext]_<<scenario, vars>>

\* One scenario only has these, and treats them alike.
Alike == Permutations({w1, w2}) \cup Permutations({h1, h2}) \cup Permutations({d1, d2})
=============================================================================
