----------------------------- MODULE MCTournaments -----------------------------
(* Small instances of a tournament's prizes, of the scripts that run one, of its *)
(* bracket and of the store behind the API for TLC, in one run.  A behaviour is  *)
(* one of them; the others stay as they begin.                                   *)
(*   prizes   the escrow: two ranks instead of five, at least two entrants       *)
(*            instead of eight, the code's fee and 10 000 parts                  *)
(*   scripts  the live lifecycle: the operator and one helper, two runs           *)
(*   bracket  eight and nine entrants, both revisions                            *)
(*   rows     the store's records: three strings in one namespace, or two in two   *)
(*   leases   the store's leases and counters: three calls of two owners           *)
(*   start    the block that seeds a bracket, on a chain of up to six blocks       *)
EXTENDS LiveLifecycle, RuntimeStore, StartBlock, TLC

CONSTANTS t1, t2, a1, a2, op, escrow, e1, e2, none

VARIABLES instance, field, matches, sources, round, results, status, ranking

bracketVars == <<field, matches, sources, round, results, status, ranking>>

TwoTournaments == {t1, t2}
Wallets == {a1, a2, op}
TwoEntrants == {e1, e2}

\* A stake of 7 leaves a fee and shares that do not divide evenly; the second
\* policy's shares add up to one part too many.
PolicyOf(stake, expires, bps) ==
    [opensAt |-> 0, closesAt |-> 1, startsAt |-> 1, expiresAt |-> expires,
     minEntrants |-> 2, maxEntrants |-> 2, stake |-> stake,
     operator |-> op, payoutBps |-> bps]
FirstPolicy == PolicyOf(7, 2, <<6500, 3500>>)
SomePolicies == {FirstPolicy, PolicyOf(7, 2, <<6500, 3501>>)}

ScriptAccounts == 0 :> op @@ 1 :> a1
ScriptEntrants == 0 :> e1 @@ 1 :> e2

Draw == INSTANCE Bracket WITH
    Fields <- {<<8, 1>>, <<9, 1>>, <<8, 2>>, <<9, 2>>}, MaxWidth <- 6

\* The store: three rows of one namespace that mention one string each, or two
\* strings in two namespaces.
SmallTable ==
    \/ \A r \in records : r.namespace = "tournaments" /\ Cardinality(r.refs) <= 1
    \/ \A r \in records : r.key # 3 /\ 3 \notin r.refs

\* A tick of the settlement worker, and two tournament operations of one process.
SomeOwners == "tick" :> "worker" @@ "operation" :> "api" @@ "later operation" :> "api"

\* The operations are of one tournament, key 1; the tick also claims another key.
FewLeases ==
    \/ \E w \in Claimants, k, f \in {1, 2}, time \in LeaseTimes :
          (w = "tick" \/ k = 1) /\ ClaimLease(w, k, f, time)
    \/ \E c \in claims : ReleaseLease(c)
    \/ Increment(1, 1)
    \/ \E o \in Owners : ProcessEnd(o)
    \/ ReleaseLeft("api", 1)
    \/ Later

MCInit == /\ LifecycleInit /\ StoreInit /\ StartInit
          /\ \/ instance \in {"prizes", "scripts", "rows", "leases", "start"} /\ Draw!BracketInit /\ field = <<8, 1>>
             \/ instance = "bracket" /\ Draw!BracketInit
          /\ instance # "start" => stamp[0] = 0
MCNext == /\ \/ /\ \/ instance = "prizes" /\ Next /\ UNCHANGED scriptVars
                   \/ instance = "scripts" /\ LifecycleNext
                /\ UNCHANGED <<bracketVars, storeVars, startVars>>
             \/ instance = "bracket" /\ Draw!BracketNext /\ UNCHANGED <<lifecycleVars, storeVars, startVars>>
             \/ /\ \/ instance = "rows" /\ RowNext /\ SmallTable'
                   \/ instance = "leases" /\ FewLeases
                /\ UNCHANGED <<lifecycleVars, bracketVars, startVars>>
             \/ instance = "start" /\ StartNext /\ UNCHANGED <<lifecycleVars, bracketVars, storeVars>>
          /\ UNCHANGED instance

\* Fairness, of the escrow.
MCFairness ==
    /\ WF_vars(instance = "prizes" /\ Tick)
    /\ \A t \in Tournaments :
          /\ WF_vars(instance = "prizes" /\ \E a \in Accounts : CancelAndOpenRefunds(a, t))
          /\ \A a \in Accounts, e \in Entrants :
                WF_vars(instance = "prizes" /\ ClaimRefund(a, t, e))
          /\ \A a \in Accounts : WF_vars(instance = "prizes" /\ WithdrawCreditFor(t, a))
          /\ WF_vars(instance = "prizes" /\ WithdrawPlatformFeeFor(t))
          /\ WF_vars(instance = "prizes" /\ CloseTournament(t))

MCSpec == MCInit /\ [][MCNext]_<<instance, lifecycleVars, bracketVars, storeVars, startVars>> /\ MCFairness

(* Whatever players do, a tournament that was created is paid out or refunded, and *)
(* closed.  The scripts are under no fairness.                                     *)
MCEveryPoolCloses == instance = "prizes" => EveryPoolCloses

(* A bracket is drawn from one block and ranked by its results. *)
MCRankingEarned ==
    /\ StoreTypeOK
    /\ StartTypeOK /\ OneSeed
    /\ Draw!BracketTypeOK /\ Draw!RankingEarned
=============================================================================
