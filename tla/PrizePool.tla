------------------------------ MODULE PrizePool ------------------------------
(***************************************************************************)
(* What the tournament escrow promises, without time, roles, rosters or    *)
(* bookkeeping: a pool collects one stake from each member and is then     *)
(* either divided, to the last unit, among members and the house, or       *)
(* returned stake by stake; it closes when all of it has been collected.   *)
(* src/contracts/arc/TournamentEscrow.sol implements it.                   *)
(***************************************************************************)
EXTENDS Integers, FiniteSets, Functions

CONSTANTS Pools, Accounts, House, Funds

VARIABLES stage,    \* [Pools -> none, open, divided, returned or closed]
          price,    \* [Pools -> the stake]
          members,  \* [Pools -> the accounts that paid it]
          owed,     \* [Pools -> [Accounts -> what it owes each]]
          wallet    \* [Accounts -> what each holds]

poolVars == <<stage, price, members, owed, wallet>>

Init ==
    /\ stage = [t \in Pools |-> "none"]
    /\ price = [t \in Pools |-> 0]
    /\ members = [t \in Pools |-> {}]
    /\ owed = [t \in Pools |-> [a \in Accounts |-> 0]]
    /\ wallet = [a \in Accounts |-> Funds]

Announce(t) ==
    /\ stage[t] = "none"
    /\ stage' = [stage EXCEPT ![t] = "open"]
    /\ \A u \in Pools \ {t} : price'[u] = price[u]
    /\ price' \in [Pools -> Nat]
    /\ UNCHANGED <<members, owed, wallet>>

Enter(t, a) ==
    /\ stage[t] = "open"
    /\ a \notin members[t]
    /\ wallet[a] >= price[t]
    /\ wallet' = [wallet EXCEPT ![a] = @ - price[t]]
    /\ members' = [members EXCEPT ![t] = @ \cup {a}]
    /\ UNCHANGED <<stage, price, owed>>

Divide(t) ==
    /\ stage[t] = "open"
    /\ stage' = [stage EXCEPT ![t] = "divided"]
    /\ owed' \in [Pools -> [Accounts -> Nat]]
    /\ \A u \in Pools \ {t} : owed'[u] = owed[u]
    /\ \A a \in Accounts : owed'[t][a] > 0 => a \in members[t] \cup {House}
    /\ SumFunctionOnSet(owed'[t], Accounts) = price[t] * Cardinality(members[t])
    /\ UNCHANGED <<price, members, wallet>>

Return(t) ==
    /\ stage[t] = "open"
    /\ stage' = [stage EXCEPT ![t] = "returned"]
    /\ owed' = [owed EXCEPT ![t] =
                   [a \in Accounts |-> IF a \in members[t] THEN price[t] ELSE 0]]
    /\ UNCHANGED <<price, members, wallet>>

\* An account may be owed for more than one reason and collect them apart.
Collect(t, a) ==
    /\ stage[t] \in {"divided", "returned"}
    /\ \E amount \in 1..owed[t][a] :
          /\ owed' = [owed EXCEPT ![t][a] = @ - amount]
          /\ wallet' = [wallet EXCEPT ![a] = @ + amount]
    /\ UNCHANGED <<stage, price, members>>

Close(t) ==
    /\ stage[t] \in {"divided", "returned"}
    /\ \A a \in Accounts : owed[t][a] = 0
    /\ stage' = [stage EXCEPT ![t] = "closed"]
    /\ UNCHANGED <<price, members, owed, wallet>>

Next ==
    \E t \in Pools :
        \/ Announce(t) \/ Divide(t) \/ Return(t) \/ Close(t)
        \/ \E a \in Accounts : Enter(t, a) \/ Collect(t, a)

Spec == Init /\ [][Next]_poolVars

=============================================================================
