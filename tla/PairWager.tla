------------------------------ MODULE PairWager ------------------------------
(***************************************************************************)
(* What the pair escrow promises, without time, allowances, callers or     *)
(* bookkeeping: a room collects the same stake from two players and then   *)
(* pays both to one of them, or returns to each its own, once.             *)
(* The table "Locked USDC" of docs/PAIR-MATCH-ESCROW.md describes it;      *)
(* src/contracts/arc/PairMatchEscrow.sol implements it.                    *)
(***************************************************************************)
EXTENDS Integers

CONSTANTS Rooms, Players, Stakes, Funds

VARIABLES stage,    \* [Rooms -> empty, half, full, won or returned]
          members,  \* [Rooms -> the players whose stake it took]
          wager,    \* [Rooms -> the stake]
          owed,     \* [Rooms -> [Players -> what it owes each]]
          wallet    \* [Players -> what each holds]

wagerVars == <<stage, members, wager, owed, wallet>>

Init ==
    /\ stage = [r \in Rooms |-> "empty"]
    /\ members = [r \in Rooms |-> {}]
    /\ wager = [r \in Rooms |-> 0]
    /\ owed = [r \in Rooms |-> [p \in Players |-> 0]]
    /\ wallet = [p \in Players |-> Funds]

Put(r, p, s) ==
    /\ wallet[p] >= s
    /\ wallet' = [wallet EXCEPT ![p] = @ - s]
    /\ members' = [members EXCEPT ![r] = @ \cup {p}]
    /\ UNCHANGED owed

Open(r, p, s) ==
    /\ stage[r] = "empty"
    /\ Put(r, p, s)
    /\ stage' = [stage EXCEPT ![r] = "half"]
    /\ wager' = [wager EXCEPT ![r] = s]

Match(r, p) ==
    /\ stage[r] = "half"
    /\ p \notin members[r]
    /\ Put(r, p, wager[r])
    /\ stage' = [stage EXCEPT ![r] = "full"]
    /\ UNCHANGED wager

Award(r, w) ==
    /\ stage[r] = "full"
    /\ w \in members[r]
    /\ stage' = [stage EXCEPT ![r] = "won"]
    /\ owed' = [owed EXCEPT ![r][w] = 2 * wager[r]]
    /\ UNCHANGED <<members, wager, wallet>>

Return(r) ==
    /\ stage[r] \in {"half", "full"}
    /\ stage' = [stage EXCEPT ![r] = "returned"]
    /\ owed' = [owed EXCEPT ![r] =
                  [p \in Players |-> IF p \in members[r] THEN wager[r] ELSE 0]]
    /\ UNCHANGED <<members, wager, wallet>>

Collect(r, p) ==
    /\ stage[r] \in {"won", "returned"}
    /\ owed[r][p] > 0
    /\ wallet' = [wallet EXCEPT ![p] = @ + owed[r][p]]
    /\ owed' = [owed EXCEPT ![r][p] = 0]
    /\ UNCHANGED <<stage, members, wager>>

Next ==
    \E r \in Rooms :
        \/ \E p \in Players, s \in Stakes : Open(r, p, s)
        \/ \E p \in Players : Match(r, p) \/ Award(r, p) \/ Collect(r, p)
        \/ Return(r)

Spec == Init /\ [][Next]_wagerVars

=============================================================================
