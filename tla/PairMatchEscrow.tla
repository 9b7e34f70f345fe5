--------------------------- MODULE PairMatchEscrow ---------------------------
(***************************************************************************)
(* The two-player USDC escrow of src/contracts/arc/PairMatchEscrow.sol.    *)
(*                                                                         *)
(* Every external function of the contract is one action; a call that      *)
(* reverts changes nothing and so is a stuttering step.  The USDC token is *)
(* external: its balances and allowances are the two functions the         *)
(* contract reads and moves.  A block's timestamp is the clock "now".      *)
(***************************************************************************)
EXTENDS Integers, FiniteSets, Functions

CONSTANTS Rooms,        \* room identifiers (nonzero bytes32)
          Players,      \* the wallets that play, each may also hold USDC
          Operator,     \* the address allowed to settle
          Escrow,       \* address(this)
          Versions,     \* nonzero agent version digests
          Stakes,       \* the stakes a creator may choose
          Funds,        \* USDC each player starts with
          MaxWindow,    \* 30 days, the longest a room may stay undecided
          Horizon,      \* bound: the last timestamp of a behaviour
          None          \* address(0), bytes32(0)

ASSUME EscrowAssumption ==
    /\ IsFiniteSet(Rooms) /\ IsFiniteSet(Players)
    /\ Escrow \notin Players
    /\ None \notin Players
    /\ None \notin Versions
    /\ Stakes \subseteq Nat \ {0}
    /\ Funds \in Nat
    /\ MaxWindow \in Nat
    /\ Horizon \in Nat

VARIABLES room,             \* rooms[roomId]
          creditOf,         \* creditOf[roomId][player]
          totalLiability,   \* what the contract says it owes
          usdc,             \* external: token balances
          allowance,        \* external: allowance(player, address(this))
          now               \* block.timestamp

vars == <<room, creditOf, totalLiability, usdc, allowance, now>>
token == <<usdc, allowance>>

-----------------------------------------------------------------------------

State == {"NONE", "OPEN", "JOINED", "SETTLED", "REFUNDABLE"}

Room == [creator : Players \cup {None},
         challenger : Players \cup {None},
         creatorAgentVersion : Versions \cup {None},
         challengerAgentVersion : Versions \cup {None},
         stake : Nat,
         joinDeadline : Nat,
         resolutionDeadline : Nat,
         state : State,
         winner : Players \cup {None},
         cancelRequested : SUBSET Players]

\* The zero value every mapping entry has before createRoom writes it.
NoRoom == [creator |-> None, challenger |-> None,
           creatorAgentVersion |-> None, challengerAgentVersion |-> None,
           stake |-> 0, joinDeadline |-> 0, resolutionDeadline |-> 0,
           state |-> "NONE", winner |-> None, cancelRequested |-> {}]

Init ==
    /\ room = [r \in Rooms |-> NoRoom]
    /\ creditOf = [r \in Rooms |-> [p \in Players |-> 0]]
    /\ totalLiability = 0
    /\ usdc = [a \in Players \cup {Escrow} |-> IF a = Escrow THEN 0 ELSE Funds]
    /\ allowance = [p \in Players |-> 0]
    /\ now = 0

-----------------------------------------------------------------------------
(* The token. *)

Approve(p, amount) ==
    /\ allowance' = [allowance EXCEPT ![p] = amount]
    /\ UNCHANGED <<room, creditOf, totalLiability, usdc, now>>

\* _deposit: the payer must hold and have approved the amount; the balance
\* check after transferFrom holds for a token that takes no fee.
Deposit(payer, amount) ==
    /\ usdc[payer] >= amount
    /\ allowance[payer] >= amount
    /\ usdc' = [usdc EXCEPT ![payer] = @ - amount, ![Escrow] = @ + amount]
    /\ allowance' = [allowance EXCEPT ![payer] = @ - amount]

-----------------------------------------------------------------------------
(* The contract. *)

CreateRoom(caller, r, version, stake, joinDeadline, resolutionDeadline) ==
    /\ joinDeadline > now
    /\ resolutionDeadline > joinDeadline
    /\ resolutionDeadline <= now + MaxWindow
    /\ room[r].state = "NONE"
    /\ Deposit(caller, stake)
    /\ room' = [room EXCEPT ![r] =
                  [creator |-> caller, challenger |-> None,
                   creatorAgentVersion |-> version,
                   challengerAgentVersion |-> None,
                   stake |-> stake, joinDeadline |-> joinDeadline,
                   resolutionDeadline |-> resolutionDeadline,
                   state |-> "OPEN", winner |-> None, cancelRequested |-> {}]]
    /\ totalLiability' = totalLiability + stake
    /\ UNCHANGED <<creditOf, now>>

\* Mutant of JoinRoom: the second stake is not counted as a liability.
JoinRoomUncounted(caller, r, version) ==
    /\ room[r].state = "OPEN"
    /\ now < room[r].joinDeadline
    /\ caller # room[r].creator
    /\ version # room[r].creatorAgentVersion
    /\ Deposit(caller, room[r].stake)
    /\ room' = [room EXCEPT ![r].challenger = caller,
                            ![r].challengerAgentVersion = version,
                            ![r].state = "JOINED"]
    /\ UNCHANGED <<creditOf, totalLiability, now>>

JoinRoom(caller, r, version) ==
    /\ room[r].state = "OPEN"
    /\ now < room[r].joinDeadline
    /\ caller # room[r].creator
    /\ version # room[r].creatorAgentVersion
    /\ Deposit(caller, room[r].stake)
    /\ room' = [room EXCEPT ![r].challenger = caller,
                            ![r].challengerAgentVersion = version,
                            ![r].state = "JOINED"]
    /\ totalLiability' = totalLiability + room[r].stake
    /\ UNCHANGED <<creditOf, now>>

\* Mutant of OpenRefunds: each player is given the whole pot.
OpenRefundsPot(r, current) ==
    /\ room' = [room EXCEPT ![r] = [current EXCEPT !.state = "REFUNDABLE"]]
    /\ creditOf' = [creditOf EXCEPT ![r] =
                      [p \in Players |->
                          IF p \in {current.creator, current.challenger}
                          THEN current.stake * 2 ELSE @[p]]]

\* _openRefunds, given the room as the caller has already changed it.
OpenRefunds(r, current) ==
    /\ room' = [room EXCEPT ![r] = [current EXCEPT !.state = "REFUNDABLE"]]
    /\ creditOf' = [creditOf EXCEPT ![r] =
                      [p \in Players |->
                          IF p \in {current.creator, current.challenger}
                          THEN current.stake ELSE @[p]]]

CancelRoom(caller, r) ==
    /\ room[r].state = "OPEN"
    /\ caller = room[r].creator
    /\ OpenRefunds(r, room[r])
    /\ UNCHANGED <<totalLiability, token, now>>

RequestCancel(caller, r) ==
    LET flagged == [room[r] EXCEPT !.cancelRequested = @ \cup {caller}]
    IN  /\ room[r].state = "JOINED"
        /\ caller \in {room[r].creator, room[r].challenger}
        /\ IF flagged.cancelRequested = {room[r].creator, room[r].challenger}
           THEN OpenRefunds(r, flagged)
           ELSE /\ room' = [room EXCEPT ![r] = flagged]
                /\ UNCHANGED creditOf
        /\ UNCHANGED <<totalLiability, token, now>>

\* Mutant of ExpireRoom: it forgets the joined rooms.
ExpireOpenRoom(r) ==
    /\ room[r].state = "OPEN" /\ now >= room[r].joinDeadline
    /\ OpenRefunds(r, room[r])
    /\ UNCHANGED <<totalLiability, token, now>>

\* Anyone may call it, so the caller is not a parameter.
ExpireRoom(r) ==
    /\ \/ room[r].state = "OPEN" /\ now >= room[r].joinDeadline
       \/ room[r].state = "JOINED" /\ now >= room[r].resolutionDeadline
    /\ OpenRefunds(r, room[r])
    /\ UNCHANGED <<totalLiability, token, now>>

\* Mutants of Settle: the state check is gone, or the deadline is off by one.
SettleAnyState(caller, r, winner) ==
    /\ caller = Operator
    /\ now < room[r].resolutionDeadline
    /\ winner \in {room[r].creator, room[r].challenger}
    /\ room' = [room EXCEPT ![r].state = "SETTLED", ![r].winner = winner]
    /\ creditOf' = [creditOf EXCEPT ![r][winner] = room[r].stake * 2]
    /\ UNCHANGED <<totalLiability, token, now>>

SettleAtDeadline(caller, r, winner) ==
    /\ caller = Operator
    /\ room[r].state = "JOINED"
    /\ now <= room[r].resolutionDeadline
    /\ winner \in {room[r].creator, room[r].challenger}
    /\ room' = [room EXCEPT ![r].state = "SETTLED", ![r].winner = winner]
    /\ creditOf' = [creditOf EXCEPT ![r][winner] = room[r].stake * 2]
    /\ UNCHANGED <<totalLiability, token, now>>

Settle(caller, r, winner) ==
    /\ caller = Operator
    /\ room[r].state = "JOINED"
    /\ now < room[r].resolutionDeadline
    /\ winner \in {room[r].creator, room[r].challenger}
    /\ room' = [room EXCEPT ![r].state = "SETTLED", ![r].winner = winner]
    /\ creditOf' = [creditOf EXCEPT ![r][winner] = room[r].stake * 2]
    /\ UNCHANGED <<totalLiability, token, now>>

\* Mutant of Withdraw: the credit is paid but kept.
WithdrawAgain(caller, r) ==
    LET amount == creditOf[r][caller]
    IN  /\ amount > 0
        /\ totalLiability' = totalLiability - amount
        /\ usdc' = [usdc EXCEPT ![Escrow] = @ - amount, ![caller] = @ + amount]
        /\ UNCHANGED <<room, creditOf, allowance, now>>

Withdraw(caller, r) ==
    LET amount == creditOf[r][caller]
    IN  /\ amount > 0
        /\ creditOf' = [creditOf EXCEPT ![r][caller] = 0]
        /\ totalLiability' = totalLiability - amount
        /\ usdc' = [usdc EXCEPT ![Escrow] = @ - amount, ![caller] = @ + amount]
        /\ UNCHANGED <<room, allowance, now>>

\* Blocks arrive; the bound Horizon ends a behaviour.
Tick ==
    /\ now < Horizon
    /\ now' = now + 1
    /\ UNCHANGED <<room, creditOf, totalLiability, token>>

-----------------------------------------------------------------------------

Next ==
    \/ \E p \in Players, amount \in Stakes : Approve(p, amount)
    \/ \E p \in Players, r \in Rooms, v \in Versions, s \in Stakes,
          jd, rd \in 1..Horizon : CreateRoom(p, r, v, s, jd, rd)
    \/ \E p \in Players, r \in Rooms, v \in Versions : JoinRoom(p, r, v)
    \/ \E p \in Players, r \in Rooms : CancelRoom(p, r)
    \/ \E p \in Players, r \in Rooms : RequestCancel(p, r)
    \/ \E r \in Rooms : ExpireRoom(r)
    \/ \E a \in Players \cup {Operator}, r \in Rooms, w \in Players : Settle(a, r, w)
    \/ \E p \in Players, r \in Rooms : Withdraw(p, r)
    \/ Tick

Spec == Init /\ [][Next]_vars

\* Blocks keep arriving, the settlement worker expires every room past its
\* deadline on its next tick (src/services/api/src/pair-settlement.ts), and a
\* player with a credit withdraws it.  Nothing makes a player create or join,
\* or the operator settle.
Fairness ==
    /\ WF_vars(Tick)
    /\ \A r \in Rooms : WF_vars(ExpireRoom(r))
    /\ \A r \in Rooms, p \in Players : WF_vars(Withdraw(p, r))

FairSpec == Spec /\ Fairness

-----------------------------------------------------------------------------
(* Properties. *)

TypeOK ==
    /\ room \in [Rooms -> Room]
    /\ creditOf \in [Rooms -> [Players -> Nat]]
    /\ totalLiability \in Nat
    /\ usdc \in [Players \cup {Escrow} -> Nat]
    /\ allowance \in [Players -> Nat]
    /\ now \in Nat

Decided(r) == room[r].state \in {"SETTLED", "REFUNDABLE"}

\* What room r still holds of its players' money: its locked stakes while it
\* is undecided, then the credits nobody has withdrawn.
Locked(r) == CASE room[r].state = "OPEN" -> room[r].stake
               [] room[r].state = "JOINED" -> room[r].stake * 2
               [] OTHER -> 0

Held(r) == Locked(r) + SumFunctionOnSet(creditOf[r], Players)

\* The contract never owes more than it holds and never holds what it does not
\* owe: its USDC balance is totalLiability, and totalLiability is what the
\* rooms hold, whatever was created, joined, settled, refunded and withdrawn.
LiabilityBacked ==
    /\ totalLiability = SumFunctionOnSet([r \in Rooms |-> Held(r)], Rooms)
    /\ usdc[Escrow] = totalLiability

\* A credit exists only in a decided room, for a player the outcome names, and
\* for exactly the amount the outcome gives: both stakes to the winner, or to
\* each depositor its own.
CreditMatchesOutcome ==
    \A r \in Rooms, p \in Players : creditOf[r][p] > 0 =>
        \/ /\ room[r].state = "SETTLED"
           /\ p = room[r].winner
           /\ creditOf[r][p] = room[r].stake * 2
        \/ /\ room[r].state = "REFUNDABLE"
           /\ p \in {room[r].creator, room[r].challenger}
           /\ creditOf[r][p] = room[r].stake

\* Once decided a room is frozen, and its credits only shrink: no later call,
\* in any order, reopens refunds, changes the winner or pays a player twice.
OutcomeFinal ==
    [][\A r \in Rooms : Decided(r) =>
          /\ room'[r] = room[r]
          /\ \A p \in Players : creditOf'[r][p] <= creditOf[r][p]]_vars

\* resolutionDeadline separates the two ways a joined room ends: a verdict
\* pays a winner only before it, and without the consent of both players a
\* refund opens only from it on, so the two can never race in one block.
DeadlineSplitsOutcomes ==
    [][\A r \in Rooms : room[r].state = "JOINED" =>
          /\ room'[r].state = "SETTLED" => now < room[r].resolutionDeadline
          /\ room'[r].state = "REFUNDABLE" =>
                \/ now >= room[r].resolutionDeadline
                \/ room'[r].cancelRequested
                      = {room[r].creator, room[r].challenger}]_vars

\* No stake is locked for ever: whatever the players and the operator do or
\* fail to do, every created room is decided and every credit paid out.
EveryStakeReturns ==
    \A r \in Rooms :
        room[r].state # "NONE" ~>
            Decided(r) /\ \A p \in Players : creditOf[r][p] = 0

\* The refinement mapping to the wager of two stakes (module PairWager).
StageOf(state) == CASE state = "NONE" -> "empty"
                    [] state = "OPEN" -> "half"
                    [] state = "JOINED" -> "full"
                    [] state = "SETTLED" -> "won"
                    [] state = "REFUNDABLE" -> "returned"
Stage == [r \in Rooms |-> StageOf(room[r].state)]
Members == [r \in Rooms |-> {room[r].creator, room[r].challenger} \ {None}]
StakeOf == [r \in Rooms |-> room[r].stake]
Wallet == [p \in Players |-> usdc[p]]

Wager == INSTANCE PairWager WITH
    stage <- Stage, members <- Members, wager <- StakeOf,
    owed <- creditOf, wallet <- Wallet

\* Every behaviour of the contract is one of the wager: a room takes one stake
\* from each of two players and gives them back exactly once.
WagerHonoured == Wager!Spec

=============================================================================
