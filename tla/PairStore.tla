------------------------------ MODULE PairStore ------------------------------
(***************************************************************************)
(* What the API's request handlers and its settlement worker share while   *)
(* they run one pair room: the durable records of the runtime store, the   *)
(* contract room on Arc, the transactions of the players' managed wallets  *)
(* and of the operator, and the GenLayer judgment of every attempt.        *)
(*                                                                         *)
(* The code is JavaScript: between two awaits nothing else runs, so an     *)
(* action is the code from one await to the next, a chain read included.   *)
(***************************************************************************)
EXTENDS Integers, FiniteSets

CONSTANTS RoomId,        \* the one room of the model; records are per room
          Creator,       \* the principal that creates it, and its wallet
          Challengers,   \* the principals that may join it
          Operator, Escrow, None,
          JoinBy,        \* joinDeadline of the room's intent
          ResolveBy,     \* resolutionDeadline of the room's intent
          Horizon,       \* bound: the last clock value
          Scenarios,     \* PAIR_COMPARISON_SCENARIOS.length
          ErrorCodes,    \* what a failed Arc call is classified as
          Actions,       \* bound: the actions asked for, and by whom
          MaxFaults      \* bound: failed calls, lost answers and crashes

Principals == {Creator} \cup Challengers
Stake == 1

VARIABLES room, creditOf, totalLiability, usdc, allowance, now,   \* on Arc
          row,             \* pair-rooms-v1
          joinIntent,      \* pair-room-join-intents
          settleIntent,    \* pair-room-settlement-intents
          refundIntent,    \* pair-room-refund-intents
          progress,        \* pair-room-evaluation-progress-v2
          lease,           \* pair-room-worker-leases-v2
          circle,          \* external: status of each managed-wallet request
          pool,            \* external: operator transactions sent, not mined
          judge,           \* external: GenLayer's judgment of each attempt
          faults           \* faults so far, for the bound MaxFaults

\* The agent version of a principal is named by the principal.
Arc == INSTANCE PairMatchEscrow WITH
    Rooms <- {RoomId}, Players <- Principals, Versions <- Principals,
    Stakes <- {Stake}, Funds <- Stake, MaxWindow <- ResolveBy

chain == <<room, creditOf, totalLiability, usdc, allowance>>
intents == <<joinIntent, settleIntent, refundIntent>>
store == <<row, intents, progress, lease>>

onArc == room[RoomId]

-----------------------------------------------------------------------------
(* The records. *)

Stages == {"NONE", "QUEUED", "RUNNING_AGENTS", "WAITING_VERDICT", "RETRYING",
           "SETTLING", "REFUNDING", "COMPLETE"}
Failures == {"NONE", "PROVIDER_ERROR", "GENLAYER_BUSY", "GENLAYER_ERROR",
             "GENLAYER_NO_CONSENSUS", "VERDICT_PENDING", "ARC_ERROR"}
Attempts == 1..Scenarios

\* A verdict transaction is named by the attempt it judges, 0 when undefined.
Row == [state : {"NONE", "PENDING", "OPEN", "JOINING", "JOINED",
                 "REFUNDABLE", "SETTLED"},
        challenger : Challengers \cup {None},
        createTx : BOOLEAN, joinTx : BOOLEAN,
        stage : Stages, failure : Failures, attempts : Nat,
        verdictTx : 0..Scenarios, verdictAttempt : 0..Scenarios]

NoRow == [state |-> "NONE", challenger |-> None,
          createTx |-> FALSE, joinTx |-> FALSE,
          stage |-> "NONE", failure |-> "NONE", attempts |-> 0,
          verdictTx |-> 0, verdictAttempt |-> 0]

\* PairRoomCoordinator.get hides a PENDING room.
Visible == row.state \notin {"NONE", "PENDING"}

SettleIntent == [winner : Principals, attempt : Attempts]
RefundIntent == [failure : Failures, verdictTx : 0..Scenarios]
Progress == [phase : {"PROVIDER", "GENLAYER_FINALITY", "ARC_SETTLEMENT",
                      "RECOVERY_REQUIRED", "COMPLETE"},
             arcFailures : Nat, nextAt : Nat, verdictTx : 0..Scenarios]
NoProgress == [phase |-> "PROVIDER", arcFailures |-> 0, nextAt |-> 0,
               verdictTx |-> 0]
NoIntent == [none |-> None]
NoLease == [owner |-> None, until |-> 0]

-----------------------------------------------------------------------------
(* The managed wallets.  A request is named by its stored execution key, so *)
(* a repeated call finds the transaction of the first one.                  *)

UserKinds == {"CANCEL", "REQUEST_CANCEL", "EXPIRE", "WITHDRAW"}

ASSUME StoreAssumption ==
    /\ IsFiniteSet(Challengers) /\ Creator \notin Challengers
    /\ None \notin Principals /\ Escrow \notin Principals
    /\ JoinBy \in Nat \ {0} /\ ResolveBy \in Nat /\ Horizon \in Nat
    /\ JoinBy < ResolveBy /\ ResolveBy <= Horizon
    /\ Scenarios \in Nat \ {0} /\ MaxFaults \in Nat
    /\ ErrorCodes \subseteq Failures
    /\ Actions \subseteq UserKinds \X Principals

Kinds == UserKinds \cup {"APPROVE", "CREATE", "JOIN",
                         "AUTO_CANCEL", "AUTO_WITHDRAW"}
Keys == Kinds \X Principals

\* circle with the requests ks submitted, each at most once.
Submitted(ks) == [k \in Keys |-> IF k \in ks /\ circle[k] = "none"
                                 THEN "sent" ELSE circle[k]]
Completed(kind, p) == circle[<<kind, p>>] = "done"

\* The contract call a request makes from the wallet of p.
Call(kind, p) ==
    \/ kind = "APPROVE" /\ Arc!Approve(p, Stake)
    \/ kind = "CREATE" /\ Arc!CreateRoom(p, RoomId, p, Stake, JoinBy, ResolveBy)
    \/ kind = "JOIN" /\ Arc!JoinRoom(p, RoomId, p)
    \/ kind = "CANCEL" /\ Arc!CancelRoom(p, RoomId)
    \/ kind \in {"REQUEST_CANCEL", "AUTO_CANCEL"} /\ Arc!RequestCancel(p, RoomId)
    \/ kind = "EXPIRE" /\ Arc!ExpireRoom(RoomId)
    \/ kind \in {"WITHDRAW", "AUTO_WITHDRAW"} /\ Arc!Withdraw(p, RoomId)

Executes(kind, p) ==
    /\ circle[<<kind, p>>] = "sent"
    /\ Call(kind, p)
    /\ circle' = [circle EXCEPT ![<<kind, p>>] = "done"]
    /\ UNCHANGED <<store, pool, judge, faults>>

\* The contract would revert the call.
Reverts(kind, p) ==
    \/ kind = "CREATE" /\ now >= JoinBy
    \/ kind = "JOIN" /\ (onArc.state # "OPEN" \/ now >= JoinBy)
    \/ kind = "CANCEL" /\ onArc.state # "OPEN"
    \/ kind \in {"REQUEST_CANCEL", "AUTO_CANCEL"} /\ onArc.state # "JOINED"
    \/ /\ kind = "EXPIRE"
       /\ onArc.state = "OPEN" => now < JoinBy
       /\ onArc.state = "JOINED" => now < ResolveBy
    \/ kind \in {"WITHDRAW", "AUTO_WITHDRAW"} /\ creditOf[RoomId][p] = 0

\* It reverts, or the wallet service gives up on it; the request stays failed.
Fails(kind, p) ==
    /\ circle[<<kind, p>>] = "sent"
    /\ IF Reverts(kind, p) THEN UNCHANGED faults
       ELSE faults < MaxFaults /\ faults' = faults + 1
    /\ circle' = [circle EXCEPT ![<<kind, p>>] = "failed"]
    /\ UNCHANGED <<chain, now, store, pool, judge>>

\* An operator transaction whose sender stopped waiting is mined after all.
Lands ==
    /\ \/ "expire" \in pool /\ Arc!ExpireRoom(RoomId)
          /\ pool' = pool \ {"expire"}
       \/ "settle" \in pool /\ Arc!Settle(Operator, RoomId, settleIntent.winner)
          /\ pool' = pool \ {"settle"}
    /\ UNCHANGED <<store, circle, judge, faults>>

Passes ==
    /\ Arc!Tick
    /\ UNCHANGED <<store, circle, pool, judge, faults>>

StoreInit ==
    /\ Arc!Init
    /\ row = NoRow
    /\ joinIntent = None
    /\ settleIntent = NoIntent
    /\ refundIntent = NoIntent
    /\ progress = NoProgress
    /\ lease = NoLease
    /\ circle = [k \in Keys |-> "none"]
    /\ pool = {}
    /\ judge = [a \in Attempts |-> "idle"]
    /\ faults = 0

StoreTypeOK ==
    /\ Arc!TypeOK
    /\ row \in Row
    /\ joinIntent \in Challengers \cup {None}
    /\ settleIntent \in SettleIntent \cup {NoIntent}
    /\ refundIntent \in RefundIntent \cup {NoIntent}
    /\ progress \in Progress
    /\ circle \in [Keys -> {"none", "sent", "done", "failed"}]
    /\ pool \subseteq {"expire", "settle"}
    /\ judge \in [Attempts -> {"idle", "pending", "A_WIN", "B_WIN", "TIE",
                               "NO_CONSENSUS"}]
    /\ faults \in 0..MaxFaults

=============================================================================
