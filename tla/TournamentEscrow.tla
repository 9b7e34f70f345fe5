--------------------------- MODULE TournamentEscrow ---------------------------
(***************************************************************************)
(* The tournament prize escrow of src/contracts/arc/TournamentEscrow.sol.  *)
(*                                                                         *)
(* One action per external function; a reverting call is a stuttering      *)
(* step.  The two withdrawals for the caller are the calls for anyone with *)
(* the caller as beneficiary.  The USDC token is external: whoever         *)
(* registers has approved the stake.  Digests are left out.                *)
(***************************************************************************)
EXTENDS Integers, FiniteSets, Functions

CONSTANTS Tournaments,  \* tournament identifiers
          Accounts,     \* wallets that call the contract
          Owner,        \* its deployer, recipient of every platform fee
          Escrow,       \* address(this)
          Entrants,     \* entrant identifiers
          Policies,     \* the policies anyone may propose
          Funds,        \* USDC each account starts with
          RankCount,    \* RANK_COUNT, 5
          LeastEntrants, MostEntrants,   \* 8 and 32
          FeeBps,       \* PLATFORM_FEE_BPS, 1000
          Denominator,  \* BPS_DENOMINATOR, 10000
          Horizon,      \* bound: the last timestamp of a behaviour
          None          \* address(0)

Ranks == 1..RankCount

\* policy.feeRecipient is left out: createTournament accepts the owner only.
Policy == [opensAt : Nat, closesAt : Nat, startsAt : Nat, expiresAt : Nat,
           minEntrants : Nat, maxEntrants : Nat, stake : Nat,
           operator : Accounts \cup {None}, payoutBps : [Ranks -> Nat]]

ASSUME TournamentAssumption ==
    /\ IsFiniteSet(Tournaments) /\ IsFiniteSet(Accounts)
    /\ Owner \in Accounts
    /\ Escrow \notin Accounts
    /\ None \notin Accounts
    /\ Policies \subseteq Policy
    /\ Funds \in Nat
    /\ RankCount \in Nat \ {0}
    /\ LeastEntrants \in Nat /\ MostEntrants \in Nat
    /\ Denominator \in Nat \ {0}
    /\ FeeBps \in 0..Denominator
    /\ Horizon \in Nat

VARIABLES created,      \* the tournaments createTournament made
          tournament,   \* tournaments[id]
          entrant,      \* entrants[id][entrantId]
          entered,      \* walletEntered[id], a set of wallets
          credits,      \* credits[id][wallet]
          refunds,      \* refunds[id], the wallets that claimed theirs
          usdc,         \* external: token balances
          now           \* block.timestamp

vars == <<created, tournament, entrant, entered, credits, refunds, usdc, now>>

-----------------------------------------------------------------------------

State == {"DRAFT", "REGISTRATION_CLOSED", "RUNNING", "SETTLED",
          "CANCELLED_REFUNDABLE", "CLOSED"}

Tournament == [policy : Policy, state : State, entrantCount : Nat,
               totalLockedStakes : Nat, totalLiability : Nat,
               platformFeeCredit : Nat, settlementNonce : Nat]

\* The zero value: in the mapping an identifier nobody created is a DRAFT whose
\* every deadline has passed and whose operator is nobody.
NoPolicy == [opensAt |-> 0, closesAt |-> 0, startsAt |-> 0, expiresAt |-> 0,
             minEntrants |-> 0, maxEntrants |-> 0, stake |-> 0,
             operator |-> None, payoutBps |-> [i \in Ranks |-> 0]]
Draft(policy) == [policy |-> policy, state |-> "DRAFT", entrantCount |-> 0,
                  totalLockedStakes |-> 0, totalLiability |-> 0,
                  platformFeeCredit |-> 0, settlementNonce |-> 0]

\* registered is wallet # None.
Entrant == [wallet : Accounts \cup {None}, ranked : BOOLEAN]
NoEntrant == [wallet |-> None, ranked |-> FALSE]

Init ==
    /\ created = {}
    /\ tournament = [t \in Tournaments |-> Draft(NoPolicy)]
    /\ entrant = [t \in Tournaments |-> [e \in Entrants |-> NoEntrant]]
    /\ entered = [t \in Tournaments |-> {}]
    /\ credits = [t \in Tournaments |-> [a \in Accounts |-> 0]]
    /\ refunds = [t \in Tournaments |-> {}]
    /\ usdc = [a \in Accounts \cup {Escrow} |->
                  IF a = Escrow THEN 0 ELSE Funds]
    /\ now = 0

-----------------------------------------------------------------------------
(* Registration. *)

Valid(p) ==
    /\ p.operator # None
    /\ p.opensAt < p.closesAt /\ p.closesAt <= p.startsAt
    /\ p.startsAt < p.expiresAt
    /\ p.minEntrants >= LeastEntrants /\ p.maxEntrants <= MostEntrants
    /\ p.minEntrants <= p.maxEntrants
    /\ p.stake # 0
    /\ SumFunctionOnSet(p.payoutBps, Ranks) = Denominator

CreateTournament(t, p) ==
    /\ t \notin created
    /\ Valid(p)
    /\ tournament' = [tournament EXCEPT ![t] = Draft(p)]
    /\ created' = created \cup {t}
    /\ UNCHANGED <<entrant, entered, credits, refunds, usdc, now>>

\* Mutant of Register: a wallet may enter again under another entrant id.
RegisterAgain(caller, t, e) ==
    LET policy == tournament[t].policy
    IN  /\ tournament[t].state = "DRAFT"
        /\ policy.opensAt <= now /\ now < policy.closesAt
        /\ tournament[t].entrantCount < policy.maxEntrants
        /\ entrant[t][e].wallet = None
        /\ usdc[caller] >= policy.stake
        /\ usdc' = [usdc EXCEPT ![caller] = @ - policy.stake,
                                ![Escrow] = @ + policy.stake]
        /\ entrant' = [entrant EXCEPT ![t][e] =
                           [wallet |-> caller, ranked |-> FALSE]]
        /\ entered' = [entered EXCEPT ![t] = @ \cup {caller}]
        /\ tournament' = [tournament EXCEPT
                              ![t].entrantCount = @ + 1,
                              ![t].totalLockedStakes = @ + policy.stake]
        /\ UNCHANGED <<created, credits, refunds, now>>

Register(caller, t, e) ==
    LET policy == tournament[t].policy
    IN  /\ tournament[t].state = "DRAFT"
        /\ policy.opensAt <= now /\ now < policy.closesAt
        /\ tournament[t].entrantCount < policy.maxEntrants
        /\ entrant[t][e].wallet = None
        /\ caller \notin entered[t]
        /\ usdc[caller] >= policy.stake
        /\ usdc' = [usdc EXCEPT ![caller] = @ - policy.stake,
                                ![Escrow] = @ + policy.stake]
        /\ entrant' = [entrant EXCEPT ![t][e] =
                           [wallet |-> caller, ranked |-> FALSE]]
        /\ entered' = [entered EXCEPT ![t] = @ \cup {caller}]
        /\ tournament' = [tournament EXCEPT
                              ![t].entrantCount = @ + 1,
                              ![t].totalLockedStakes = @ + policy.stake]
        /\ UNCHANGED <<created, credits, refunds, now>>

CloseRegistration(t) ==
    /\ tournament[t].state = "DRAFT"
    /\ now >= tournament[t].policy.closesAt
    /\ tournament' = [tournament EXCEPT ![t].state = "REGISTRATION_CLOSED"]
    /\ UNCHANGED <<created, entrant, entered, credits, refunds, usdc, now>>

MarkRunning(t) ==
    /\ tournament[t].state = "REGISTRATION_CLOSED"
    /\ now >= tournament[t].policy.startsAt
    /\ tournament[t].entrantCount >= tournament[t].policy.minEntrants
    /\ tournament' = [tournament EXCEPT ![t].state = "RUNNING"]
    /\ UNCHANGED <<created, entrant, entered, credits, refunds, usdc, now>>

-----------------------------------------------------------------------------
(* Refunds. *)

Undecided == {"DRAFT", "REGISTRATION_CLOSED", "RUNNING"}

\* Mutant of MayCancel: expiry alone opens no refunds.
MayCancelShort(t) ==
    /\ tournament[t].entrantCount < tournament[t].policy.minEntrants
    /\ now >= tournament[t].policy.closesAt

MayCancel(t) ==
    LET policy == tournament[t].policy
    IN  \/ /\ tournament[t].entrantCount < policy.minEntrants
           /\ now >= policy.closesAt
        \/ now >= policy.expiresAt

\* From here on the stakes are owed, though no credit names a wallet yet.
CancelAndOpenRefunds(caller, t) ==
    /\ caller = tournament[t].policy.operator
    /\ tournament[t].state \in Undecided
    /\ MayCancel(t)
    /\ tournament' = [tournament EXCEPT
           ![t].state = "CANCELLED_REFUNDABLE",
           ![t].totalLiability = tournament[t].totalLockedStakes,
           ![t].totalLockedStakes = 0]
    /\ UNCHANGED <<created, entrant, entered, credits, refunds, usdc, now>>

\* Mutant of ClaimRefund: claims are not remembered.
ClaimAgain(caller, t, e) ==
    /\ tournament[t].state = "CANCELLED_REFUNDABLE"
    /\ entrant[t][e].wallet = caller
    /\ refunds' = [refunds EXCEPT ![t] = @ \cup {caller}]
    /\ credits' = [credits EXCEPT ![t][caller] = @ + tournament[t].policy.stake]
    /\ UNCHANGED <<created, tournament, entrant, entered, usdc, now>>

\* Mutant of ClaimRefund: any wallet claims for a registered entrant.
ClaimForOther(caller, t, e) ==
    /\ tournament[t].state = "CANCELLED_REFUNDABLE"
    /\ entrant[t][e].wallet # None
    /\ caller \notin refunds[t]
    /\ refunds' = [refunds EXCEPT ![t] = @ \cup {caller}]
    /\ credits' = [credits EXCEPT ![t][caller] = @ + tournament[t].policy.stake]
    /\ UNCHANGED <<created, tournament, entrant, entered, usdc, now>>

ClaimRefund(caller, t, e) ==
    /\ tournament[t].state = "CANCELLED_REFUNDABLE"
    /\ entrant[t][e].wallet = caller
    /\ caller \notin refunds[t]
    /\ refunds' = [refunds EXCEPT ![t] = @ \cup {caller}]
    /\ credits' = [credits EXCEPT ![t][caller] = @ + tournament[t].policy.stake]
    /\ UNCHANGED <<created, tournament, entrant, entered, usdc, now>>

-----------------------------------------------------------------------------
(* Settlement: the fee, the floored share of every rank, and what the       *)
(* flooring leaves over for the first.                                      *)

Fee(pool) == (pool * FeeBps) \div Denominator
Net(pool) == pool - Fee(pool)
Share(pool, payoutBps) ==
    [i \in Ranks |-> (Net(pool) * payoutBps[i]) \div Denominator]
Remainder(pool, payoutBps) ==
    Net(pool) - SumFunctionOnSet(Share(pool, payoutBps), Ranks)

\* Mutant of Award: what the flooring leaves over is credited to nobody.
AwardFloored(a, pool, payoutBps, winner) ==
    SumFunctionOnSet(Share(pool, payoutBps), {i \in Ranks : winner[i] = a})

\* What wallet a is credited when rank i went to wallet winner[i].
Award(a, pool, payoutBps, winner) ==
    SumFunctionOnSet(Share(pool, payoutBps), {i \in Ranks : winner[i] = a})
    + IF winner[1] = a THEN Remainder(pool, payoutBps) ELSE 0

MayRank(t, ranked) ==
    /\ \A i \in Ranks : /\ entrant[t][ranked[i]].wallet # None
                        /\ ~entrant[t][ranked[i]].ranked
    /\ IsInjective(ranked)

SettleByOperator(caller, t, ranked, nonce) ==
    LET pool == tournament[t].totalLockedStakes
        bps == tournament[t].policy.payoutBps
        winner == [i \in Ranks |-> entrant[t][ranked[i]].wallet]
    IN  /\ caller = tournament[t].policy.operator
        /\ tournament[t].state = "RUNNING"
        /\ nonce > tournament[t].settlementNonce
        /\ MayRank(t, ranked)
        /\ entrant' = [entrant EXCEPT ![t] = [e \in Entrants |->
                          IF \E i \in Ranks : ranked[i] = e
                          THEN [@[e] EXCEPT !.ranked = TRUE] ELSE @[e]]]
        /\ credits' = [credits EXCEPT ![t] = [a \in Accounts |->
                          @[a] + Award(a, pool, bps, winner)]]
        /\ tournament' = [tournament EXCEPT
               ![t].state = "SETTLED",
               ![t].platformFeeCredit = Fee(pool),
               ![t].totalLiability = pool,
               ![t].totalLockedStakes = 0,
               ![t].settlementNonce = nonce]
        /\ UNCHANGED <<created, entered, refunds, usdc, now>>

-----------------------------------------------------------------------------
(* Payment and closing. *)

WithdrawCreditFor(t, a) ==
    LET amount == credits[t][a]
    IN  /\ amount > 0
        /\ credits' = [credits EXCEPT ![t][a] = 0]
        /\ tournament' = [tournament EXCEPT ![t].totalLiability = @ - amount]
        /\ usdc' = [usdc EXCEPT ![Escrow] = @ - amount, ![a] = @ + amount]
        /\ UNCHANGED <<created, entrant, entered, refunds, now>>

WithdrawPlatformFeeFor(t) ==
    LET amount == tournament[t].platformFeeCredit
    IN  /\ amount > 0
        /\ tournament' = [tournament EXCEPT ![t].platformFeeCredit = 0,
                                            ![t].totalLiability = @ - amount]
        /\ usdc' = [usdc EXCEPT ![Escrow] = @ - amount, ![Owner] = @ + amount]
        /\ UNCHANGED <<created, entrant, entered, credits, refunds, now>>

CloseTournament(t) ==
    /\ tournament[t].state \in {"SETTLED", "CANCELLED_REFUNDABLE"}
    /\ tournament[t].totalLiability = 0
    /\ tournament[t].totalLockedStakes = 0
    /\ tournament' = [tournament EXCEPT ![t].state = "CLOSED"]
    /\ UNCHANGED <<created, entrant, entered, credits, refunds, usdc, now>>

Tick ==
    /\ now < Horizon
    /\ now' = now + 1
    /\ UNCHANGED <<created, tournament, entrant, entered, credits, refunds, usdc>>

-----------------------------------------------------------------------------

Next ==
    \/ \E t \in Tournaments, p \in Policies : CreateTournament(t, p)
    \/ \E a \in Accounts, t \in Tournaments, e \in Entrants : Register(a, t, e)
    \/ \E t \in Tournaments : CloseRegistration(t)
    \/ \E t \in Tournaments : MarkRunning(t)
    \/ \E a \in Accounts, t \in Tournaments : CancelAndOpenRefunds(a, t)
    \/ \E a \in Accounts, t \in Tournaments, e \in Entrants : ClaimRefund(a, t, e)
    \/ \E a \in Accounts, t \in Tournaments, ranked \in [Ranks -> Entrants] :
          SettleByOperator(a, t, ranked, 1)
    \/ \E t \in Tournaments, a \in Accounts : WithdrawCreditFor(t, a)
    \/ \E t \in Tournaments : WithdrawPlatformFeeFor(t)
    \/ \E t \in Tournaments : CloseTournament(t)
    \/ Tick

Spec == Init /\ [][Next]_vars

\* Blocks arrive; every operator opens refunds once it may (the daily worker's
\* EXPIRE and REFUND); a wallet claims its refund and withdraws its credit.
\* Anyone may send the fee and close an empty tournament: that somebody does is
\* assumed, since AutomaticPayoutWorker does both but the API does not start
\* it.  Nobody has to register, start or settle.
Fairness ==
    /\ WF_vars(Tick)
    /\ \A t \in Tournaments :
          /\ WF_vars(\E a \in Accounts : CancelAndOpenRefunds(a, t))
          /\ \A a \in Accounts, e \in Entrants : WF_vars(ClaimRefund(a, t, e))
          /\ \A a \in Accounts : WF_vars(WithdrawCreditFor(t, a))
          /\ WF_vars(WithdrawPlatformFeeFor(t))
          /\ WF_vars(CloseTournament(t))

FairSpec == Spec /\ Fairness

-----------------------------------------------------------------------------
(* Properties. *)

TypeOK ==
    /\ created \subseteq Tournaments
    /\ tournament \in [Tournaments -> Tournament]
    /\ entrant \in [Tournaments -> [Entrants -> Entrant]]
    /\ entered \in [Tournaments -> SUBSET Accounts]
    /\ credits \in [Tournaments -> [Accounts -> Nat]]
    /\ refunds \in [Tournaments -> SUBSET Accounts]
    /\ usdc \in [Accounts \cup {Escrow} -> Nat]
    /\ now \in Nat

Decided(t) == tournament[t].state \notin Undecided

\* Refunds of a cancelled tournament that nobody has claimed yet.
Unclaimed(t) ==
    IF tournament[t].state = "CANCELLED_REFUNDABLE"
    THEN tournament[t].policy.stake * Cardinality(entered[t] \ refunds[t])
    ELSE 0

Held(t) == tournament[t].totalLockedStakes + tournament[t].totalLiability

\* The contract holds exactly what its tournaments hold, and what a tournament
\* owes is exactly its fee, its credits and its unclaimed refunds: no rounding
\* of shares, order of claims or mixture of tournaments loses or mints a unit.
BooksBalance ==
    /\ usdc[Escrow] = SumFunctionOnSet([t \in Tournaments |-> Held(t)], Tournaments)
    /\ \A t \in Tournaments :
          tournament[t].totalLiability =
              tournament[t].platformFeeCredit
              + SumFunctionOnSet(credits[t], Accounts) + Unclaimed(t)

\* A credit follows from the outcome: in a settled tournament it belongs to the
\* wallet of a ranked entrant, in a cancelled one it is the stake of a
\* registered wallet that claimed it; before a decision and after closing
\* there is none.
CreditsFollowOutcome ==
    \A t \in Tournaments, a \in Accounts : credits[t][a] > 0 =>
        \/ /\ tournament[t].state = "SETTLED"
           /\ \E e \in Entrants : entrant[t][e].ranked /\ entrant[t][e].wallet = a
        \/ /\ tournament[t].state = "CANCELLED_REFUNDABLE"
           /\ a \in entered[t] \cap refunds[t]
           /\ credits[t][a] = tournament[t].policy.stake

\* Closing cuts nobody off: a tournament closes only after every refund was
\* claimed, or with its prizes and fee all paid out.
ClosedOwesNothing ==
    \A t \in Tournaments : tournament[t].state = "CLOSED" =>
        /\ Held(t) = 0 /\ tournament[t].platformFeeCredit = 0
        /\ \A a \in Accounts : credits[t][a] = 0
        /\ tournament[t].settlementNonce = 0 => refunds[t] = entered[t]

\* Settlement and refunds exclude each other for good: after one of them no
\* sequence of calls re-ranks, refunds a settled tournament, settles a
\* cancelled one, lets a wallet in or raises a prize.
DecisionFinal ==
    [][\A t \in Tournaments : Decided(t) =>
          /\ tournament'[t].state \in {tournament[t].state, "CLOSED"}
          /\ tournament'[t].settlementNonce = tournament[t].settlementNonce
          /\ entrant'[t] = entrant[t] /\ entered'[t] = entered[t]
          /\ tournament[t].state # "CANCELLED_REFUNDABLE" =>
                /\ refunds'[t] = refunds[t]
                /\ \A a \in Accounts : credits'[t][a] <= credits[t][a]]_vars

\* No stake is locked for ever: whatever players do, a tournament that was
\* created is in the end paid out or refunded completely and closed.
EveryPoolCloses ==
    \A t \in Tournaments : t \in created ~> tournament[t].state = "CLOSED"

\* The refinement mapping to the pool of module PrizePool.  A refund is owed
\* from the cancellation on, so claiming it is no step of the pool.
StageOf(state) == CASE state \in Undecided -> "open"
                    [] state = "SETTLED" -> "divided"
                    [] state = "CANCELLED_REFUNDABLE" -> "returned"
                    [] state = "CLOSED" -> "closed"
Stage == [t \in Tournaments |->
             IF t \in created THEN StageOf(tournament[t].state) ELSE "none"]
Price == [t \in Tournaments |-> tournament[t].policy.stake]
Owed == [t \in Tournaments |-> [a \in Accounts |->
            credits[t][a]
            + (IF a = Owner THEN tournament[t].platformFeeCredit ELSE 0)
            + (IF /\ tournament[t].state = "CANCELLED_REFUNDABLE"
                  /\ a \in entered[t] \ refunds[t]
               THEN tournament[t].policy.stake ELSE 0)]]
Wallet == [a \in Accounts |-> usdc[a]]

Pool == INSTANCE PrizePool WITH
    Pools <- Tournaments, House <- Owner, stage <- Stage, price <- Price,
    members <- entered, owed <- Owed, wallet <- Wallet

\* Every behaviour of the contract is one of the pool: one stake in from each
\* member, and all of it out once, as prizes and fee or as the stakes.
PoolHonoured == Pool!Spec

=============================================================================
