----------------------------- MODULE MCOperations ------------------------------
(* Small instances of the work behind a tournament for TLC, in one run.  A      *)
(* behaviour is one scenario of one of them; the other stays as it begins.      *)
(*   TournamentPlay: two daily tournaments, one by hand, one request            *)
(*     days      from the first day, with a fault                               *)
(*     asked     from the second day, with a request                            *)
(*     both      from the second day, with a fault and a request                *)
(*   Settlement: two payees, two sends of each payout                           *)
(*     alone     one worker process, a fault                                    *)
(*     together  two worker processes, a fault, four transactions               *)
(*     paying    one worker process once Arc has settled, with two faults, as   *)
(*               many as a payout has sends, and a winner who withdraws         *)
(*   Concurrency                                                                *)
(*     lanes     four calls, three of them of one signer, and two slots         *)
(* Liveness is asked of days, asked, alone and paying; safety of all.           *)
EXTENDS TournamentPlay, Settlement, Concurrency

CONSTANTS daily, request, p1, p2, none, s1, s2
VARIABLE instance

TwoDays == {1, 2}
ByHand == {0}
OneRequest == {request}
TwoProcesses == {p1, p2}
TwoPayees == {"winner", "fee"}
FourCalls == 1..4
TwoSigners == {s1, s2}
SignerOf == <<s1, s1, s2, s1>>

Playing == instance \in {"days", "asked", "both"}

\* Init, with the budgets partly spent.
PlayInit ==
    /\ row = [t \in Tournaments |-> Absent]
    /\ lease = {} /\ intents = {}
    /\ retries = [t \in Tournaments |-> 0]
    /\ local = [h \in Handlers |-> Idle]
    /\ arc = [t \in Tournaments |-> [state |-> "ABSENT", entrants |-> 0]]
    /\ bound = [t \in Tournaments |-> 0]
    /\ final = {}
    /\ now = IF instance = "days" THEN 0 ELSE 1
    /\ asked = IF instance = "days" THEN 1 ELSE 0
    /\ faults = IF instance = "asked" THEN 1 ELSE 0

\* Work without the settlement.
Pay(p) == RunPayouts(p) \/ VisitPayee(p) \/ SendTransaction(p) \/ ReadReceipt(p) \/ Confirm(p)
Faulty(p) == FailedSend(p) \/ FailedRead(p) \/ ProcessEnds(p)

\* SettlementNext with fewer processes or actions.  The processes are alike, so of two
\* the one with the fault is p1.
Outside == (\E i \in 1..Len(txs) : Mine(i)) \/ (\E op \in Locks : LeaseEnds(op))
AloneNext == Outside \/ Work(p1) \/ Faulty(p1)
TogetherNext == Outside \/ (\E p \in Processes : Work(p)) \/ Faulty(p1)
PayingNext == Outside \/ Pay(p1) \/ Faulty(p1) \/ Withdraw("winner")
LivePay == instance \in {"alone", "paying"}

\* SettlementInit, or the settlement sent, mined and reconciled.
PayingInit ==
    /\ record = [o \in Ops |-> IF o = "settle" THEN [state |-> "COMPLETE", attempts |-> 0, tx |-> 1]
                              ELSE NoRecord]
    /\ held = [o \in Locks |-> Nobody]
    /\ worker = [p \in Processes |-> IdleProcess]
    /\ txs = <<[op |-> "settle", status |-> "SUCCESS"]>>
    /\ settled = TRUE /\ owed = Payees /\ closed = FALSE
    /\ failures = 0

MCInit ==
    /\ instance \in {"days", "asked", "both", "alone", "together", "paying", "lanes"}
    /\ PlayInit /\ ConcurrencyInit
    /\ IF instance = "paying" THEN PayingInit ELSE SettlementInit

MCNext ==
    /\ \/ Playing /\ Next /\ UNCHANGED <<settlementVars, concurrencyVars>>
       \/ /\ \/ instance = "alone" /\ AloneNext
             \/ instance = "together" /\ TogetherNext
             \/ instance = "paying" /\ PayingNext
          /\ UNCHANGED <<vars, concurrencyVars>>
       \/ instance = "lanes" /\ ConcurrencyNext /\ UNCHANGED <<vars, settlementVars>>
    /\ instance # "paying" => failures' <= 1
    /\ instance = "together" => Len(txs') <= 4
    /\ UNCHANGED instance

\* Fairness and SettlementFairness, of the scenarios liveness is asked of, and no stronger:
\* of transactions and leases together what SettlementFairness says of each.
LivePlay == instance \in {"days", "asked"}
MCFairness ==
    /\ WF_vars(LivePlay /\ Tick) /\ WF_vars(LivePlay /\ Wake) /\ WF_vars(LivePlay /\ Plan)
    /\ \A h \in Handlers : WF_vars(LivePlay /\ Step(h))
    /\ \A t \in Tournaments : WF_vars(LivePlay /\ Lapse(t))
    /\ WF_settlementVars(LivePay /\ \E i \in 1..Len(txs) : Mine(i))
    /\ WF_settlementVars(instance = "alone" /\ Work(p1))
    /\ WF_settlementVars(instance = "paying" /\ Pay(p1))
    /\ SF_settlementVars(LivePay /\ RunPayouts(p1))
    /\ WF_settlementVars(LivePay /\ \E op \in Locks : LeaseEnds(op))

MCSpec == MCInit /\ [][MCNext]_<<instance, vars, settlementVars, concurrencyVars>> /\ MCFairness

MCDailyEnds == LivePlay => DailyEnds
MCEveryoneIsPaid == LivePay => EveryoneIsPaid
=============================================================================
