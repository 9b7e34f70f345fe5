------------------------------ MODULE Evaluation -------------------------------
(***************************************************************************)
(* A paid evaluation of an agent: the fee and the settlement kept by       *)
(* EvaluationExecutionService, the campaign advanced by                    *)
(* SoloEvaluationRunner, and the run of the scenario at hand, whose answer *)
(* EvaluationRunTracker submits to GenLayer.  One API process serves one   *)
(* campaign; it can end at any await and start again.  A step is what the  *)
(* code does between two awaits.                                           *)
(*                                                                         *)
(* Runs of earlier attempts and scenarios are never read again, so only    *)
(* the current one is kept.  The escrow on Arc, the judge contract on      *)
(* GenLayer and the model provider are external.                           *)
(***************************************************************************)
EXTENDS Integers, Sequences

CONSTANTS Scenarios,            \* scenarios of the test pack, 1..32
          MaxProviderAttempts,  \* answers asked of the provider for one scenario, 1..3
          MaxSubmissions,       \* sends of a run to GenLayer, 2
          Requests,             \* requests to start the campaign
          MaxFaults,            \* bound: failed calls and crashes
          MaxSettlements        \* bound: the operator's transactions

ASSUME EvaluationAssumption ==
    /\ Scenarios \in Nat \ {0} /\ MaxProviderAttempts \in Nat \ {0}
    /\ MaxSubmissions \in Nat \ {0}
    /\ MaxFaults \in Nat /\ MaxSettlements \in Nat

VARIABLES fee,       \* 'evaluation-fees-v2': the state of the fee record
          campaign,  \* 'evaluation-campaigns'
          run,       \* 'evaluation-runs': the run of the current scenario
          stale,     \* leases whose owner has ended
          holding,   \* requests awaiting holdEvaluationFee
          task,      \* where the advance under way awaits
          settling,  \* where the settlement under way awaits
          claim,     \* the payer's timeout refund: idle, sent, mined
          payment,   \* external: the payment on Arc; TIMEOUT is REFUNDED by the payer
          due,       \* external: refundDelay has passed since the deposit
          sends,     \* external: the operator's transactions of the payment
          txs,       \* external: transactions of the current run on GenLayer
          judged,    \* external: scenarios with a canonical scorecard
          late,      \* 1 after the replay delay of a lost hash, 2 after the recovery timeout
          faults

records == <<fee, campaign, run, stale>>
arc == <<payment, due, sends>>
genlayer == <<txs, judged, late>>
callers == <<holding, claim>>
evaluationVars == <<records, callers, task, settling, arc, genlayer, faults>>

-----------------------------------------------------------------------------

FeeState == {"NONE", "PENDING", "HELD", "RELEASED", "REFUNDED", "PAYMENT_FAILED",
             "SETTLEMENT_FAILED"}
Terminal == {"FINALIZED", "FAILED", "RECOVERY_REQUIRED"}
\* scenario is the first one that is not FINALIZED; open says that it has a run.
Campaign == [state : {"PENDING", "RUNNING"} \cup Terminal,
             scenario : 1..(Scenarios + 1), attempt : 0..MaxProviderAttempts, open : BOOLEAN]
\* tx is the hash kept by a SUBMITTED judge stage, 0 for none.
Run == [provider : {"PENDING", "SUCCESS", "FAILED"},
        judge : {"NOT_SUBMITTED", "PERSISTED", "SUBMITTED", "FINALIZED", "FAILED",
                 "RECOVERY_REQUIRED"},
        tries : 0..MaxSubmissions, tx : 0..MaxSubmissions]
NewRun == [provider |-> "PENDING", judge |-> "NOT_SUBMITTED", tries |-> 0, tx |-> 0]

EvaluationTypeOK ==
    /\ fee \in FeeState /\ campaign \in Campaign /\ run \in Run
    /\ stale \subseteq {"advance", "submit", "poll"}
    /\ holding \subseteq Requests /\ claim \in {"idle", "sent", "mined"}
    /\ task \in {"idle", "generate", "send", "read", "replay", "reread", "receipt", "verdict"}
    /\ settling \in {"idle", "check", "send", "wait", "recheck"}
    /\ payment \in {"NONE", "HELD", "RELEASED", "REFUNDED", "TIMEOUT"} /\ due \in BOOLEAN
    /\ sends \in Seq({"PENDING", "SUCCESS", "REVERTED"}) /\ Len(sends) <= MaxSettlements
    /\ txs \in Seq({"PENDING", "SUCCESS", "FAILED"}) /\ Len(txs) <= MaxSubmissions
    /\ judged \subseteq 1..Scenarios /\ late \in 0..2 /\ faults \in 0..MaxFaults

EvaluationInit ==
    /\ fee = "NONE"
    /\ campaign = [state |-> "PENDING", scenario |-> 1, attempt |-> 0, open |-> FALSE]
    /\ run = NewRun /\ stale = {}
    /\ holding = {} /\ claim = "idle"
    /\ task = "idle" /\ settling = "idle"
    /\ payment = "NONE" /\ due = FALSE /\ sends = <<>>
    /\ txs = <<>> /\ judged = {} /\ late = 0
    /\ faults = 0

Fault == faults < MaxFaults /\ faults' = faults + 1

-----------------------------------------------------------------------------
(* The escrow on Arc. *)

\* The wallet's deposit, mined while a request waits for it.
Deposit ==
    /\ holding # {} /\ payment = "NONE"
    /\ payment' = "HELD"
    /\ UNCHANGED <<records, callers, task, settling, due, sends, genlayer, faults>>

\* The target of the operator's transaction is fixed by the campaign's end.
Target == IF campaign.state = "FINALIZED" THEN "RELEASED" ELSE "REFUNDED"
MineSettlement(i) ==
    /\ sends[i] = "PENDING"
    /\ sends' = [sends EXCEPT ![i] = IF payment = "HELD" THEN "SUCCESS" ELSE "REVERTED"]
    /\ payment' = IF payment = "HELD" THEN Target ELSE payment
    /\ UNCHANGED <<records, callers, task, settling, due, genlayer, faults>>

DelayPasses ==
    /\ payment = "HELD" /\ ~due /\ due' = TRUE
    /\ UNCHANGED <<records, callers, task, settling, payment, sends, genlayer, faults>>

\* claimTimeoutRefund reverts, and the request fails, unless the payment is held
\* and due.
MineClaim ==
    /\ claim = "sent"
    /\ IF payment = "HELD" /\ due
       THEN payment' = "TIMEOUT" /\ claim' = "mined"
       ELSE UNCHANGED payment /\ claim' = "idle"
    /\ UNCHANGED <<records, holding, task, settling, due, sends, genlayer, faults>>

-----------------------------------------------------------------------------
(* The judge contract on GenLayer: one scorecard per run, whatever is sent   *)
(* twice.  The second transaction of a run may come after its scorecard.     *)

Finalize(i) ==
    /\ txs[i] = "PENDING"
    /\ \/ /\ txs' = [txs EXCEPT ![i] = "SUCCESS"]
          /\ judged' = IF campaign.open THEN judged \cup {campaign.scenario} ELSE judged
       \/ /\ txs' = [txs EXCEPT ![i] = "FAILED"]
          /\ UNCHANGED judged
    /\ UNCHANGED <<records, callers, task, settling, arc, late, faults>>

Clock ==
    /\ run.judge = "PERSISTED" /\ late < 2 /\ late' = late + 1
    /\ UNCHANGED <<records, callers, task, settling, arc, txs, judged, faults>>

-----------------------------------------------------------------------------
(* The fee. *)

\* start: the record is made once, with the idempotency keys of its deposit, and
\* a payment that failed is asked for again under the same keys.
Start(r) ==
    /\ r \notin holding /\ fee \in {"NONE", "PENDING", "PAYMENT_FAILED"}
    /\ fee' = "PENDING" /\ holding' = holding \cup {r}
    /\ UNCHANGED <<campaign, run, stale, claim, task, settling, arc, genlayer, faults>>

\* Mutant of Held: an answer is enough, deposited or not.
HeldUnpaid(r) ==
    /\ r \in holding
    /\ fee' = "HELD" /\ holding' = holding \ {r}
    /\ UNCHANGED <<campaign, run, stale, claim, task, settling, arc, genlayer, faults>>

\* holdEvaluationFee answers: the request writes its own copy of the record back.
Held(r) ==
    /\ r \in holding /\ payment # "NONE"
    /\ fee' = "HELD" /\ holding' = holding \ {r}
    /\ UNCHANGED <<campaign, run, stale, claim, task, settling, arc, genlayer, faults>>

\* It throws, the deposit made or not.
HoldFails(r) ==
    /\ Fault /\ r \in holding
    /\ fee' = "PAYMENT_FAILED" /\ holding' = holding \ {r}
    /\ payment' \in {payment, IF payment = "NONE" THEN "HELD" ELSE payment}
    /\ UNCHANGED <<campaign, run, stale, claim, task, settling, due, sends, genlayer>>

\* The payer's refund after the delay.  The wallet answers a repeated request
\* with the transaction it already made.
Claim ==
    /\ claim = "idle" /\ fee # "NONE"
    /\ claim' = IF payment = "TIMEOUT" THEN "mined" ELSE "sent"
    /\ due /\ fee # "REFUNDED"
    /\ UNCHANGED <<records, holding, task, settling, arc, genlayer, faults>>

\* recordTimeoutRefund
RecordTimeoutRefund ==
    /\ claim = "mined" /\ claim' = "idle"
    /\ fee' = IF fee \in {"HELD", "SETTLEMENT_FAILED"} THEN "REFUNDED" ELSE fee
    /\ UNCHANGED <<campaign, run, stale, holding, task, settling, arc, genlayer, faults>>

\* settle: what an advance that ended with campaign c does about the fee.  A
\* settlement under way is shared; a fee recorded as settled is left alone.
Settle(c) ==
    IF settling = "idle" /\ c.state \in {"FINALIZED", "FAILED"} /\ fee \notin {"RELEASED", "REFUNDED"}
    THEN "check" ELSE settling

\* The settlement reads the payment, sends, waits, and reads again when the
\* transaction reverted or the wait failed.
SettlementEnds(state) ==
    /\ fee' = state /\ settling' = "idle"
    /\ UNCHANGED <<campaign, run, stale>>
Is(target) == payment = target \/ (target = "REFUNDED" /\ payment = "TIMEOUT")

CheckPayment ==
    /\ settling = "check"
    /\ IF payment # "HELD"
       THEN SettlementEnds(IF Is(Target) THEN Target ELSE "SETTLEMENT_FAILED")
       ELSE settling' = "send" /\ UNCHANGED records
    /\ UNCHANGED <<callers, task, arc, genlayer, faults>>
SendSettlement ==
    /\ settling = "send" /\ Len(sends) < MaxSettlements
    /\ sends' = Append(sends, "PENDING") /\ settling' = "wait"
    /\ UNCHANGED <<records, callers, task, payment, due, genlayer, faults>>
WaitSettlement ==
    /\ settling = "wait" /\ sends[Len(sends)] # "PENDING"
    /\ IF sends[Len(sends)] = "SUCCESS" THEN SettlementEnds(Target)
       ELSE settling' = "recheck" /\ UNCHANGED records
    /\ UNCHANGED <<callers, task, arc, genlayer, faults>>
RecheckPayment ==
    /\ settling = "recheck"
    /\ SettlementEnds(IF Is(Target) THEN Target ELSE "SETTLEMENT_FAILED")
    /\ UNCHANGED <<callers, task, arc, genlayer, faults>>
\* A call throws: sending or waiting is followed by the second read, a read is not.
SettlementFails ==
    /\ Fault /\ settling # "idle"
    /\ IF settling \in {"send", "wait"}
       THEN settling' = "recheck" /\ UNCHANGED records
       ELSE SettlementEnds("SETTLEMENT_FAILED")
    /\ \/ UNCHANGED sends
       \/ /\ settling = "send" /\ Len(sends) < MaxSettlements
          /\ sends' = Append(sends, "PENDING")
    /\ UNCHANGED <<callers, task, payment, due, genlayer>>

FeeStep == \/ \E r \in Requests : Held(r)
           \/ RecordTimeoutRefund
           \/ CheckPayment \/ SendSettlement \/ WaitSettlement \/ RecheckPayment

-----------------------------------------------------------------------------
(* The campaign. *)

\* An advance ends with campaign c, and its callers go on to the fee.
End(c) ==
    /\ campaign' = c /\ task' = "idle" /\ settling' = Settle(c)
    /\ UNCHANGED <<fee, stale>>
Ended(state) == [campaign EXCEPT !.state = state]
Await(pc) == task' = pc /\ UNCHANGED <<fee, campaign, stale, settling>>
Outside == <<callers, arc>>

\* poll: the receipt of a known hash, the contract's record when the hash was lost.
\* The lease of a process that ended makes it throw, and the advance ends.
Poll(r) == IF "poll" \in stale THEN End(campaign)
           ELSE Await(IF r.tx = 0 THEN "read" ELSE "receipt")

\* advanceClaimed up to its first await.  A run is made for the scenario or the
\* run at hand is gone on with.
Resume ==
    \/ /\ ~campaign.open
       /\ campaign' = [campaign EXCEPT !.state = "RUNNING", !.attempt = @ + 1, !.open = TRUE]
       /\ run' = NewRun /\ stale' = {} /\ txs' = <<>> /\ late' = 0
       /\ task' = "generate"
       /\ UNCHANGED <<fee, settling, judged>>
    \/ /\ campaign.open /\ run.provider = "PENDING"
       /\ Await("generate") /\ UNCHANGED <<run, txs, judged, late>>
    \/ /\ campaign.open /\ run.provider = "SUCCESS"
       /\ Poll(run) /\ UNCHANGED <<run, txs, judged, late>>

\* advanceOnce: a campaign is advanced by the process that holds its lease.
MayAdvance == "advance" \notin stale

\* advanceSafely.  Whatever the advance throws fails the campaign, and the lease
\* of a process that ended throws.
AdvanceSafely ==
    /\ task = "idle"
    /\ IF campaign.state \in Terminal \/ ~MayAdvance
       THEN /\ campaign.state \notin Terminal \/ Settle(campaign) # settling
            /\ End(IF campaign.state \in Terminal THEN campaign ELSE Ended("FAILED"))
            /\ UNCHANGED <<run, genlayer>>
       ELSE Resume
    /\ UNCHANGED <<Outside, faults>>

\* resumePending, every few seconds.
Unsettled == fee \in {"HELD", "SETTLEMENT_FAILED"} /\ campaign.state # "RECOVERY_REQUIRED"
Tick == Unsettled /\ AdvanceSafely
\* The owner's own request to advance.
Advance == fee \in {"HELD", "RELEASED", "REFUNDED", "SETTLEMENT_FAILED"} /\ AdvanceSafely

MayAskAgain == campaign.attempt < MaxProviderAttempts

\* The provider answers: the answer is stored and the run submitted, its intent
\* stored first.  A failed answer is final for the run; another run may be made.
Generate ==
    /\ task = "generate"
    /\ \/ /\ run' = [run EXCEPT !.provider = "SUCCESS", !.judge = "PERSISTED", !.tries = 1]
          /\ Await("send")
       \/ /\ run' = [run EXCEPT !.provider = "FAILED"]
          /\ End(IF MayAskAgain THEN [campaign EXCEPT !.open = FALSE] ELSE Ended("FAILED"))
    /\ UNCHANGED <<Outside, genlayer, faults>>

-----------------------------------------------------------------------------
(* The run. *)

Submitted == [run EXCEPT !.judge = "SUBMITTED", !.tx = Len(txs) + 1]

\* A send answers with its hash: the first one is polled at once, a replay is
\* followed by the contract's record.
Sent ==
    /\ task \in {"send", "replay"}
    /\ txs' = Append(txs, "PENDING") /\ run' = Submitted
    /\ IF task = "send" THEN Poll(Submitted) ELSE Await("reread")
    /\ UNCHANGED <<Outside, judged, late, faults>>
\* It throws, the transaction sent or not: only the intent is known.
SendFails ==
    /\ Fault /\ task \in {"send", "replay"}
    /\ txs' \in {txs, Append(txs, "PENDING")}
    /\ IF task = "send" THEN Poll(run) ELSE Await("reread")
    /\ UNCHANGED <<run, Outside, judged, late>>

Scored ==
    /\ run' = [run EXCEPT !.judge = "FINALIZED"]
    /\ End([state |-> IF campaign.scenario = Scenarios THEN "FINALIZED" ELSE "RUNNING",
            scenario |-> campaign.scenario + 1, attempt |-> 0, open |-> FALSE])
Known == campaign.scenario \in judged

\* A lost hash nobody can account for needs an operator once the replays are used
\* up and the timeout has passed.
Unresolved ==
    IF run.tries >= MaxSubmissions /\ late = 2
    THEN run' = [run EXCEPT !.judge = "RECOVERY_REQUIRED"] /\ End(Ended("RECOVERY_REQUIRED"))
    ELSE End(campaign) /\ UNCHANGED run

\* readCanonicalResult, and the replay of a submission the contract does not know.
Read ==
    /\ task = "read"
    /\ \/ Known /\ Scored
       \/ /\ ~Known /\ run.tries < MaxSubmissions /\ late > 0
          /\ IF "submit" \in stale THEN Await("reread") /\ UNCHANGED run
             ELSE Await("replay") /\ run' = [run EXCEPT !.tries = @ + 1]
       \/ /\ ~Known /\ ~(run.tries < MaxSubmissions /\ late > 0)
          /\ Unresolved
    /\ UNCHANGED <<Outside, genlayer, faults>>
Reread ==
    /\ task = "reread"
    /\ \/ Known /\ Scored
       \/ ~Known /\ run.tx # 0 /\ Await("receipt") /\ UNCHANGED run
       \/ ~Known /\ run.tx = 0 /\ Unresolved
    /\ UNCHANGED <<Outside, genlayer, faults>>

Accepted(status) == status = "SUCCESS"

Receipt ==
    LET status == txs[run.tx]
    IN  /\ task = "receipt"
        /\ CASE Accepted(status) -> Await("verdict") /\ UNCHANGED run
             [] status = "PENDING" -> End(campaign) /\ UNCHANGED run
             [] OTHER -> /\ run' = [run EXCEPT !.judge = "FAILED"]
                         /\ End(Ended("FAILED"))
        /\ UNCHANGED <<Outside, genlayer, faults>>
Verdict ==
    /\ task = "verdict" /\ Scored
    /\ UNCHANGED <<Outside, genlayer, faults>>
\* A read throws: the advance ends, the campaign goes on.
ReadFails ==
    /\ Fault /\ task \in {"read", "reread", "receipt", "verdict"}
    /\ End(campaign)
    /\ UNCHANGED <<run, Outside, genlayer>>

-----------------------------------------------------------------------------
(* The process ends.  What it awaited may have taken effect; its leases stay *)
(* until they run out.                                                       *)

LeasesOf(pc) ==
    (IF pc = "idle" THEN {} ELSE {"advance"})
    \cup (IF pc \in {"send", "replay"} THEN {"submit"} ELSE {})
    \cup (IF pc \in {"read", "replay", "reread", "receipt", "verdict"} THEN {"poll"} ELSE {})

Crash ==
    /\ Fault /\ (task # "idle" \/ settling # "idle" \/ holding # {})
    /\ task' = "idle" /\ settling' = "idle" /\ holding' = {} /\ claim' = "idle"
    /\ stale' = stale \cup LeasesOf(task)
    /\ payment' \in {payment, IF holding # {} /\ payment = "NONE" THEN "HELD" ELSE payment}
    /\ txs' \in {txs, IF task \in {"send", "replay"} THEN Append(txs, "PENDING") ELSE txs}
    /\ sends' \in {sends, IF settling = "send" /\ Len(sends) < MaxSettlements
                          THEN Append(sends, "PENDING") ELSE sends}
    /\ UNCHANGED <<fee, campaign, run, due, judged, late>>
LeaseEnds(l) ==
    /\ l \in stale /\ stale' = stale \ {l}
    /\ UNCHANGED <<fee, campaign, run, Outside, task, settling, genlayer, faults>>

CampaignStep == Generate \/ Sent \/ Read \/ Reread \/ Receipt \/ Verdict

EvaluationNext ==
    \/ \E r \in Requests : Start(r) \/ HoldFails(r)
    \/ Deposit \/ DelayPasses \/ Claim \/ MineClaim \/ Clock
    \/ \E i \in 1..Len(sends) : MineSettlement(i)
    \/ \E i \in 1..Len(txs) : Finalize(i)
    \/ Tick \/ Advance \/ CampaignStep \/ FeeStep
    \/ SendFails \/ ReadFails \/ SettlementFails \/ Crash
    \/ \E l \in stale : LeaseEnds(l)

EvaluationSpec == EvaluationInit /\ [][EvaluationNext]_evaluationVars

\* The worker's timer, answers of calls, transactions included, leases and delays
\* that run out.  Nobody has to start a campaign or to claim a refund.
EvaluationFairness ==
    /\ WF_evaluationVars(Tick) /\ WF_evaluationVars(CampaignStep) /\ WF_evaluationVars(FeeStep)
    /\ WF_evaluationVars(Clock)
    /\ \A i \in 1..MaxSettlements : WF_evaluationVars(i <= Len(sends) /\ MineSettlement(i))
    /\ \A i \in 1..MaxSubmissions : WF_evaluationVars(i <= Len(txs) /\ Finalize(i))
    /\ \A l \in {"advance", "submit", "poll"} : WF_evaluationVars(LeaseEnds(l))

-----------------------------------------------------------------------------
(* Properties. *)

\* The fee record never runs ahead of Arc: a fee recorded as held was deposited,
\* one recorded as released or refunded was, although requests and settlements
\* write back copies they read before an await.  And Arc pays the platform for a
\* campaign whose every scenario has a canonical scorecard, and the operator refunds
\* only a campaign that failed.
FeeTruthful ==
    /\ fee \in {"HELD", "RELEASED", "REFUNDED", "SETTLEMENT_FAILED"} => payment # "NONE"
    /\ fee = "RELEASED" => payment = "RELEASED"
    /\ fee = "REFUNDED" => payment \in {"REFUNDED", "TIMEOUT"}
    /\ payment = "RELEASED" => campaign.state = "FINALIZED"
    /\ payment = "REFUNDED" => campaign.state = "FAILED"
    /\ campaign.state = "FINALIZED" => judged = 1..Scenarios

\* A fee recorded as held is released or refunded in the end, unless the campaign
\* is left to an operator or a failed second payment hides the first.
HeldFeeSettles ==
    (fee = "HELD") ~> \/ payment \in {"RELEASED", "REFUNDED", "TIMEOUT"}
                     \/ campaign.state = "RECOVERY_REQUIRED"
                     \/ fee = "PAYMENT_FAILED"

=============================================================================
