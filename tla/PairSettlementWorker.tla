------------------------- MODULE PairSettlementWorker -------------------------
(***************************************************************************)
(* The settlement worker of src/services/api/src/pair-settlement.ts, with  *)
(* the live ports of pair-settlement-live.ts.  A tick lists the rows and,  *)
(* for each live one, claims the room's lease and makes progress on the    *)
(* row as it was listed; ticks overlap.  A thrown error is classified and  *)
(* deferred, and the lease is released either way.                         *)
(***************************************************************************)
EXTENDS PairStore

CONSTANTS Workers,         \* ticks in progress at the same time
          LeaseTime,       \* the six minutes a lease lasts
          RetryDelay,      \* 600 s, times the failures
          RefundDelay,     \* 30 s, times the failures
          RetryBudget,     \* RETRY_BUDGET
          MaxRetries       \* MAX_NO_CONSENSUS_RETRIES

ASSUME WorkerAssumption ==
    /\ None \notin Workers
    /\ LeaseTime \in Nat /\ RetryDelay \in Nat /\ RefundDelay \in Nat
    /\ RetryBudget \in Nat /\ MaxRetries \in Nat

VARIABLE work              \* what each tick is doing with the room

Resting == [at |-> "resting"]
Working(at, copy, seen) == [at |-> at, copy |-> copy, seen |-> seen]
TickStops == {"look", "expire", "expired", "judge", "poll", "refund",
              "refund2", "deliver", "settle", "settled"}
Works == [at : TickStops,
          copy : Row, seen : Progress]

Busy(w, at) == work[w] # Resting /\ work[w].at = at
Moves(w, at) == work' = [work EXCEPT ![w].at = at]
Released(w) == lease' = IF lease.owner = w THEN NoLease ELSE lease
Rests(w) == work' = [work EXCEPT ![w] = Resting] /\ Released(w)

Least(a, b) == IF a < b THEN a ELSE b

HandlersFixed == UNCHANGED joinIntent
OutsideFixed == UNCHANGED <<chain, now, pool, faults>> /\ HandlersFixed
Unjudged == UNCHANGED <<settleIntent, refundIntent, circle, judge>>

-----------------------------------------------------------------------------
(* Ends of a tick. *)

\* completeProgress
Completes(tx) ==
    progress' = [progress EXCEPT !.phase = "COMPLETE", !.nextAt = 0,
                     !.verdictTx = IF tx = 0 THEN @ ELSE tx]

\* deferPhase('ARC_SETTLEMENT'), which reads the stored row afresh.  Failures
\* past the budget act alike, so the model stops counting one past it.
Defers(w, code) ==
    LET n == Least(progress.arcFailures + 1, RetryBudget + 1)
        next == now + RetryDelay * Least(RetryBudget, n)
    IN  /\ progress' = [progress EXCEPT
               !.phase = IF n >= RetryBudget THEN "RECOVERY_REQUIRED"
                                             ELSE "ARC_SETTLEMENT",
               !.arcFailures = n, !.nextAt = next]
        /\ row' = [row EXCEPT !.stage = "RETRYING", !.failure = code,
                              !.attempts = n]
        /\ Rests(w)

\* Mutant of Terminal: its last two arguments swapped.
TerminalSwapped(copy, state, failure) ==
    [copy EXCEPT !.state = failure, !.stage = "COMPLETE", !.failure = state,
                 !.attempts = 0]

\* The record of a room that Arc has decided.
Terminal(copy, state, failure) ==
    [copy EXCEPT !.state = state, !.stage = "COMPLETE", !.failure = failure,
                 !.attempts = 0]

RecordsRefund(w, failure, tx) ==
    /\ row' = [Terminal(work[w].copy, "REFUNDABLE", failure) EXCEPT
                  !.verdictTx = IF tx = 0 THEN @ ELSE tx]
    /\ Completes(tx)
    /\ Rests(w)

-----------------------------------------------------------------------------
(* The tick: list, claim, read Arc. *)

\* Mutant of Claim: only a released lease can be claimed, not an expired one.
ClaimReleased(w) ==
    /\ work[w] = Resting
    /\ row.state \in {"OPEN", "JOINING", "JOINED"}
    /\ lease = NoLease
    /\ lease' = [owner |-> w, until |-> Least(now + LeaseTime, Horizon)]
    /\ work' = [work EXCEPT ![w] = Working("look", row, progress)]
    /\ UNCHANGED <<row, progress>> /\ Unjudged /\ OutsideFixed

\* Once the clock has stopped at Horizon a lease runs out at once.
Claim(w) ==
    /\ work[w] = Resting
    /\ row.state \in {"OPEN", "JOINING", "JOINED"}
    /\ now >= lease.until
    /\ lease' = [owner |-> w, until |-> Least(now + LeaseTime, Horizon)]
    /\ work' = [work EXCEPT ![w] = Working("look", row, progress)]
    /\ UNCHANGED <<row, progress>> /\ Unjudged /\ OutsideFixed

Looks(w) == Busy(w, "look") /\ OutsideFixed

\* requireBinding; the creator's half holds for every room the API created.
Bound(copy) ==
    copy.state = "JOINED" \/ (copy.state = "JOINING" /\ onArc.state = "JOINED")
        => copy.challenger = onArc.challenger /\ (copy.state = "JOINED" => copy.joinTx)

Undecided(copy) == Bound(copy) /\ onArc.state \in {"OPEN", "JOINED"}

RecordSettled(w) ==
    /\ Looks(w) /\ Bound(work[w].copy)
    /\ onArc.state = "SETTLED"
    /\ settleIntent # NoIntent => onArc.winner = settleIntent.winner
    /\ row' = LET done == Terminal(work[w].copy, "SETTLED", "NONE")
              IN  IF settleIntent = NoIntent THEN done
                  ELSE [done EXCEPT !.verdictTx = settleIntent.attempt,
                                    !.verdictAttempt = settleIntent.attempt]
    /\ Completes(IF settleIntent = NoIntent THEN 0 ELSE settleIntent.attempt)
    /\ Rests(w) /\ Unjudged

RecordRefunded(w) ==
    /\ Looks(w) /\ Bound(work[w].copy)
    /\ onArc.state = "REFUNDABLE"
    /\ RecordsRefund(w, IF refundIntent = NoIntent THEN "NONE"
                        ELSE refundIntent.failure, 0)
    /\ Unjudged

\* A JOINING row: the join is confirmed, still unknown, or out of time.
FollowJoin(w) ==
    LET copy == work[w].copy
    IN  /\ Looks(w) /\ Undecided(copy) /\ copy.state = "JOINING"
        /\ IF onArc.state = "OPEN" /\ now >= JoinBy
           THEN Moves(w, "expire") /\ UNCHANGED <<row, lease>>
           ELSE /\ row' = IF onArc.state = "JOINED" /\ copy.joinTx
                          THEN [copy EXCEPT !.state = "JOINED",
                                   !.stage = "QUEUED", !.failure = "NONE",
                                   !.attempts = 0]
                          ELSE row
                /\ Rests(w)
        /\ UNCHANGED progress /\ Unjudged

Agrees(copy) ==
    \/ copy.state = "OPEN" /\ onArc.state = "OPEN"
    \/ copy.state = "JOINED" /\ onArc.state = "JOINED"

Contradicts(copy) ==
    \/ ~Bound(copy)
    \/ copy.state # "JOINING" /\ Undecided(copy) /\ ~Agrees(copy)
    \/ /\ onArc.state = "SETTLED" /\ settleIntent # NoIntent
       /\ onArc.winner # settleIntent.winner

\* A record and a contract that contradict each other: the tick throws.
Disagree(w) ==
    /\ Looks(w) /\ Contradicts(work[w].copy)
    /\ Defers(w, "ARC_ERROR") /\ Unjudged

Due(copy) == now >= IF copy.state = "OPEN" THEN JoinBy ELSE ResolveBy

ExpireDue(w) ==
    /\ Looks(w) /\ Undecided(work[w].copy) /\ Agrees(work[w].copy)
    /\ Due(work[w].copy)
    /\ Moves(w, "expire")
    /\ UNCHANGED <<row, progress, lease>> /\ Unjudged

WaitForChallenger(w) ==
    /\ Looks(w) /\ Undecided(work[w].copy) /\ Agrees(work[w].copy)
    /\ work[w].copy.state = "OPEN" /\ ~Due(work[w].copy)
    /\ Rests(w)
    /\ UNCHANGED <<row, progress>> /\ Unjudged

\* A joined room before its deadline, in the order the code decides.
Playing(w) ==
    /\ Looks(w) /\ Undecided(work[w].copy) /\ Agrees(work[w].copy)
    /\ work[w].copy.state = "JOINED" /\ ~Due(work[w].copy)

RetryDue == now >= progress.nextAt

\* attemptRefund up to its first await: the creator's cancellation is sent.
StartsRefund(w, intent) ==
    /\ row' = [work[w].copy EXCEPT
                  !.stage = "REFUNDING", !.failure = intent.failure,
                  !.verdictTx = IF intent.verdictTx = 0 THEN @
                                ELSE intent.verdictTx]
    /\ circle' = Submitted({<<"AUTO_CANCEL", Creator>>})
    /\ Moves(w, "refund")
    /\ UNCHANGED lease

\* queueRefund: the first refund intent stands; another one throws.
QueuesRefund(w, failure, tx) ==
    LET intent == [failure |-> failure, verdictTx |-> tx]
    IN  IF refundIntent \in {NoIntent, intent}
        THEN /\ refundIntent' = intent
             /\ progress' = [progress EXCEPT
                    !.phase = "ARC_SETTLEMENT", !.nextAt = 0,
                    !.verdictTx = IF tx = 0 THEN @ ELSE tx]
             /\ StartsRefund(w, intent)
        ELSE Defers(w, "ARC_ERROR") /\ UNCHANGED <<refundIntent, circle>>

RetryRefund(w) ==
    /\ Playing(w) /\ refundIntent # NoIntent
    /\ IF RetryDue
       THEN StartsRefund(w, refundIntent)
       ELSE Rests(w) /\ UNCHANGED <<row, circle>>
    /\ UNCHANGED <<progress, settleIntent, refundIntent, judge>>

\* Mutant of Immediate: a failed Arc call refunds as well.
ImmediateArc == {"PROVIDER_ERROR", "GENLAYER_BUSY", "GENLAYER_ERROR", "ARC_ERROR"}

Immediate == {"PROVIDER_ERROR", "GENLAYER_BUSY", "GENLAYER_ERROR"}

\* A recorded failure of these kinds refunds the room, before the settlement
\* intent is looked at.
RefundRecordedFailure(w) ==
    /\ Playing(w) /\ refundIntent = NoIntent
    /\ work[w].copy.failure \in Immediate
    /\ QueuesRefund(w, work[w].copy.failure, work[w].copy.verdictTx)
    /\ UNCHANGED <<settleIntent, judge>>

Evaluating(w) ==
    /\ Playing(w) /\ refundIntent = NoIntent
    /\ work[w].copy.failure \notin Immediate

Waits(w) ==
    /\ Evaluating(w)
    /\ progress.phase = "RECOVERY_REQUIRED" \/ ~RetryDue
    /\ IF settleIntent = NoIntent /\ progress.phase = "RECOVERY_REQUIRED"
          /\ work[w].copy.failure = "NONE"
       THEN \E code \in ErrorCodes :
                row' = [work[w].copy EXCEPT !.failure = code]
       ELSE UNCHANGED row
    /\ Rests(w)
    /\ UNCHANGED progress /\ Unjudged

Attempt(copy) == Least(copy.attempts + 1, Scenarios)

\* The agents still have to answer unless the attempt is already submitted.
StartJudging(w) ==
    /\ Evaluating(w) /\ settleIntent = NoIntent
    /\ progress.phase # "RECOVERY_REQUIRED" /\ RetryDue
    /\ row' = [work[w].copy EXCEPT !.stage = "RUNNING_AGENTS", !.failure = "NONE"]
    /\ work' = [work EXCEPT ![w] =
                    Working(IF judge[Attempt(@.copy)] = "idle"
                            THEN "judge" ELSE "poll", @.copy, progress)]
    /\ UNCHANGED <<progress, lease>> /\ Unjudged

\* The step from the settlement intent to the operator's settle transaction.
StartsSettling(w, intent) ==
    /\ row' = [work[w].copy EXCEPT !.stage = "SETTLING", !.failure = "NONE",
                                   !.verdictTx = intent.attempt]
    /\ Moves(w, "settle")
    /\ UNCHANGED lease

ResumeSettling(w) ==
    /\ Evaluating(w) /\ settleIntent # NoIntent
    /\ progress.phase # "RECOVERY_REQUIRED" /\ RetryDue
    /\ StartsSettling(w, settleIntent)
    /\ UNCHANGED progress /\ Unjudged

-----------------------------------------------------------------------------
(* LivePairOutcome.resolve: both agents answer, the answers are judged.     *)

Judging(w) == (Busy(w, "judge") \/ Busy(w, "poll")) /\ OutsideFixed

\* Mutant of Judges: a verdict is taken before it is final, so another tick may
\* read a different one.
JudgesUnfinalized(w, verdict) ==
    judge' = [judge EXCEPT ![Attempt(work[w].copy)] = verdict]

\* A finalized verdict never changes; every poll of the attempt reads it.
Judges(w, verdict) ==
    LET a == Attempt(work[w].copy)
    IN  /\ judge[a] \in {"idle", "pending", verdict}
        /\ judge' = [judge EXCEPT ![a] = verdict]

\* A provider or the submission failed: this tick knows no transaction.
FailEarly(w) ==
    /\ Busy(w, "judge") /\ OutsideFixed
    /\ \E code \in Immediate : QueuesRefund(w, code, work[w].seen.verdictTx)
    /\ UNCHANGED <<settleIntent, judge>>

\* The poll failed, whatever GenLayer has decided by then.
FailAfterSubmission(w) ==
    /\ Judging(w)
    /\ judge' = [judge EXCEPT ![Attempt(work[w].copy)] =
                     IF @ = "idle" THEN "pending" ELSE @]
    /\ \E code \in Immediate \ {"PROVIDER_ERROR"} :
           QueuesRefund(w, code, Attempt(work[w].copy))
    /\ UNCHANGED settleIntent

Pend(w) ==
    LET a == Attempt(work[w].copy)
    IN  /\ Judging(w) /\ Judges(w, "pending")
        /\ progress' = [work[w].seen EXCEPT !.phase = "GENLAYER_FINALITY",
                                            !.nextAt = 0, !.verdictTx = a]
        /\ row' = [work[w].copy EXCEPT !.stage = "WAITING_VERDICT",
                          !.failure = "VERDICT_PENDING", !.verdictTx = a]
        /\ Rests(w)
        /\ UNCHANGED <<settleIntent, refundIntent, circle>>

\* Another attempt with the next scenario, MaxRetries times.
NoConsensus(w) ==
    LET copy == work[w].copy
        completed == copy.attempts + 1
    IN  /\ Judging(w) /\ Judges(w, "NO_CONSENSUS")
        /\ IF completed <= MaxRetries
           THEN /\ progress' = [progress EXCEPT !.phase = "PROVIDER",
                                     !.nextAt = now, !.verdictTx = 0]
                /\ row' = [copy EXCEPT !.stage = "RETRYING",
                               !.failure = "GENLAYER_NO_CONSENSUS",
                               !.attempts = completed,
                               !.verdictTx = Attempt(copy)]
                /\ Rests(w)
                /\ UNCHANGED <<refundIntent, circle>>
           ELSE QueuesRefund(w, "GENLAYER_NO_CONSENSUS", Attempt(copy))
        /\ UNCHANGED settleIntent

Tie(w) ==
    /\ Judging(w) /\ Judges(w, "TIE")
    /\ QueuesRefund(w, "NONE", Attempt(work[w].copy))
    /\ UNCHANGED settleIntent

\* putIfAbsent: the first settlement intent stands.
Win(w) ==
    LET copy == work[w].copy
        intent(winner) == IF settleIntent # NoIntent THEN settleIntent
                          ELSE [winner |-> winner, attempt |-> Attempt(copy)]
    IN  /\ Judging(w)
        /\ \/ Judges(w, "A_WIN") /\ settleIntent' = intent(Creator)
           \/ Judges(w, "B_WIN") /\ settleIntent' = intent(copy.challenger)
        /\ progress' = [work[w].seen EXCEPT !.phase = "ARC_SETTLEMENT",
                            !.nextAt = 0, !.verdictTx = settleIntent'.attempt]
        /\ StartsSettling(w, settleIntent')
        /\ UNCHANGED <<refundIntent, circle>>

-----------------------------------------------------------------------------
(* The operator's transactions and their readback. *)

OperatorFixed == UNCHANGED <<row, progress, lease, pool, faults>> /\ HandlersFixed /\ Unjudged

Expire(w) ==
    /\ Busy(w, "expire")
    /\ Arc!ExpireRoom(RoomId)
    /\ Moves(w, "expired")
    /\ OperatorFixed

Settle(w) ==
    /\ Busy(w, "settle")
    /\ Arc!Settle(Operator, RoomId, settleIntent.winner)
    /\ Moves(w, "settled")
    /\ OperatorFixed

RecordExpired(w) ==
    /\ Busy(w, "expired") /\ onArc.state = "REFUNDABLE"
    /\ RecordsRefund(w, "NONE", 0)
    /\ Unjudged /\ OutsideFixed

RecordWinner(w) ==
    LET a == settleIntent.attempt
    IN  /\ Busy(w, "settled")
        /\ onArc.state = "SETTLED" /\ onArc.winner = settleIntent.winner
        /\ row' = [Terminal(work[w].copy, "SETTLED", "NONE") EXCEPT
                       !.verdictTx = a, !.verdictAttempt = a]
        /\ Completes(a)
        /\ Rests(w)
        /\ Unjudged /\ OutsideFixed

\* The simulation before the send finds that the contract would revert.
Rejected(w) ==
    /\ \/ Busy(w, "expire") /\ onArc.state \notin {"OPEN", "JOINED"}
       \/ /\ Busy(w, "settle")
          /\ onArc.state # "JOINED" \/ now >= onArc.resolutionDeadline
    /\ Defers(w, "ARC_ERROR")
    /\ Unjudged /\ OutsideFixed

-----------------------------------------------------------------------------
(* LivePairAutomaticRefund.refund through both managed wallets.             *)

RefundFixed == UNCHANGED <<settleIntent, refundIntent, judge>> /\ OutsideFixed

CancelForChallenger(w) ==
    /\ Busy(w, "refund") /\ Completed("AUTO_CANCEL", Creator)
    /\ circle' = Submitted({<<"AUTO_CANCEL", work[w].copy.challenger>>})
    /\ Moves(w, "refund2")
    /\ UNCHANGED <<row, progress, lease>> /\ RefundFixed

Depositors(w) == {Creator, work[w].copy.challenger}

Deliver(w) ==
    /\ Busy(w, "refund2")
    /\ Completed("AUTO_CANCEL", work[w].copy.challenger)
    /\ circle' = Submitted({"AUTO_WITHDRAW"} \X Depositors(w))
    /\ Moves(w, "deliver")
    /\ UNCHANGED <<row, progress, lease>> /\ RefundFixed

\* Both deliveries ended, one way or the other.
RecordRefund(w) ==
    /\ Busy(w, "deliver")
    /\ \A p \in Depositors(w) : circle[<<"AUTO_WITHDRAW", p>>] # "sent"
    /\ onArc.state = "REFUNDABLE"
    /\ RecordsRefund(w, refundIntent.failure, refundIntent.verdictTx)
    /\ UNCHANGED circle /\ RefundFixed

\* The catch of attemptRefund: try again later, never RECOVERY_REQUIRED.
DefersRefund(w) ==
    LET n == Least(progress.arcFailures + 1, RetryBudget + 1)
        next == now + RefundDelay * n
    IN  /\ progress' = [progress EXCEPT !.phase = "ARC_SETTLEMENT",
                                        !.arcFailures = n, !.nextAt = next]
        /\ row' = [work[w].copy EXCEPT
                      !.stage = "REFUNDING", !.failure = "ARC_ERROR",
                      !.attempts = n,
                      !.verdictTx = IF refundIntent.verdictTx = 0 THEN @
                                    ELSE refundIntent.verdictTx]
        /\ Rests(w)
        /\ UNCHANGED <<circle, settleIntent, refundIntent, judge>>

RefundRefused(w) ==
    /\ \/ Busy(w, "refund") /\ circle[<<"AUTO_CANCEL", Creator>>] = "failed"
       \/ /\ Busy(w, "refund2")
          /\ circle[<<"AUTO_CANCEL", work[w].copy.challenger>>] = "failed"
       \/ /\ Busy(w, "deliver") /\ onArc.state # "REFUNDABLE"
          /\ \A p \in Depositors(w) : circle[<<"AUTO_WITHDRAW", p>>] # "sent"
    /\ DefersRefund(w) /\ OutsideFixed

-----------------------------------------------------------------------------
(* An Arc or wallet call fails or its answer is lost.  An operator          *)
(* transaction may have been sent by then, and may still be mined.          *)

InFlight(w) == IF Busy(w, "expire") THEN {"expire"}
               ELSE IF Busy(w, "settle") THEN {"settle"} ELSE {}

CallFails(w) ==
    /\ faults < MaxFaults
    /\ faults' = faults + 1
    /\ \/ /\ work[w] # Resting
          /\ work[w].at \in {"look", "expire", "expired", "settle", "settled"}
          /\ \E code \in ErrorCodes : Defers(w, code)
          /\ \E sent \in SUBSET InFlight(w) : pool' = pool \cup sent
          /\ Unjudged
       \/ /\ work[w] # Resting
          /\ work[w].at \in {"refund", "refund2", "deliver"}
          /\ DefersRefund(w) /\ UNCHANGED pool
    /\ UNCHANGED <<chain, now>> /\ HandlersFixed

Progresses(w) ==
    \/ Claim(w)
    \/ RecordSettled(w) \/ RecordRefunded(w) \/ FollowJoin(w) \/ Disagree(w)
    \/ ExpireDue(w) \/ WaitForChallenger(w)
    \/ RetryRefund(w) \/ RefundRecordedFailure(w) \/ Waits(w)
    \/ StartJudging(w) \/ ResumeSettling(w)
    \/ FailEarly(w) \/ FailAfterSubmission(w) \/ Pend(w) \/ NoConsensus(w)
    \/ Tie(w) \/ Win(w)
    \/ Expire(w) \/ Settle(w) \/ RecordExpired(w) \/ RecordWinner(w)
    \/ Rejected(w)
    \/ CancelForChallenger(w) \/ Deliver(w) \/ RecordRefund(w)
    \/ RefundRefused(w)

WorkInit == work = [w \in Workers |-> Resting]
WorkTypeOK ==
    /\ work \in [Workers -> Works \cup {Resting}]
    /\ lease \in [owner : Workers \cup {None}, until : Nat]

=============================================================================
