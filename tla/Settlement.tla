------------------------------ MODULE Settlement -------------------------------
(***************************************************************************)
(* The settlement worker and the automatic payouts of                      *)
(* src/packages/settlement: a record per operation beside the transactions *)
(* it sends to Arc, kept by worker processes that share a database.        *)
(*                                                                         *)
(* An operation is the settlement, the payout of one payee (a winner, or   *)
(* the platform fee) or the closing.  Several calls for an operation in    *)
(* one process share one promise, so a process runs one at a time here.    *)
(* The escrow is external: a transaction applies or reverts when mined.    *)
(***************************************************************************)
EXTENDS Integers, Sequences

CONSTANTS Processes,    \* worker processes
          Payees,       \* the five winners and the platform fee
          MaxAttempts,  \* sends of a payout, 3
          MaxFailures,    \* bound: failed calls, crashes, leases outlived
          MaxSends,     \* bound: transactions of a behaviour
          Nobody

ASSUME SettlementAssumption ==
    /\ Nobody \notin Processes /\ Nobody \notin Payees
    /\ Payees # {} /\ Payees \cap {"settle", "reconcile", "close"} = {}
    /\ MaxAttempts \in Nat \ {0} /\ MaxFailures \in Nat /\ MaxSends \in Nat

Ops == Payees \cup {"settle", "close"}
Locks == Ops \cup {"reconcile"}

VARIABLES record,   \* 'settlements' and 'automatic-payouts'
          held,    \* 'settlement-submit', '-reconcile', 'automatic-payout'
          worker,   \* what a process holds between two awaits
          txs,      \* external: the operator's transactions, by hash
          settled,  \* external: settleByOperator took effect
          owed,     \* external: payees whose credit is not withdrawn
          closed,   \* external: the tournament is closed
          failures    \* faults so far

settlementVars == <<record, held, worker, txs, settled, owed, closed, failures>>

-----------------------------------------------------------------------------

RecordState == {"PERSISTED", "SUBMITTED", "PENDING", "COMPLETE", "FAILED",
                "SETTLEMENT_REJECTED", "RECOVERY_REQUIRED"}
Hash == 0..MaxSends     \* 0 for none
Record == [state : RecordState, attempts : 0..MaxAttempts, tx : Hash]
NoRecord == [state |-> "NONE", attempts |-> 0, tx |-> 0]
Tx == [op : Ops, status : {"PENDING", "SUCCESS", "FAILED"}]

\* left are the payees this run has yet to visit; clear says that none of those
\* visited failed or is pending.  record is the copy read under the lease, fresh
\* that this claim sent its transaction.
ProcessPc == {"idle", "visit", "observe", "send", "confirm"}
Process == [pc : ProcessPc, op : Locks \cup {Nobody}, left : SUBSET Payees, clear : BOOLEAN,
            fresh : BOOLEAN, record : Record \cup {NoRecord}]
IdleProcess == [pc |-> "idle", op |-> Nobody, left |-> {}, clear |-> TRUE, fresh |-> FALSE,
                record |-> NoRecord]

SettlementTypeOK ==
    /\ record \in [Ops -> Record \cup {NoRecord}]
    /\ held \in [Locks -> Processes \cup {Nobody}]
    /\ worker \in [Processes -> Process]
    /\ txs \in Seq(Tx) /\ Len(txs) <= MaxSends
    /\ settled \in BOOLEAN /\ owed \subseteq Payees /\ closed \in BOOLEAN
    /\ failures \in 0..MaxFailures

SettlementInit ==
    /\ record = [o \in Ops |-> NoRecord]
    /\ held = [o \in Locks |-> Nobody]
    /\ worker = [p \in Processes |-> IdleProcess]
    /\ txs = <<>>
    /\ settled = FALSE /\ owed = {} /\ closed = FALSE
    /\ failures = 0

-----------------------------------------------------------------------------
(* Arc. *)

\* settleByOperator opens every credit once; a payout empties one; the closing
\* needs them all empty.
Applies(op) == CASE op = "settle" -> ~settled
                 [] op = "close" -> settled /\ owed = {} /\ ~closed
                 [] OTHER -> op \in owed

Mine(i) ==
    LET op == txs[i].op
    IN  /\ txs[i].status = "PENDING"
        /\ txs' = [txs EXCEPT ![i].status = IF Applies(op) THEN "SUCCESS" ELSE "FAILED"]
        /\ settled' = (settled \/ op = "settle")
        /\ owed' = IF op = "settle" /\ ~settled THEN Payees ELSE owed \ {op}
        /\ closed' = (closed \/ (op = "close" /\ Applies(op)))
        /\ UNCHANGED <<record, held, worker, failures>>

\* A winner withdraws the credit itself; anyone may send the fee.
Withdraw(q) ==
    /\ q \in owed
    /\ owed' = owed \ {q}
    /\ UNCHANGED <<record, held, worker, txs, settled, closed, failures>>

-----------------------------------------------------------------------------
(* A worker process. *)

Chain == <<txs, settled, owed, closed>>
ProcessAt(p, pc) == worker[p].pc = pc
ProcessGoes(p, w) == worker' = [worker EXCEPT ![p] = w]
Put(op, r) == record' = [record EXCEPT ![op] = r]
Unlease(p, op) == IF held[op] = p THEN [held EXCEPT ![op] = Nobody] ELSE held

\* Mutant of Onward: a payout that failed ends the run.
OnwardStops(p, ok) ==
    LET w == worker[p]
        next == CASE w.op = "close" \/ ~ok -> IdleProcess
                  [] w.op # "close" /\ ok /\ w.left # {} ->
                       [w EXCEPT !.pc = "visit", !.op = CHOOSE q \in w.left : TRUE,
                                 !.left = @ \ {CHOOSE q \in w.left : TRUE},
                                 !.fresh = FALSE, !.record = NoRecord]
                  [] OTHER -> [IdleProcess EXCEPT !.pc = "visit", !.op = "close"]
    IN  /\ ProcessGoes(p, next)
        /\ held' = Unlease(p, w.op)

\* An operation of the payout run ends: on to the next payee.
Onward(p, ok) ==
    LET w == worker[p]
        next == CASE w.op = "close" -> IdleProcess
                  [] w.op # "close" /\ w.left # {} ->
                       [w EXCEPT !.pc = "visit", !.op = CHOOSE q \in w.left : TRUE,
                                 !.left = @ \ {CHOOSE q \in w.left : TRUE},
                                 !.clear = @ /\ ok, !.fresh = FALSE,
                                 !.record = NoRecord]
                  [] OTHER -> IF w.clear /\ ok
                              THEN [IdleProcess EXCEPT !.pc = "visit", !.op = "close"]
                              ELSE IdleProcess
    IN  /\ ProcessGoes(p, next)
        /\ held' = Unlease(p, w.op)

\* submit: under the lease, an existing hash is the answer; otherwise the
\* intent is stored and the settlement sent.
Submit(p) ==
    /\ ProcessAt(p, "idle") /\ held["settle"] = Nobody /\ record["settle"].tx = 0
    /\ held' = [held EXCEPT !["settle"] = p]
    /\ Put("settle", [NoRecord EXCEPT !.state = "PERSISTED"])
    /\ ProcessGoes(p, [IdleProcess EXCEPT !.pc = "send", !.op = "settle"])
    /\ UNCHANGED Chain /\ UNCHANGED failures

\* reconcile: the receipt of the stored hash, then the credits read from Arc,
\* also of a settlement whose end is recorded.
Reconcile(p) ==
    /\ ProcessAt(p, "idle") /\ held["reconcile"] = Nobody
    /\ record["settle"].tx # 0
    /\ held' = [held EXCEPT !["reconcile"] = p]
    /\ ProcessGoes(p, [IdleProcess EXCEPT !.pc = "observe", !.op = "reconcile",
                                          !.record = record["settle"]])
    /\ UNCHANGED record /\ UNCHANGED Chain /\ UNCHANGED failures

\* run: every payee in turn, then the closing.  It reads nothing of the settlement
\* record; its caller starts it once Arc has settled.
RunPayouts(p) ==
    LET first == CHOOSE q \in Payees : TRUE
    IN  /\ ProcessAt(p, "idle") /\ settled
        /\ record["close"].state # "COMPLETE"
        /\ ProcessGoes(p, [IdleProcess EXCEPT !.pc = "visit", !.op = first, !.left = Payees \ {first}])
        /\ UNCHANGED <<record, held, failures>> /\ UNCHANGED Chain

\* processTransaction under its lease: a completed operation is not repeated, a
\* submitted one is observed, a failed one is sent again up to the cap.
Transaction(p) ==
    LET w == worker[p]
        r == record[w.op]
        sent == r.state = "SUBMITTED" /\ r.tx # 0
    IN  /\ CASE held[w.op] # Nobody -> ProcessGoes(p, IdleProcess) /\ UNCHANGED held
             [] held[w.op] = Nobody /\ r.state = "COMPLETE" -> Onward(p, TRUE)
             [] held[w.op] = Nobody /\ r.state # "COMPLETE" /\ ~sent
                /\ r.attempts >= MaxAttempts -> Onward(p, FALSE)
             [] OTHER ->
                  /\ held' = [held EXCEPT ![w.op] = p]
                  /\ ProcessGoes(p, [w EXCEPT !.pc = IF sent THEN "observe" ELSE "send",
                                              !.record = r])
        /\ UNCHANGED record

\* processValueOperation: a credit of zero is complete, whoever paid it.  The
\* closing needs a total liability of zero.
VisitPayee(p) ==
    LET w == worker[p]
    IN  /\ ProcessAt(p, "visit")
        /\ CASE w.op = "close" /\ owed # {} -> ProcessGoes(p, IdleProcess) /\ UNCHANGED <<record, held>>
             [] w.op # "close" /\ w.op \notin owed ->
                  /\ Put(w.op, [record[w.op] EXCEPT !.state = "COMPLETE"])
                  /\ Onward(p, TRUE)
             [] OTHER -> Transaction(p)
        /\ UNCHANGED Chain /\ UNCHANGED failures

\* Sent: the hash is stored.  A payout counts the attempt, and then asks at once
\* for the receipt.
SendTransaction(p) ==
    LET w == worker[p]
        sent == [state |-> "SUBMITTED", tx |-> Len(txs) + 1,
                 attempts |-> IF w.op = "settle" THEN 0 ELSE w.record.attempts + 1]
    IN  /\ ProcessAt(p, "send") /\ Len(txs) < MaxSends
        /\ txs' = Append(txs, [op |-> w.op, status |-> "PENDING"])
        /\ Put(w.op, sent)
        /\ IF w.op = "settle"
           THEN ProcessGoes(p, IdleProcess) /\ held' = Unlease(p, w.op)
           ELSE /\ ProcessGoes(p, [w EXCEPT !.pc = "observe", !.fresh = TRUE, !.record = sent])
                /\ UNCHANGED held
        /\ UNCHANGED <<settled, owed, closed, failures>>

\* Mutant of ReadReceipt: a receipt is enough, whatever it says.
ReadReceiptAny(p) ==
    LET w == worker[p]
    IN  /\ ProcessAt(p, "observe")
        /\ ProcessGoes(p, [w EXCEPT !.pc = "confirm"])
        /\ UNCHANGED <<record, held, failures>> /\ UNCHANGED Chain

\* The receipt of a transaction.  One reverted in an earlier run is sent again
\* in this one, below the cap.
ReadReceipt(p) ==
    LET w == worker[p]
        status == txs[w.record.tx].status
        settling == w.op = "reconcile"
        op == IF settling THEN "settle" ELSE w.op
        put(state) == Put(op, [w.record EXCEPT !.state = state])
        over == IF settling THEN ProcessGoes(p, IdleProcess) /\ held' = Unlease(p, w.op)
                ELSE Onward(p, FALSE)
    IN  /\ ProcessAt(p, "observe")
        /\ CASE status = "PENDING" ->
                  /\ IF settling THEN put("PENDING") ELSE UNCHANGED record
                  /\ over
             [] status = "SUCCESS" ->
                  ProcessGoes(p, [w EXCEPT !.pc = "confirm"]) /\ UNCHANGED <<record, held>>
             [] OTHER ->
                  /\ put(IF settling THEN "SETTLEMENT_REJECTED" ELSE "FAILED")
                  /\ IF settling \/ w.fresh \/ w.record.attempts >= MaxAttempts
                     THEN over
                     ELSE /\ ProcessGoes(p, [w EXCEPT !.pc = "send", !.record.state = "FAILED"])
                          /\ UNCHANGED held
        /\ UNCHANGED Chain /\ UNCHANGED failures

\* Arc after a success: the settlement must show every credit, a payout none; a
\* closing is not read.  An earlier payout without effect stays as it is.
Confirm(p) ==
    LET w == worker[p]
        applied == w.op = "close" \/ w.op \notin owed
    IN  /\ ProcessAt(p, "confirm")
        /\ IF w.op = "reconcile"
           THEN /\ Put("settle", [w.record EXCEPT !.state =
                       IF owed = Payees THEN "COMPLETE" ELSE "RECOVERY_REQUIRED"])
                /\ ProcessGoes(p, IdleProcess) /\ held' = Unlease(p, w.op)
           ELSE /\ IF applied \/ w.fresh
                   THEN Put(w.op, [w.record EXCEPT !.state =
                                       IF applied THEN "COMPLETE" ELSE "FAILED"])
                   ELSE UNCHANGED record
                /\ Onward(p, applied)
        /\ UNCHANGED Chain /\ UNCHANGED failures

-----------------------------------------------------------------------------
(* Faults: a call throws, its effect done or not; a process ends; a lease    *)
(* of five minutes ends before its holder is done.                          *)

Failure == failures < MaxFailures /\ failures' = failures + 1

\* Mutant of Caught: every caught error counts an attempt.
CaughtTwice(p) ==
    LET w == worker[p]
    IN  IF w.op \notin {"settle", "reconcile"} /\ (w.fresh \/ w.pc = "send")
        THEN /\ Put(w.op, [state |-> "FAILED", tx |-> 0, attempts |-> w.record.attempts + 1])
             /\ Onward(p, FALSE)
        ELSE ProcessGoes(p, IdleProcess) /\ held' = Unlease(p, w.op) /\ UNCHANGED record

\* A payout that was being sent is stored as FAILED, without its hash, and the
\* attempt counted.  Any other call leaves its record as it was and ends the run.
Caught(p) ==
    LET w == worker[p]
    IN  IF w.op \notin {"settle", "reconcile"} /\ (w.fresh \/ w.pc = "send")
        THEN /\ Put(w.op, [state |-> "FAILED", tx |-> 0, attempts |->
                  IF w.fresh THEN w.record.attempts ELSE w.record.attempts + 1])
             /\ Onward(p, FALSE)
        ELSE ProcessGoes(p, IdleProcess) /\ held' = Unlease(p, w.op) /\ UNCHANGED record
FailedSend(p) ==
    /\ Failure /\ ProcessAt(p, "send")
    /\ \/ UNCHANGED txs
       \/ /\ Len(txs) < MaxSends
          /\ txs' = Append(txs, [op |-> worker[p].op, status |-> "PENDING"])
    /\ Caught(p)
    /\ UNCHANGED <<settled, owed, closed>>
FailedRead(p) ==
    /\ Failure /\ worker[p].pc \in {"observe", "confirm"}
    /\ Caught(p)
    /\ UNCHANGED Chain
\* The process may end after its transaction left and before its hash is stored.
ProcessEnds(p) ==
    /\ Failure /\ ~ProcessAt(p, "idle")
    /\ ProcessGoes(p, IdleProcess)
    /\ \/ UNCHANGED txs
       \/ /\ ProcessAt(p, "send") /\ Len(txs) < MaxSends
          /\ txs' = Append(txs, [op |-> worker[p].op, status |-> "PENDING"])
    /\ UNCHANGED <<record, held, settled, owed, closed>>
LeaseEnds(op) ==
    /\ held[op] # Nobody
    /\ held' = [held EXCEPT ![op] = Nobody]
    /\ IF \E p \in Processes : /\ worker[p].op = op
                               /\ worker[p].pc \in {"observe", "send", "confirm"}
       THEN Failure ELSE UNCHANGED failures
    /\ UNCHANGED <<record, worker>> /\ UNCHANGED Chain

Work(p) == Submit(p) \/ Reconcile(p) \/ RunPayouts(p) \/ VisitPayee(p)
           \/ SendTransaction(p) \/ ReadReceipt(p) \/ Confirm(p)

SettlementNext ==
    \/ \E i \in 1..Len(txs) : Mine(i)
    \/ \E q \in Payees : Withdraw(q)
    \/ \E p \in Processes : Work(p)
    \/ \E p \in Processes : FailedSend(p) \/ FailedRead(p) \/ ProcessEnds(p)
    \/ \E op \in Locks : LeaseEnds(op)

SettlementSpec == SettlementInit /\ [][SettlementNext]_settlementVars

\* Transactions are mined, leases end by the clock, a process goes on with what it
\* began and is asked again until it is done: for the payouts also between
\* reconciliations.  No winner has to withdraw.
SettlementFairness ==
    /\ \A i \in 1..MaxSends : WF_settlementVars(i <= Len(txs) /\ Mine(i))
    /\ \A p \in Processes : WF_settlementVars(Work(p)) /\ SF_settlementVars(RunPayouts(p))
    /\ \A op \in Locks : WF_settlementVars(LeaseEnds(op))

SettlementFairSpec == SettlementSpec /\ SettlementFairness

-----------------------------------------------------------------------------
(* Properties. *)

\* A record says COMPLETE only when Arc shows the effect: of the settlement, of a
\* payout, of the closing, whichever of several transactions had it.
CompleteMeansApplied == SettlementTypeOK /\
    \A op \in Ops : record[op].state = "COMPLETE" =>
        CASE op = "settle" -> settled
          [] op = "close" -> closed
          [] OTHER -> settled /\ op \notin owed

\* An operation whose attempts are used up: no run sends it again.
GivenUp(op) == record[op].state = "FAILED" /\ record[op].attempts >= MaxAttempts

\* Once Arc has settled, every winner and the owner are paid, but for those given up: a
\* payout that failed for good does not stand in the way of the others.  The tournament is
\* then closed, unless something was given up.  And with fewer faults than a payout has
\* attempts everyone is paid and the tournament closed: a lost hash is made good.
EveryoneIsPaid ==
    settled ~> /\ \A q \in Payees : q \notin owed \/ GivenUp(q)
               /\ closed \/ \E op \in Payees \cup {"close"} : GivenUp(op)
               /\ failures < MaxAttempts => owed = {} /\ closed

=============================================================================
