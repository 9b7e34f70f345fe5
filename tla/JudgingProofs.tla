----------------------------- MODULE JudgingProofs -----------------------------
(***************************************************************************)
(* Proofs about what is judged on GenLayer: the paid evaluation of an      *)
(* agent, and the matches of a tournament.                                 *)
(***************************************************************************)
EXTENDS Evaluation, MatchJudging, FiniteSetTheorems, WellFoundedInduction, TLAPS

-----------------------------------------------------------------------------
(* A paid campaign. *)

\* Scenarios are judged one after the other, and a call is made for the one at hand.
CampaignSound ==
    /\ campaign.scenario = Scenarios + 1 <=> campaign.state = "FINALIZED"
    /\ campaign.open => campaign.state \notin {"PENDING", "FINALIZED"}
    /\ ~campaign.open /\ campaign.state \notin Terminal => campaign.attempt < MaxProviderAttempts
    /\ \A s \in 1..Scenarios : s < campaign.scenario => s \in judged
    /\ task # "idle" => campaign.open /\ campaign.state = "RUNNING"

\* Every transaction of the run at hand was one of its tries, and one that succeeded
\* left its scorecard.
RunSound ==
    /\ Len(txs) <= run.tries
    /\ task \in {"send", "replay"} => Len(txs) < run.tries
    /\ run.provider # "SUCCESS" => txs = <<>>
    /\ task \notin {"idle", "generate"} => run.provider = "SUCCESS"
    /\ task = "generate" => run.provider = "PENDING"
    /\ run.tx <= Len(txs)
    /\ task = "receipt" => run.tx # 0
    /\ campaign.open => \A i \in 1..Len(txs) : txs[i] = "SUCCESS" => campaign.scenario \in judged
    /\ task = "verdict" => campaign.scenario \in judged

\* The operator pays for campaigns that are over and were paid for.
CampaignOver == campaign.state \in {"FINALIZED", "FAILED"}
PaymentSound ==
    /\ claim = "mined" => payment = "TIMEOUT"
    /\ task # "idle" => payment # "NONE"
    /\ settling # "idle" => payment # "NONE" /\ CampaignOver
    /\ settling = "wait" => sends # <<>>
    /\ sends # <<>> => CampaignOver
    /\ \A i \in 1..Len(sends) : sends[i] = "SUCCESS" => payment = Target
    /\ fee \in {"HELD", "RELEASED", "REFUNDED", "SETTLEMENT_FAILED"} => payment # "NONE"
    /\ fee = "RELEASED" => payment = "RELEASED"
    /\ fee = "REFUNDED" => payment \in {"REFUNDED", "TIMEOUT"}
    /\ payment = "RELEASED" => campaign.state = "FINALIZED"
    /\ payment = "REFUNDED" => campaign.state = "FAILED"

FeeInv == EvaluationTypeOK /\ CampaignSound /\ RunSound /\ PaymentSound

LEMMA FeeInit == EvaluationInit => FeeInv
<1> SUFFICES ASSUME EvaluationInit PROVE FeeInv
  OBVIOUS
<1>1. EvaluationTypeOK
  <2>1. campaign \in Campaign
    BY EvaluationAssumption DEF EvaluationInit, Campaign
  <2>2. run \in Run
    BY EvaluationAssumption DEF EvaluationInit, NewRun, Run
  <2>3. late \in 0..2 /\ faults \in 0..MaxFaults /\ sends \in Seq({"PENDING", "SUCCESS", "REVERTED"})
        /\ Len(sends) <= MaxSettlements /\ txs \in Seq({"PENDING", "SUCCESS", "FAILED"}) /\ Len(txs) <= MaxSubmissions
    BY EvaluationAssumption DEF EvaluationInit
  <2> QED
    BY <2>1, <2>2, <2>3 DEF EvaluationInit, EvaluationTypeOK, FeeState
<1>2. CampaignSound
  BY EvaluationAssumption DEF EvaluationInit, CampaignSound, Terminal
<1>3. RunSound
  BY DEF EvaluationInit, RunSound, NewRun
<1>4. PaymentSound
  BY DEF EvaluationInit, PaymentSound, CampaignOver
<1> QED
  BY <1>1, <1>2, <1>3, <1>4 DEF FeeInv

\* Calls that leave the campaign and its run alone.
LEMMA CampaignKept ==
  ASSUME FeeInv, UNCHANGED <<campaign, run, txs, judged>>, task' = task \/ task' = "idle"
  PROVE  CampaignSound' /\ RunSound'
<1>1. CampaignSound'
  BY DEF FeeInv, CampaignSound
<1>2. RunSound'
  BY DEF FeeInv, RunSound
<1> QED
  BY <1>1, <1>2

LEMMA FaultCounted == FeeInv /\ Fault => faults' \in 0..MaxFaults
  BY EvaluationAssumption DEF FeeInv, EvaluationTypeOK, Fault

-----------------------------------------------------------------------------
(* Arc and the fee. *)

LEMMA FeeDeposit == ASSUME FeeInv, Deposit PROVE FeeInv'
<1>1. EvaluationTypeOK'
  BY DEF FeeInv, EvaluationTypeOK, Deposit, records, callers, genlayer
<1>2. CampaignSound' /\ RunSound'
  BY CampaignKept DEF Deposit, records, callers, genlayer
<1>3. PaymentSound'
  BY DEF FeeInv, PaymentSound, Deposit, records, callers, genlayer, CampaignOver, Target
<1> QED
  BY <1>1, <1>2, <1>3 DEF FeeInv

LEMMA FeeMined == ASSUME FeeInv, NEW i \in 1..Len(sends), MineSettlement(i) PROVE FeeInv'
<1> USE DEF MineSettlement, records, callers, genlayer
<1>0. /\ sends \in Seq({"PENDING", "SUCCESS", "REVERTED"}) /\ Len(sends) <= MaxSettlements
      /\ sends # <<>>
  BY DEF FeeInv, EvaluationTypeOK
<1>1. CampaignOver /\ Target \in {"RELEASED", "REFUNDED"} /\ Target' = Target
  BY <1>0 DEF FeeInv, PaymentSound, Target
<1>2. /\ sends' \in Seq({"PENDING", "SUCCESS", "REVERTED"}) /\ Len(sends') = Len(sends)
      /\ \A j \in 1..Len(sends) : j # i => sends'[j] = sends[j]
      /\ sends'[i] = (IF payment = "HELD" THEN "SUCCESS" ELSE "REVERTED")
  BY <1>0
<1>3. EvaluationTypeOK'
  BY <1>0, <1>1, <1>2 DEF FeeInv, EvaluationTypeOK
<1>4. CampaignSound' /\ RunSound'
  BY CampaignKept
<1>5. \A j \in 1..Len(sends') : sends'[j] = "SUCCESS" => payment' = Target'
  BY <1>1, <1>2 DEF FeeInv, PaymentSound
<1>6. PaymentSound'
  BY <1>0, <1>1, <1>2, <1>5 DEF FeeInv, PaymentSound, CampaignOver, Target
<1> QED
  BY <1>3, <1>4, <1>6 DEF FeeInv

LEMMA FeeDelay == ASSUME FeeInv, DelayPasses \/ Clock PROVE FeeInv'
<1>0. UNCHANGED <<records, callers, task, settling, payment, sends, txs, judged, faults>>
  BY DEF DelayPasses, Clock, arc, genlayer
<1>1. EvaluationTypeOK'
  <2>1. due' \in BOOLEAN
    BY DEF FeeInv, EvaluationTypeOK, DelayPasses, Clock, arc
  <2>2. late' \in 0..2
    BY DEF FeeInv, EvaluationTypeOK, DelayPasses, Clock, genlayer
  <2> QED
    BY <1>0, <2>1, <2>2 DEF FeeInv, EvaluationTypeOK, records, callers
<1>2. CampaignSound' /\ RunSound'
  BY <1>0, CampaignKept DEF records
<1>3. PaymentSound'
  BY <1>0 DEF FeeInv, PaymentSound, records, callers, CampaignOver, Target
<1> QED
  BY <1>1, <1>2, <1>3 DEF FeeInv

LEMMA FeeClaim == ASSUME FeeInv, MineClaim \/ Claim \/ RecordTimeoutRefund PROVE FeeInv'
<1> USE DEF MineClaim, Claim, RecordTimeoutRefund, records, callers, arc, genlayer
<1>1. EvaluationTypeOK'
  <2>1. CASE MineClaim
    BY <2>1 DEF FeeInv, EvaluationTypeOK
  <2>2. CASE Claim
    BY <2>2 DEF FeeInv, EvaluationTypeOK
  <2>3. CASE RecordTimeoutRefund
    BY <2>3 DEF FeeInv, EvaluationTypeOK, FeeState
  <2> QED
    BY <2>1, <2>2, <2>3
<1>2. CampaignSound' /\ RunSound'
  BY CampaignKept
<1>3. CASE MineClaim
  <2>1. PaymentSound'
    BY <1>3 DEF FeeInv, PaymentSound, CampaignOver, Target
  <2> QED
    BY <1>1, <1>2, <2>1 DEF FeeInv
<1>4. CASE Claim
  <2>1. PaymentSound'
    BY <1>4 DEF FeeInv, PaymentSound, CampaignOver, Target
  <2> QED
    BY <1>1, <1>2, <2>1 DEF FeeInv
<1>5. CASE RecordTimeoutRefund
  <2>1. PaymentSound'
    BY <1>5 DEF FeeInv, PaymentSound, CampaignOver, Target
  <2> QED
    BY <1>1, <1>2, <2>1 DEF FeeInv
<1> QED
  BY <1>3, <1>4, <1>5

LEMMA FeeAsked == ASSUME FeeInv, NEW r \in Requests, Start(r) \/ Held(r) PROVE FeeInv'
<1> USE DEF Start, Held, arc, genlayer
<1>1. EvaluationTypeOK'
  <2>1. /\ fee' \in FeeState /\ holding' \subseteq Requests
        /\ UNCHANGED <<campaign, run, stale, claim, task, settling, arc, genlayer, faults>>
    BY DEF FeeInv, EvaluationTypeOK, FeeState
  <2> HIDE DEF Start, Held
  <2> QED
    BY <2>1 DEF FeeInv, EvaluationTypeOK
<1>2. CampaignSound' /\ RunSound'
  BY CampaignKept
<1>3. PaymentSound'
  BY DEF FeeInv, PaymentSound, CampaignOver, Target
<1> QED
  BY <1>1, <1>2, <1>3 DEF FeeInv

LEMMA FeeHoldFails == ASSUME FeeInv, NEW r \in Requests, HoldFails(r) PROVE FeeInv'
<1> USE DEF HoldFails, arc, genlayer
<1>1. EvaluationTypeOK'
  <2>1. fee' \in FeeState /\ holding' \subseteq Requests /\ faults' \in 0..MaxFaults
        /\ payment' \in {"NONE", "HELD", "RELEASED", "REFUNDED", "TIMEOUT"}
    BY FaultCounted DEF FeeInv, EvaluationTypeOK, FeeState
  <2> QED
    BY <2>1 DEF FeeInv, EvaluationTypeOK
<1>2. CampaignSound' /\ RunSound'
  BY CampaignKept
<1>3. PaymentSound'
  BY DEF FeeInv, PaymentSound, CampaignOver, Target
<1> QED
  BY <1>1, <1>2, <1>3 DEF FeeInv

-----------------------------------------------------------------------------
(* The settlement. *)

\* A settlement that ends records what Arc shows.
LEMMA SettlementEnding ==
  ASSUME FeeInv, NEW s \in FeeState, SettlementEnds(s), settling # "idle",
         s \in {"RELEASED", "REFUNDED", "SETTLEMENT_FAILED"},
         s = "RELEASED" => payment = "RELEASED", s = "REFUNDED" => payment \in {"REFUNDED", "TIMEOUT"},
         UNCHANGED <<callers, task, payment, due, genlayer>>, faults' \in 0..MaxFaults,
         sends' = sends \/ (Len(sends) < MaxSettlements /\ sends' = Append(sends, "PENDING"))
  PROVE  FeeInv'
<1> USE DEF SettlementEnds, callers, genlayer
<1>0. sends \in Seq({"PENDING", "SUCCESS", "REVERTED"}) /\ Len(sends) <= MaxSettlements /\ MaxSettlements \in Nat
  BY EvaluationAssumption DEF FeeInv, EvaluationTypeOK
<1>1. /\ sends' \in Seq({"PENDING", "SUCCESS", "REVERTED"}) /\ Len(sends') <= MaxSettlements
      /\ \A i \in 1..Len(sends') : sends'[i] = "SUCCESS" => i \in 1..Len(sends) /\ sends[i] = "SUCCESS"
  BY <1>0
<1>2. EvaluationTypeOK'
  BY <1>1 DEF FeeInv, EvaluationTypeOK
<1>3. CampaignSound' /\ RunSound'
  BY CampaignKept
<1>4. CampaignOver /\ payment # "NONE" /\ Target' = Target
  BY DEF FeeInv, PaymentSound, Target
<1>5. PaymentSound'
  BY <1>1, <1>4 DEF FeeInv, PaymentSound, CampaignOver
<1> QED
  BY <1>2, <1>3, <1>5 DEF FeeInv

\* A settlement that goes on.
LEMMA SettlementGoing ==
  ASSUME FeeInv, settling # "idle", settling' \in {"check", "send", "wait", "recheck"},
         UNCHANGED <<records, callers, task, payment, due, genlayer>>, faults' \in 0..MaxFaults,
         sends' = sends \/ (Len(sends) < MaxSettlements /\ sends' = Append(sends, "PENDING")),
         settling' = "wait" => sends' # <<>>
  PROVE  FeeInv'
<1> USE DEF records, callers, genlayer
<1>0. sends \in Seq({"PENDING", "SUCCESS", "REVERTED"}) /\ Len(sends) <= MaxSettlements /\ MaxSettlements \in Nat
  BY EvaluationAssumption DEF FeeInv, EvaluationTypeOK
<1>1. /\ sends' \in Seq({"PENDING", "SUCCESS", "REVERTED"}) /\ Len(sends') <= MaxSettlements
      /\ \A i \in 1..Len(sends') : sends'[i] = "SUCCESS" => i \in 1..Len(sends) /\ sends[i] = "SUCCESS"
  BY <1>0
<1>2. EvaluationTypeOK'
  BY <1>1 DEF FeeInv, EvaluationTypeOK
<1>3. CampaignSound' /\ RunSound'
  BY CampaignKept
<1>4. CampaignOver /\ payment # "NONE" /\ Target' = Target
  BY DEF FeeInv, PaymentSound, Target
<1>5. PaymentSound'
  BY <1>1, <1>4 DEF FeeInv, PaymentSound, CampaignOver
<1> QED
  BY <1>2, <1>3, <1>5 DEF FeeInv

LEMMA TargetIs == Target \in {"RELEASED", "REFUNDED"} /\ Target \in FeeState /\ "SETTLEMENT_FAILED" \in FeeState
  BY DEF Target, FeeState

\* What a read of the payment is taken for.
LEMMA ReadIs ==
  ASSUME NEW s, s = IF Is(Target) THEN Target ELSE "SETTLEMENT_FAILED"
  PROVE  /\ s \in FeeState /\ s \in {"RELEASED", "REFUNDED", "SETTLEMENT_FAILED"}
         /\ s = "RELEASED" => payment = "RELEASED"
         /\ s = "REFUNDED" => payment \in {"REFUNDED", "TIMEOUT"}
  BY TargetIs DEF Is

LEMMA FeeSettlement ==
  ASSUME FeeInv, CheckPayment \/ SendSettlement \/ WaitSettlement \/ RecheckPayment \/ SettlementFails
  PROVE  FeeInv'
<1>0. faults \in 0..MaxFaults /\ sends \in Seq({"PENDING", "SUCCESS", "REVERTED"})
  BY DEF FeeInv, EvaluationTypeOK
<1>1. CASE CheckPayment
  <2>1. CASE payment = "HELD"
    BY <1>0, <1>1, <2>1, SettlementGoing DEF CheckPayment, arc
  <2>2. CASE payment # "HELD"
    BY <1>0, <1>1, <2>2, ReadIs, SettlementEnding DEF CheckPayment, arc
  <2> QED
    BY <2>1, <2>2
<1>2. CASE SendSettlement
  <2>1. sends' # <<>>
    BY <1>0, <1>2 DEF SendSettlement
  <2> QED
    BY <1>0, <1>2, <2>1, SettlementGoing DEF SendSettlement
<1>3. CASE WaitSettlement
  <2>1. CASE sends[Len(sends)] = "SUCCESS"
    <3>1. payment = Target
      <4>1. Len(sends) \in 1..Len(sends)
        BY <1>0, <1>3 DEF FeeInv, PaymentSound, WaitSettlement
      <4> QED
        BY <2>1, <4>1 DEF FeeInv, PaymentSound
    <3> QED
      BY <1>0, <1>3, <2>1, <3>1, TargetIs, SettlementEnding DEF WaitSettlement, arc
  <2>2. CASE sends[Len(sends)] # "SUCCESS"
    BY <1>0, <1>3, <2>2, SettlementGoing DEF WaitSettlement, arc
  <2> QED
    BY <2>1, <2>2
<1>4. CASE RecheckPayment
  BY <1>0, <1>4, ReadIs, SettlementEnding DEF RecheckPayment, arc
<1>5. CASE SettlementFails
  <2>1. CASE settling \in {"send", "wait"}
    BY <1>5, <2>1, FaultCounted, SettlementGoing DEF SettlementFails
  <2>2. CASE settling \notin {"send", "wait"}
    BY <1>5, <2>2, FaultCounted, TargetIs, SettlementEnding DEF SettlementFails
  <2> QED
    BY <2>1, <2>2
<1> QED
  BY <1>1, <1>2, <1>3, <1>4, <1>5

-----------------------------------------------------------------------------
(* The campaign. *)

LEMMA CampaignIs ==
  ASSUME FeeInv
  PROVE  /\ campaign.scenario \in 1..(Scenarios + 1) /\ campaign.attempt \in 0..MaxProviderAttempts
         /\ Scenarios \in Nat /\ MaxProviderAttempts \in Nat
         /\ \A s \in {"PENDING", "RUNNING"} \cup Terminal :
               /\ Ended(s) \in Campaign /\ Ended(s).state = s /\ Ended(s).scenario = campaign.scenario
               /\ Ended(s).attempt = campaign.attempt /\ Ended(s).open = campaign.open
  BY EvaluationAssumption DEF FeeInv, EvaluationTypeOK, Campaign, Ended

\* The end of an advance.  The fee is settled only after a campaign that is over.
LEMMA EndKeeps ==
  ASSUME FeeInv, UNCHANGED <<callers, arc, fee>>, task' = "idle", stale' \subseteq {"advance", "submit", "poll"},
         campaign' \in Campaign, settling' = Settle(campaign'), payment # "NONE",
         campaign' = campaign \/ campaign.state \notin Terminal
  PROVE  PaymentSound'
<1> USE DEF callers, arc
<1>1. settling' = settling \/ (settling' = "check" /\ CampaignOver')
  BY DEF Settle, CampaignOver
<1>2. CASE campaign' = campaign
  BY <1>1, <1>2 DEF FeeInv, PaymentSound, CampaignOver, Target
<1>3. CASE campaign.state \notin Terminal
  <2>1. ~CampaignOver /\ sends = <<>> /\ settling = "idle" /\ payment \notin {"RELEASED", "REFUNDED"}
    BY <1>3 DEF FeeInv, PaymentSound, CampaignOver, Terminal
  <2> QED
    BY <1>1, <2>1 DEF FeeInv, PaymentSound
<1> QED
  BY <1>2, <1>3

\* Types of a step of the campaign: the two records and the transactions.
LEMMA StepTyped ==
  ASSUME FeeInv, UNCHANGED <<callers, arc, fee, judged>>,
         task' \in {"idle", "generate", "send", "read", "replay", "reread", "receipt", "verdict"},
         settling' \in {"idle", "check", "send", "wait", "recheck"},
         stale' \subseteq {"advance", "submit", "poll"},
         campaign' \in Campaign, run' \in Run, txs' \in Seq({"PENDING", "SUCCESS", "FAILED"}),
         Len(txs') <= run'.tries, late' \in 0..2, faults' \in 0..MaxFaults
  PROVE  EvaluationTypeOK'
<1>1. Len(txs') <= MaxSubmissions
  BY EvaluationAssumption DEF Run
<1> QED
  BY <1>1 DEF FeeInv, EvaluationTypeOK, callers, arc

\* An advance goes on to its next await.
LEMMA Awaiting ==
  ASSUME FeeInv, task # "idle" \/ (campaign.open /\ campaign.state = "RUNNING" /\ payment # "NONE"),
         NEW pc \in {"generate", "send", "read", "replay", "reread", "receipt", "verdict"}, Await(pc),
         UNCHANGED <<callers, arc, judged, late>>, run' \in Run,
         txs' \in Seq({"PENDING", "SUCCESS", "FAILED"}), RunSound', faults' \in 0..MaxFaults
  PROVE  FeeInv'
<1> USE DEF Await
<1>1. EvaluationTypeOK'
  BY StepTyped DEF FeeInv, EvaluationTypeOK, RunSound
<1>2. CampaignSound'
  BY DEF FeeInv, CampaignSound
<1>3. PaymentSound'
  BY DEF FeeInv, PaymentSound, CampaignOver, Target, callers, arc
<1> QED
  BY <1>1, <1>2, <1>3 DEF FeeInv

\* An advance ends.
LEMMA Ending ==
  ASSUME FeeInv, payment # "NONE", NEW c \in Campaign, End(c),
         c = campaign \/ campaign.state \notin Terminal,
         UNCHANGED <<callers, arc, judged, late>>, run' \in Run,
         txs' \in Seq({"PENDING", "SUCCESS", "FAILED"}),
         CampaignSound', RunSound', faults' \in 0..MaxFaults
  PROVE  FeeInv'
<1>1. /\ stale' \subseteq {"advance", "submit", "poll"} /\ late' \in 0..2
      /\ settling' \in {"idle", "check", "send", "wait", "recheck"}
  BY DEF FeeInv, EvaluationTypeOK, End, Settle
<1>2. EvaluationTypeOK'
  BY <1>1, StepTyped DEF End, RunSound
<1>3. PaymentSound'
  BY <1>1, EndKeeps DEF End
<1> QED
  BY <1>2, <1>3 DEF FeeInv

\* The transactions and the run as they are.
LEMMA RunIs ==
  ASSUME FeeInv
  PROVE  /\ run \in Run /\ txs \in Seq({"PENDING", "SUCCESS", "FAILED"}) /\ Len(txs) \in Nat
         /\ run.tries \in Nat /\ run.tries <= MaxSubmissions /\ MaxSubmissions \in Nat /\ run.tx \in Nat
         /\ faults \in 0..MaxFaults
  BY EvaluationAssumption DEF FeeInv, EvaluationTypeOK, Run

\* An advance that is under way.
LEMMA UnderWay ==
  ASSUME FeeInv, task # "idle"
  PROVE  /\ campaign.open /\ campaign.state = "RUNNING" /\ campaign.state \notin Terminal /\ payment # "NONE"
         /\ campaign.scenario \in 1..Scenarios
  BY CampaignIs DEF FeeInv, CampaignSound, PaymentSound, Terminal

\* It ends as it is, its transactions gone on or not.
LEMMA Pausing ==
  ASSUME FeeInv, payment # "NONE", End(campaign), run' = run \/ run' = Submitted, run' \in Run,
         txs' \in Seq({"PENDING", "SUCCESS", "FAILED"}), RunSound',
         UNCHANGED <<callers, arc, judged, late>>, faults' \in 0..MaxFaults
  PROVE  FeeInv'
<1>1. campaign \in Campaign /\ CampaignSound'
  BY DEF FeeInv, EvaluationTypeOK, CampaignSound, End
<1> QED
  BY <1>1, Ending

-----------------------------------------------------------------------------
(* The steps of an advance. *)

LEMMA FeeFinalize == ASSUME FeeInv, NEW i \in 1..Len(txs), Finalize(i) PROVE FeeInv'
<1> USE DEF Finalize
<1>1. /\ txs' \in Seq({"PENDING", "SUCCESS", "FAILED"}) /\ Len(txs') = Len(txs)
      /\ \A j \in 1..Len(txs) : j # i => txs'[j] = txs[j]
      /\ txs # <<>> /\ txs' # <<>>
      /\ txs'[i] = "SUCCESS" => (campaign.open => campaign.scenario \in judged')
  BY RunIs
<1>2. judged \subseteq judged' /\ (campaign.open => campaign.scenario \in 1..Scenarios)
  BY CampaignIs DEF FeeInv, CampaignSound
<1>3. judged' \subseteq 1..Scenarios
  BY <1>2 DEF FeeInv, EvaluationTypeOK
<1>4. EvaluationTypeOK'
  BY <1>1, <1>3 DEF FeeInv, EvaluationTypeOK, records, callers, arc
<1>5. CampaignSound'
  BY <1>2 DEF FeeInv, CampaignSound, records
<1>6. RunSound'
  <2>1. campaign.open => \A j \in 1..Len(txs') : txs'[j] = "SUCCESS" => campaign.scenario \in judged'
    BY <1>1, <1>2 DEF FeeInv, RunSound
  <2>2. task = "verdict" => campaign.scenario \in judged'
    BY <1>2 DEF FeeInv, RunSound
  <2> QED
    BY <1>1, <2>1, <2>2 DEF FeeInv, RunSound, records
<1>7. PaymentSound'
  BY DEF FeeInv, PaymentSound, records, callers, arc, CampaignOver, Target
<1> QED
  BY <1>4, <1>5, <1>6, <1>7 DEF FeeInv

\* The run and its transactions are what they were.
LEMMA RunKept ==
  ASSUME FeeInv, UNCHANGED <<run, txs, judged>>, campaign' = campaign \/ ~campaign'.open,
         \/ task' = "idle" \/ (task' = "generate" /\ run.provider = "PENDING")
         \/ run.provider = "SUCCESS" /\ (task' \in {"read", "reread"} \/ (task' = "receipt" /\ run.tx # 0))
  PROVE  RunSound'
<1>1. /\ (task' = "generate" => run.provider = "PENDING") /\ (task' = "receipt" => run.tx # 0)
      /\ (task' \notin {"idle", "generate"} => run.provider = "SUCCESS")
  OBVIOUS
<1>2. task' \notin {"send", "replay", "verdict"}
  OBVIOUS
<1> QED
  BY <1>1, <1>2 DEF FeeInv, RunSound

\* A poll of run r, as it is now stored.
LEMMA Polling ==
  ASSUME FeeInv, campaign.open, campaign.state = "RUNNING", payment # "NONE", NEW r \in Run, Poll(r), run' = r,
         r = run \/ r = Submitted,
         txs' \in Seq({"PENDING", "SUCCESS", "FAILED"}),
         task' \in {"idle", "read"} \/ (task' = "receipt" /\ r.tx # 0) => RunSound',
         UNCHANGED <<callers, arc, judged, late>>, faults' \in 0..MaxFaults
  PROVE  FeeInv'
<1>1. CASE "poll" \in stale
  <2>1. End(campaign) /\ task' = "idle"
    BY <1>1 DEF Poll, End
  <2> QED
    BY <2>1, Pausing
<1>2. CASE "poll" \notin stale
  <2> DEFINE pc == IF r.tx = 0 THEN "read" ELSE "receipt"
  <2>1. Await(pc) /\ task' = pc
    BY <1>2 DEF Poll, Await
  <2>2. RunSound'
    BY <2>1
  <2>3. pc \in {"generate", "send", "read", "replay", "reread", "receipt", "verdict"}
    OBVIOUS
  <2> HIDE DEF pc
  <2> QED
    BY <2>1, <2>2, <2>3, Awaiting
<1> QED
  BY <1>1, <1>2

LEMMA FeeResume ==
  ASSUME FeeInv, Resume, task = "idle", campaign.state \notin Terminal, payment # "NONE",
         UNCHANGED <<Outside, faults>>
  PROVE  FeeInv'
<1> USE DEF Outside
<1>0. /\ campaign.state \in {"PENDING", "RUNNING"} /\ (campaign.open => campaign.state = "RUNNING")
      /\ ~campaign.open => campaign.attempt + 1 \in 0..MaxProviderAttempts
  BY CampaignIs DEF FeeInv, EvaluationTypeOK, CampaignSound, Campaign
<1>1. CASE ~campaign.open
  <2> USE <1>1 DEF Resume
  <2>1. /\ campaign' = [campaign EXCEPT !.state = "RUNNING", !.attempt = @ + 1, !.open = TRUE]
        /\ run' = NewRun /\ stale' = {} /\ txs' = <<>> /\ late' = 0 /\ task' = "generate"
        /\ UNCHANGED <<fee, settling, judged>>
    OBVIOUS
  <2>2. campaign' \in Campaign
    BY <1>0, <2>1 DEF FeeInv, EvaluationTypeOK, Campaign
  <2>3. campaign'.scenario = campaign.scenario /\ campaign'.state = "RUNNING" /\ campaign'.open
    BY <2>1 DEF FeeInv, EvaluationTypeOK, Campaign
  <2> HIDE DEF Resume
  <2>4. run' \in Run /\ run'.tries = 0 /\ run'.tx = 0 /\ run'.provider = "PENDING" /\ Len(txs') = 0
    BY <2>1, EvaluationAssumption DEF NewRun, Run
  <2>5. EvaluationTypeOK'
    BY <2>1, <2>2, <2>4, RunIs, StepTyped DEF FeeInv, EvaluationTypeOK
  <2>6. CampaignSound'
    BY <1>0, <2>1, <2>3 DEF FeeInv, CampaignSound, Terminal
  <2>7. RunSound'
    BY <2>1, <2>4 DEF RunSound
  <2>8. PaymentSound'
    <3>1. ~CampaignOver /\ sends = <<>> /\ settling = "idle" /\ payment \notin {"RELEASED", "REFUNDED"}
      BY <1>0 DEF FeeInv, PaymentSound, CampaignOver
    <3> QED
      BY <2>1, <3>1 DEF FeeInv, PaymentSound, callers, arc
  <2> QED
    BY <2>5, <2>6, <2>7, <2>8 DEF FeeInv
<1>2. CASE campaign.open /\ run.provider = "PENDING"
  <2>1. Await("generate") /\ UNCHANGED <<run, txs, judged, late>> /\ task' = "generate"
    BY <1>0, <1>2 DEF Resume, Await
  <2>2. RunSound'
    BY <1>2, <2>1, RunKept DEF Await
  <2> QED
    BY <1>0, <1>2, <2>1, <2>2, RunIs, Awaiting
<1>3. CASE campaign.open /\ run.provider = "SUCCESS"
  <2>1. Poll(run) /\ UNCHANGED <<run, txs, judged, late>>
    BY <1>3 DEF Resume, Poll, End, Await
  <2>2. campaign' = campaign
    BY <2>1 DEF Poll, End, Await
  <2>3. task' \in {"idle", "read"} \/ (task' = "receipt" /\ run.tx # 0) => RunSound'
    BY <1>3, <2>1, <2>2, RunKept
  <2> QED
    BY <1>0, <1>3, <2>1, <2>3, RunIs, Polling
<1> QED
  BY <1>1, <1>2, <1>3 DEF Resume

LEMMA FeeAdvance == ASSUME FeeInv, Tick \/ Advance PROVE FeeInv'
<1>1. AdvanceSafely /\ payment # "NONE" /\ task = "idle" /\ UNCHANGED <<Outside, faults>>
  BY DEF Tick, Advance, Unsettled, AdvanceSafely, FeeInv, PaymentSound
<1>2. CASE campaign.state \in Terminal \/ ~MayAdvance
  <2> DEFINE c == IF campaign.state \in Terminal THEN campaign ELSE Ended("FAILED")
  <2>1. End(c) /\ UNCHANGED <<run, genlayer>>
    BY <1>1, <1>2 DEF AdvanceSafely
  <2>2. c \in Campaign /\ (c = campaign \/ campaign.state \notin Terminal)
    BY CampaignIs DEF FeeInv, EvaluationTypeOK, Terminal
  <2>3. CampaignSound'
    <3>1. CASE campaign.state \in Terminal
      BY <2>1, <3>1 DEF FeeInv, CampaignSound, End, genlayer
    <3>2. CASE campaign.state \notin Terminal
      <4>1. c = Ended("FAILED") /\ c.state = "FAILED" /\ c.scenario = campaign.scenario
        BY <3>2, CampaignIs DEF Terminal
      <4>2. campaign.scenario # Scenarios + 1
        BY <3>2 DEF FeeInv, CampaignSound, Terminal
      <4> HIDE DEF c
      <4> QED
        BY <2>1, <4>1, <4>2 DEF FeeInv, CampaignSound, End, genlayer, Terminal
    <3> QED
      BY <3>1, <3>2
  <2>4. RunSound'
    <3>1. campaign'.open = campaign.open /\ campaign'.scenario = campaign.scenario /\ task' = "idle"
      BY <2>1, CampaignIs DEF End, Terminal
    <3> QED
      BY <2>1, <3>1 DEF FeeInv, RunSound, genlayer
  <2> HIDE DEF c
  <2> QED
    BY <1>1, <2>1, <2>2, <2>3, <2>4, RunIs, Ending DEF Outside, genlayer
<1>3. CASE campaign.state \notin Terminal /\ MayAdvance
  BY <1>1, <1>3, FeeResume DEF AdvanceSafely
<1> QED
  BY <1>2, <1>3

LEMMA FeeGenerate == ASSUME FeeInv, Generate PROVE FeeInv'
<1> USE DEF Outside, genlayer
<1>0. /\ task = "generate" /\ run.provider = "PENDING" /\ txs = <<>> /\ run.tx = 0 /\ Len(txs) = 0
      /\ campaign.open /\ campaign.state = "RUNNING" /\ campaign.state \notin Terminal /\ payment # "NONE"
      /\ campaign.scenario \in 1..Scenarios
  BY UnderWay, RunIs DEF Generate, FeeInv, RunSound
<1>1. CASE run' = [run EXCEPT !.provider = "SUCCESS", !.judge = "PERSISTED", !.tries = 1] /\ Await("send")
  <2>1. run \in Run /\ 1 \in 0..MaxSubmissions
    BY RunIs, EvaluationAssumption
  <2>2. run' \in Run /\ run'.tries = 1 /\ run'.tx = 0 /\ run'.provider = "SUCCESS"
    <3> HIDE DEF Generate
    <3> QED
      BY <1>0, <1>1, <2>1 DEF Run
  <2>3. RunSound'
    BY <1>0, <1>1, <2>2 DEF RunSound, Generate, Await
  <2> QED
    BY <1>0, <1>1, <2>2, <2>3, RunIs, Awaiting DEF Generate
<1>2. CASE /\ run' = [run EXCEPT !.provider = "FAILED"]
           /\ End(IF MayAskAgain THEN [campaign EXCEPT !.open = FALSE] ELSE Ended("FAILED"))
  <2> DEFINE c == IF MayAskAgain THEN [campaign EXCEPT !.open = FALSE] ELSE Ended("FAILED")
  <2>1. /\ run' \in Run /\ run'.tries = run.tries /\ run'.tx = 0 /\ run'.provider = "FAILED"
    BY <1>0, <1>2 DEF FeeInv, EvaluationTypeOK, Run
  <2>2. c \in Campaign /\ c.scenario = campaign.scenario
    <3>1. CASE MayAskAgain
      BY <3>1 DEF FeeInv, EvaluationTypeOK, Campaign
    <3>2. CASE ~MayAskAgain
      BY <3>2, CampaignIs DEF Terminal
    <3> QED
      BY <3>1, <3>2
  <2>3. /\ c.state = "FAILED" \/ (c.state = "RUNNING" /\ ~c.open /\ c.attempt < MaxProviderAttempts)
    <3>1. CASE MayAskAgain
      BY <1>0, <3>1 DEF MayAskAgain, FeeInv, EvaluationTypeOK, Campaign
    <3>2. CASE ~MayAskAgain
      BY <3>2, CampaignIs DEF Terminal
    <3> QED
      BY <3>1, <3>2
  <2>4. End(c) /\ campaign' = c /\ task' = "idle" /\ UNCHANGED <<callers, arc, txs, judged, late, faults>>
    BY <1>2 DEF End, Generate
  <2> HIDE DEF c
  <2>5. CampaignSound'
    BY <1>0, <2>2, <2>3, <2>4 DEF FeeInv, CampaignSound, Terminal
  <2>6. RunSound'
    BY <1>0, <2>1, <2>4, RunIs DEF RunSound
  <2> QED
    BY <1>0, <2>1, <2>2, <2>4, <2>5, <2>6, RunIs, Ending
<1> QED
  BY <1>1, <1>2 DEF Generate

\* A transaction sent is pending.
LEMMA Appended ==
  ASSUME FeeInv
  PROVE  LET sent == Append(txs, "PENDING")
         IN  /\ sent \in Seq({"PENDING", "SUCCESS", "FAILED"}) /\ Len(sent) = Len(txs) + 1
             /\ \A i \in 1..Len(sent) : sent[i] = "SUCCESS" => i \in 1..Len(txs) /\ txs[i] = "SUCCESS"
  BY RunIs

LEMMA Sending ==
  ASSUME FeeInv, task \in {"send", "replay"}
  PROVE  /\ Len(txs) < run.tries /\ run.provider = "SUCCESS"
         /\ \A i \in 1..Len(txs) : txs[i] = "SUCCESS" => campaign.scenario \in judged
  BY UnderWay, RunIs DEF FeeInv, RunSound

LEMMA FeeSent == ASSUME FeeInv, Sent PROVE FeeInv'
<1> USE DEF Outside, Sent
<1>0. task # "idle" /\ UNCHANGED <<callers, arc, judged, late>> /\ faults' \in 0..MaxFaults
  BY RunIs
<1>1. /\ run' = Submitted /\ run' \in Run /\ run'.tries = run.tries /\ run'.provider = "SUCCESS"
      /\ run'.tx = Len(txs) + 1 /\ run'.tx # 0
  <2>1. run \in Run /\ run' = Submitted /\ Len(txs) + 1 \in 0..MaxSubmissions /\ Len(txs) + 1 # 0
        /\ run.provider = "SUCCESS"
    BY Sending, RunIs
  <2> HIDE DEF Sent
  <2> QED
    BY <2>1 DEF Submitted, Run
<1>2. /\ txs' \in Seq({"PENDING", "SUCCESS", "FAILED"}) /\ Len(txs') = Len(txs) + 1
      /\ \A i \in 1..Len(txs') : txs'[i] = "SUCCESS" => campaign.scenario \in judged
  BY Appended, Sending
<1>3. campaign' = campaign /\ task' \in {"idle", "read", "reread", "receipt"}
  BY DEF Poll, End, Await
<1>4. RunSound'
  <2>1. run'.tx <= Len(txs') /\ Len(txs') <= run'.tries /\ run'.provider = "SUCCESS"
    BY <1>1, <1>2, Sending, RunIs
  <2> QED
    BY <1>0, <1>1, <1>2, <1>3, <2>1 DEF RunSound
<1>5. CASE task = "send"
  <2>1. Poll(Submitted)
    BY <1>5
  <2> HIDE DEF Sent
  <2> QED
    BY <1>0, <1>1, <1>2, <1>4, <2>1, UnderWay, Polling
<1>6. CASE task # "send"
  <2>1. Await("reread")
    BY <1>6
  <2> HIDE DEF Sent
  <2> QED
    BY <1>0, <1>1, <1>2, <1>4, <2>1, Awaiting
<1> QED
  BY <1>5, <1>6

LEMMA FeeSendFails == ASSUME FeeInv, SendFails PROVE FeeInv'
<1> USE DEF Outside, SendFails
<1>0. task # "idle" /\ UNCHANGED <<callers, arc, judged, late>> /\ faults' \in 0..MaxFaults /\ run' = run
  BY FaultCounted
<1>1. /\ txs' \in Seq({"PENDING", "SUCCESS", "FAILED"}) /\ Len(txs') \in {Len(txs), Len(txs) + 1}
      /\ \A i \in 1..Len(txs') : txs'[i] = "SUCCESS" => campaign.scenario \in judged
  BY Appended, Sending, RunIs
<1>2. campaign' = campaign /\ (task' \in {"idle", "read", "reread"} \/ (task' = "receipt" /\ run.tx # 0))
  BY DEF Poll, End, Await
<1>3. RunSound'
  <2>1. run'.tx <= Len(txs') /\ Len(txs') <= run'.tries /\ run'.provider = "SUCCESS"
    BY <1>0, <1>1, Sending, RunIs DEF FeeInv, RunSound
  <2> QED
    BY <1>0, <1>1, <1>2, <2>1 DEF RunSound
<1>4. CASE task = "send"
  <2>1. Poll(run)
    BY <1>4
  <2> HIDE DEF SendFails
  <2> QED
    BY <1>0, <1>1, <1>3, <2>1, UnderWay, RunIs, Polling
<1>5. CASE task # "send"
  <2>1. Await("reread")
    BY <1>5
  <2> HIDE DEF SendFails
  <2> QED
    BY <1>0, <1>1, <1>3, <2>1, RunIs, Awaiting
<1> QED
  BY <1>4, <1>5

\* The scenario at hand is over with a scorecard.
LEMMA FeeScored ==
  ASSUME FeeInv, Scored, Known, task # "idle", UNCHANGED <<Outside, genlayer, faults>>
  PROVE  FeeInv'
<1> USE DEF Outside, genlayer
<1> DEFINE c == [state |-> IF campaign.scenario = Scenarios THEN "FINALIZED" ELSE "RUNNING",
                 scenario |-> campaign.scenario + 1, attempt |-> 0, open |-> FALSE]
<1>1. campaign.scenario \in 1..Scenarios /\ Scenarios \in Nat /\ MaxProviderAttempts \in Nat \ {0}
  BY UnderWay, EvaluationAssumption
<1>2. c \in Campaign
  BY <1>1 DEF Campaign, Terminal
<1>3. End(c) /\ campaign' = c /\ task' = "idle" /\ run' = [run EXCEPT !.judge = "FINALIZED"]
  BY DEF Scored, End
<1>4. run' \in Run /\ run'.tries = run.tries /\ run'.tx = run.tx /\ run'.provider = run.provider
  BY <1>3 DEF FeeInv, EvaluationTypeOK, Run
<1>5. /\ c.scenario = campaign.scenario + 1 /\ c.attempt = 0 /\ ~c.open
      /\ c.state = IF campaign.scenario = Scenarios THEN "FINALIZED" ELSE "RUNNING"
  OBVIOUS
<1> HIDE DEF c
<1>6. CampaignSound'
  <2>1. \A s \in 1..Scenarios : s < c.scenario => s \in judged
    BY <1>1, <1>5 DEF Known, FeeInv, CampaignSound
  <2> QED
    BY <1>1, <1>3, <1>5, <2>1 DEF CampaignSound, Terminal
<1>7. RunSound'
  BY <1>3, <1>4, <1>5 DEF FeeInv, RunSound
<1> QED
  BY <1>2, <1>3, <1>4, <1>6, <1>7, UnderWay, RunIs, Ending

\* The campaign ends without the scenario's scorecard.
LEMMA GivingUp ==
  ASSUME FeeInv, task # "idle", NEW s \in {"FAILED", "RECOVERY_REQUIRED"}, End(Ended(s)),
         NEW j \in {"FAILED", "RECOVERY_REQUIRED"}, run' = [run EXCEPT !.judge = j],
         UNCHANGED <<Outside, genlayer, faults>>
  PROVE  FeeInv'
<1> USE DEF Outside, genlayer
<1>1. /\ Ended(s) \in Campaign /\ Ended(s).state = s /\ Ended(s).scenario = campaign.scenario
      /\ Ended(s).open = campaign.open
  BY CampaignIs DEF Terminal
<1>2. run' \in Run /\ run'.tries = run.tries /\ run'.tx = run.tx /\ run'.provider = run.provider
  BY DEF FeeInv, EvaluationTypeOK, Run
<1>3. campaign' = Ended(s) /\ task' = "idle"
  BY DEF End
<1>4. CampaignSound'
  BY <1>1, <1>3, UnderWay, CampaignIs DEF FeeInv, CampaignSound, Terminal
<1>5. RunSound'
  BY <1>1, <1>2, <1>3 DEF FeeInv, RunSound
<1> QED
  BY <1>1, <1>2, <1>4, <1>5, UnderWay, RunIs, Ending

\* The advance ends, the campaign and the run as they were.
LEMMA Leaving ==
  ASSUME FeeInv, task # "idle", End(campaign), UNCHANGED <<run, Outside, genlayer>>, faults' \in 0..MaxFaults
  PROVE  FeeInv'
<1> USE DEF Outside, genlayer
<1>1. RunSound'
  BY RunKept DEF End
<1> QED
  BY <1>1, UnderWay, RunIs, Pausing

LEMMA FeeUnresolved ==
  ASSUME FeeInv, Unresolved, task # "idle", UNCHANGED <<Outside, genlayer, faults>>
  PROVE  FeeInv'
<1>1. CASE run.tries >= MaxSubmissions /\ late = 2
  BY <1>1, GivingUp DEF Unresolved
<1>2. CASE ~(run.tries >= MaxSubmissions /\ late = 2)
  BY <1>2, RunIs, Leaving DEF Unresolved
<1> QED
  BY <1>1, <1>2

\* A read that goes on to another.
LEMMA ReadingOn ==
  ASSUME FeeInv, task \notin {"idle", "generate"}, NEW pc \in {"reread", "receipt"}, Await(pc), pc = "receipt" => run.tx # 0,
         UNCHANGED <<run, Outside, genlayer, faults>>
  PROVE  FeeInv'
<1> USE DEF Outside, genlayer
<1>1. run.provider = "SUCCESS"
  BY DEF FeeInv, RunSound
<1>2. RunSound'
  BY <1>1, RunKept DEF Await
<1> QED
  BY <1>2, RunIs, Awaiting

LEMMA FeeRead == ASSUME FeeInv, Read PROVE FeeInv'
<1>0. task = "read" /\ task # "idle" /\ UNCHANGED <<Outside, genlayer, faults>>
  BY DEF Read
<1>1. CASE Known /\ Scored
  BY <1>0, <1>1, FeeScored
<1>2. CASE Await("reread") /\ UNCHANGED run
  BY <1>0, <1>2, ReadingOn
<1>3. CASE run.tries < MaxSubmissions /\ Await("replay") /\ run' = [run EXCEPT !.tries = @ + 1]
  <2>1. /\ run' \in Run /\ run'.tries = run.tries + 1 /\ run'.tx = run.tx /\ run'.provider = run.provider
    BY <1>3, RunIs DEF Run
  <2>2. RunSound'
    <3>1. Len(txs) < run'.tries
      BY <2>1, RunIs DEF FeeInv, RunSound
    <3> QED
      BY <1>0, <1>3, <2>1, <3>1, RunIs DEF FeeInv, RunSound, Await, genlayer
  <2> QED
    BY <1>0, <1>3, <2>1, <2>2, RunIs, Awaiting DEF Outside, genlayer
<1>4. CASE Unresolved
  BY <1>0, <1>4, FeeUnresolved
<1> QED
  BY <1>1, <1>2, <1>3, <1>4 DEF Read

LEMMA FeeReread == ASSUME FeeInv, Reread PROVE FeeInv'
<1>0. task \notin {"idle", "generate"} /\ task # "idle" /\ UNCHANGED <<Outside, genlayer, faults>>
  BY DEF Reread
<1>1. CASE Known /\ Scored
  BY <1>0, <1>1, FeeScored
<1>2. CASE run.tx # 0 /\ Await("receipt") /\ UNCHANGED run
  BY <1>0, <1>2, ReadingOn
<1>3. CASE Unresolved
  BY <1>0, <1>3, FeeUnresolved
<1> QED
  BY <1>1, <1>2, <1>3 DEF Reread

LEMMA FeeReceipt == ASSUME FeeInv, Receipt PROVE FeeInv'
<1>0. task = "receipt" /\ task # "idle" /\ UNCHANGED <<Outside, genlayer, faults>>
  BY DEF Receipt
<1>1. run.tx \in 1..Len(txs) /\ txs[run.tx] \in {"PENDING", "SUCCESS", "FAILED"}
  BY <1>0, RunIs DEF FeeInv, RunSound
<1>2. CASE txs[run.tx] = "SUCCESS"
  <2>1. Await("verdict") /\ UNCHANGED run
    BY <1>2 DEF Receipt, Accepted
  <2>2. campaign.scenario \in judged
    BY <1>0, <1>1, <1>2, UnderWay DEF FeeInv, RunSound
  <2>3. RunSound'
    BY <1>0, <2>1, <2>2 DEF FeeInv, RunSound, Await, genlayer
  <2> QED
    BY <1>0, <2>1, <2>3, RunIs, Awaiting DEF Outside, genlayer
<1>3. CASE txs[run.tx] = "PENDING"
  BY <1>0, <1>3, RunIs, Leaving DEF Receipt, Accepted
<1>4. CASE txs[run.tx] = "FAILED"
  BY <1>0, <1>4, GivingUp DEF Receipt, Accepted
<1> QED
  BY <1>1, <1>2, <1>3, <1>4

LEMMA FeeVerdict == ASSUME FeeInv, Verdict PROVE FeeInv'
  BY FeeScored DEF Verdict, Known, FeeInv, RunSound

LEMMA FeeReadFails == ASSUME FeeInv, ReadFails PROVE FeeInv'
  BY FaultCounted, Leaving DEF ReadFails

-----------------------------------------------------------------------------
(* The process ends. *)

LEMMA FeeCrash == ASSUME FeeInv, Crash PROVE FeeInv'
<1> USE DEF Crash
<1>0. /\ sends \in Seq({"PENDING", "SUCCESS", "REVERTED"}) /\ Len(sends) <= MaxSettlements /\ MaxSettlements \in Nat
      /\ UNCHANGED <<fee, campaign, run, due, judged, late>>
  BY EvaluationAssumption DEF FeeInv, EvaluationTypeOK
<1>1. /\ sends' \in Seq({"PENDING", "SUCCESS", "REVERTED"}) /\ Len(sends') <= MaxSettlements
      /\ \A i \in 1..Len(sends') : sends'[i] = "SUCCESS" => i \in 1..Len(sends) /\ sends[i] = "SUCCESS"
      /\ sends' # <<>> => sends # <<>> \/ settling = "send"
  BY <1>0
<1>2. /\ txs' \in Seq({"PENDING", "SUCCESS", "FAILED"}) /\ Len(txs') <= run.tries /\ Len(txs) <= Len(txs')
      /\ \A i \in 1..Len(txs') : txs'[i] = "SUCCESS" => i \in 1..Len(txs) /\ txs[i] = "SUCCESS"
      /\ txs' # txs => run.provider = "SUCCESS"
  <2>1. CASE txs' = txs
    BY <2>1, RunIs DEF FeeInv, RunSound
  <2>2. CASE txs' # txs
    <3>1. txs' = Append(txs, "PENDING") /\ task \in {"send", "replay"}
      BY <2>2
    <3> HIDE DEF Crash
    <3> QED
      BY <3>1, Appended, Sending, RunIs
  <2> QED
    BY <2>1, <2>2
<1>3. /\ payment' \in {payment, "HELD"} /\ (payment # "NONE" => payment' = payment)
      /\ task' = "idle" /\ settling' = "idle" /\ holding' = {} /\ claim' = "idle"
  BY DEF FeeInv, EvaluationTypeOK
<1>4. stale' \subseteq {"advance", "submit", "poll"}
  BY DEF FeeInv, EvaluationTypeOK, LeasesOf
<1>5. Len(txs') <= MaxSubmissions
  BY <1>2, RunIs
<1>6. EvaluationTypeOK'
  <2>1. faults' \in 0..MaxFaults
    BY FaultCounted
  <2> HIDE DEF Crash
  <2> QED
    BY <1>0, <1>1, <1>2, <1>3, <1>4, <1>5, <2>1 DEF FeeInv, EvaluationTypeOK
<1>7. CampaignSound'
  BY <1>0, <1>3 DEF FeeInv, CampaignSound
<1>8. RunSound'
  BY <1>0, <1>2, <1>3, RunIs DEF FeeInv, RunSound
<1>9. PaymentSound'
  BY <1>0, <1>1, <1>3 DEF FeeInv, PaymentSound, CampaignOver, Target
<1> QED
  BY <1>6, <1>7, <1>8, <1>9 DEF FeeInv

LEMMA FeeLeaseEnds == ASSUME FeeInv, NEW l \in stale, LeaseEnds(l) PROVE FeeInv'
<1> USE DEF LeaseEnds, Outside, callers, arc, genlayer
<1>1. EvaluationTypeOK'
  BY DEF FeeInv, EvaluationTypeOK
<1>2. CampaignSound' /\ RunSound'
  BY CampaignKept
<1>3. PaymentSound'
  BY DEF FeeInv, PaymentSound, CampaignOver, Target
<1> QED
  BY <1>1, <1>2, <1>3 DEF FeeInv

LEMMA FeeStutter == ASSUME FeeInv, UNCHANGED evaluationVars PROVE FeeInv'
<1> USE DEF evaluationVars, records, callers, arc, genlayer
<1>1. EvaluationTypeOK'
  BY DEF FeeInv, EvaluationTypeOK
<1>2. CampaignSound' /\ RunSound'
  BY CampaignKept
<1>3. PaymentSound'
  BY DEF FeeInv, PaymentSound, CampaignOver, Target
<1> QED
  BY <1>1, <1>2, <1>3 DEF FeeInv

LEMMA FeeGoesOn == FeeInv /\ [EvaluationNext]_evaluationVars => FeeInv'
<1> SUFFICES ASSUME FeeInv, [EvaluationNext]_evaluationVars PROVE FeeInv'
  OBVIOUS
<1>1. CASE \E r \in Requests : Start(r) \/ HoldFails(r) \/ Held(r)
  BY <1>1, FeeAsked, FeeHoldFails
<1>2. CASE Deposit
  BY <1>2, FeeDeposit
<1>3. CASE DelayPasses \/ Clock
  BY <1>3, FeeDelay
<1>4. CASE Claim \/ MineClaim \/ RecordTimeoutRefund
  BY <1>4, FeeClaim
<1>5. CASE \E i \in 1..Len(sends) : MineSettlement(i)
  BY <1>5, FeeMined
<1>6. CASE \E i \in 1..Len(txs) : Finalize(i)
  BY <1>6, FeeFinalize
<1>7. CASE Tick \/ Advance
  BY <1>7, FeeAdvance
<1>8. CASE CampaignStep
  BY <1>8, FeeGenerate, FeeSent, FeeRead, FeeReread, FeeReceipt, FeeVerdict DEF CampaignStep
<1>9. CASE CheckPayment \/ SendSettlement \/ WaitSettlement \/ RecheckPayment \/ SettlementFails
  BY <1>9, FeeSettlement
<1>10. CASE SendFails
  BY <1>10, FeeSendFails
<1>11. CASE ReadFails
  BY <1>11, FeeReadFails
<1>12. CASE Crash
  BY <1>12, FeeCrash
<1>13. CASE \E l \in stale : LeaseEnds(l)
  BY <1>13, FeeLeaseEnds
<1>14. CASE UNCHANGED evaluationVars
  BY <1>14, FeeStutter
<1> QED
  BY <1>1, <1>2, <1>3, <1>4, <1>5, <1>6, <1>7, <1>8, <1>9, <1>10, <1>11, <1>12, <1>13, <1>14
     DEF EvaluationNext, FeeStep

\* Whatever is asked, answered, lost or crashed, and in whatever order requests and
\* settlements write back the fee record they read before an await, it never runs
\* ahead of Arc, the platform is paid only for a campaign whose every scenario has a
\* canonical scorecard, and the operator refunds only one that failed.
THEOREM FeeAlwaysTruthful == EvaluationSpec => []FeeTruthful
<1>1. FeeInv => FeeTruthful
  <2> SUFFICES ASSUME FeeInv PROVE FeeTruthful
    OBVIOUS
  <2>1. campaign.state = "FINALIZED" => judged = 1..Scenarios
    <3>1. judged \subseteq 1..Scenarios /\ Scenarios \in Nat
      BY EvaluationAssumption DEF FeeInv, EvaluationTypeOK
    <3>2. campaign.state = "FINALIZED" => 1..Scenarios \subseteq judged
      BY <3>1 DEF FeeInv, CampaignSound
    <3> QED
      BY <3>1, <3>2
  <2> QED
    BY <2>1 DEF FeeInv, PaymentSound, FeeTruthful
<1> QED
  BY <1>1, FeeInit, FeeGoesOn, PTL DEF EvaluationSpec

\* The records of an evaluation, its calls and what they are made to stay within
\* their types: a run is never sent more often than it may be.
THEOREM EvaluationTyped == EvaluationSpec => []EvaluationTypeOK
<1>1. FeeInv => EvaluationTypeOK
  BY DEF FeeInv
<1> QED
  BY <1>1, FeeInit, FeeGoesOn, PTL DEF EvaluationSpec

-----------------------------------------------------------------------------
(* The number of attempts. *)

\* A set of natural numbers that has a member has a least one.
LEMMA LeastOf ==
  ASSUME NEW U, U \subseteq Nat, U # {}
  PROVE  \E m \in U : \A n \in U : m <= n
<1>1. PICK m \in U : \A n \in U : <<n, m>> \notin OpToRel(<, Nat)
  BY NatLessThanWellFounded, WFMin, Zenon
<1>2. \A n \in U : n \in Nat /\ m \in Nat /\ ~(n < m)
  BY <1>1, Zenon DEF OpToRel
<1> QED
  BY <1>2

\* A finite one has a greatest: the number with the fewest above it.
LEMMA GreatestOf ==
  ASSUME NEW U, U \subseteq Nat, U # {}, IsFiniteSet(U)
  PROVE  Max(U) \in U /\ \A n \in U : n <= Max(U)
<1> DEFINE Above(x) == {y \in U : y > x}
           Counts == {Cardinality(Above(x)) : x \in U}
<1>1. \A x \in U : IsFiniteSet(Above(x)) /\ Cardinality(Above(x)) \in Nat
  BY FS_Subset, FS_CardinalityType
<1>2. Counts \subseteq Nat /\ Counts # {}
  BY <1>1
<1>3. PICK c \in Counts : \A d \in Counts : c <= d
  <2> HIDE DEF Counts
  <2> QED
    BY <1>2, LeastOf
<1>4. PICK x \in U : c = Cardinality(Above(x))
  BY <1>3
<1>5. \A n \in U : n <= x
  <2> SUFFICES ASSUME NEW n \in U, n > x PROVE FALSE
    BY <1>4
  <2>1. Above(n) \subseteq Above(x) /\ n \in Above(x) /\ n \notin Above(n)
    BY <1>4
  <2>2. Cardinality(Above(n)) < Cardinality(Above(x))
    <3> HIDE DEF Above
    <3>1. Cardinality(Above(n)) <= Cardinality(Above(x))
      BY <1>1, <1>4, <2>1, FS_Subset
    <3>2. Cardinality(Above(n)) # Cardinality(Above(x))
      BY <1>1, <1>4, <2>1, FS_Subset
    <3> QED
      BY <1>1, <1>4, <3>1, <3>2
  <2>3. c <= Cardinality(Above(n))
    BY <1>3
  <2> QED
    BY <1>1, <1>4, <2>2, <2>3
<1>6. \E z \in U : \A y \in U : z >= y
  BY <1>4, <1>5
<1>7. Max(U) \in U /\ \A y \in U : Max(U) >= y
  BY <1>6 DEF Max
<1> QED
  BY <1>7

\* The batches of the input are of matches, and its attempts are attempts.
LEMMA InputIs ==
  ASSUME input \in Inputs
  PROVE  /\ input.batches \in Seq(SUBSET Nat) /\ Len(input.batches) \in Nat \ {0}
         /\ DOMAIN input.batches = 1..Len(input.batches)
         /\ \A j \in 1..Len(input.batches) : input.batches[j] \subseteq Matches
         /\ UNION Range(input.batches) = UNION {input.batches[j] : j \in 1..Len(input.batches)}
         /\ input.retryCap \in Nat \ {0} /\ MaxCap \in Nat /\ input.retryCap <= MaxCap
         /\ \A m \in Matches, k \in 1..input.retryCap : <<m, k>> \in Attempts
<1>1. /\ input.batches \in Seq(SUBSET Nat) /\ Len(input.batches) \in Nat \ {0}
      /\ DOMAIN input.batches = 1..Len(input.batches) /\ input.retryCap \in Nat \ {0}
  <2>1. input \in Input /\ input.batches # <<>>
    BY MatchJudgingAssumption
  <2> QED
    BY <2>1 DEF Input
<1>2. \A j \in 1..Len(input.batches) : input.batches[j] \subseteq Matches
  BY <1>1 DEF Matches, Range
<1>3. MaxCap \in Nat /\ input.retryCap <= MaxCap
  <2> DEFINE Caps == {i.retryCap : i \in Inputs}
  <2>1. Caps \subseteq Nat /\ input.retryCap \in Caps
    BY MatchJudgingAssumption DEF Input
  <2>2. IsFiniteSet(Caps)
    <3> DEFINE capOf == [i \in Inputs |-> i.retryCap]
    <3>1. capOf \in Surjection(Inputs, Caps)
      BY DEF Surjection
    <3> QED
      BY <3>1, MatchJudgingAssumption, FS_Surjection
  <2> HIDE DEF Caps
  <2>3. Max(Caps) \in Caps /\ input.retryCap <= Max(Caps)
    BY <2>1, <2>2, GreatestOf
  <2> QED
    BY <2>1, <2>3 DEF Caps, MaxCap
<1>4. UNION Range(input.batches) = UNION {input.batches[j] : j \in 1..Len(input.batches)}
  BY <1>1 DEF Range
<1>5. \A m \in Matches, k \in 1..input.retryCap : <<m, k>> \in Attempts
  BY <1>1, <1>3 DEF Attempts
<1> QED
  BY <1>1, <1>2, <1>3, <1>4, <1>5

-----------------------------------------------------------------------------
(* What matches, answers and transactions are to each other. *)

Working == {"infer", "queue", "send", "poll", "canonical"}

\* A whole pair of answers of the attempt's stored route.
Answered(a, route) == route \in answers[a] /\ (route = "FALLBACK" <=> a \in fallback)
SentFor(a, tx) == tx \in 1..Len(judgeTxs) /\ judgeTxs[tx].attempt = a
Earned(m, w) == \E k \in 1..input.retryCap : verdicts[<<m, k>>] = w

TaskFits(m, t) ==
    /\ t.pc \in Working => t.n <= input.retryCap /\ <<m, t.n>> \notin Abandoned
    /\ t.pc \in {"queue", "send"} => Answered(<<m, t.n>>, t.route)
    /\ t.pc \in {"poll", "canonical"} => SentFor(<<m, t.n>>, t.record.tx)
    /\ t.pc = "canonical" => judgeTxs[t.record.tx].status \in Results
    /\ t.pc = "over" => t.found \in Found /\ (t.found \in Wins => Earned(m, t.found))
TasksFit == \A r \in Runs, m \in Matches : TaskFits(m, execution[r].task[m])

\* The tasks of a run are those of its batch.
TasksPlaced ==
    \A r \in Runs, m \in Matches :
        execution[r].task[m].pc # "off" => execution[r].batch # 0 /\ m \in input.batches[execution[r].batch]

\* What run w kept was earned, and nothing is missing of the batches it got past
\* unless a match is blocked.
RunFits(w) ==
    /\ w.batch \in 0..Len(input.batches)
    /\ w.batch # 0 => w.answer = None
    /\ w.batch # 0 /\ w.blocked = {} =>
          \A j \in 1..(w.batch - 1) : \A m \in input.batches[j] : w.results[m] \in Wins
    /\ w.answer = "RANKING" =>
          \A j \in 1..Len(input.batches) : \A m \in input.batches[j] : w.results[m] \in Wins
    /\ \A m \in Matches : w.results[m] \in Wins => Earned(m, w.results[m])
RunsFit == \A r \in Runs : RunFits(execution[r])

TxFits(x) ==
    /\ Answered(x.attempt, x.route) /\ x.attempt \notin Abandoned /\ x.attempt[2] <= input.retryCap
    /\ x.status \in Results => verdicts[x.attempt] = x.status
TxsFit == \A i \in 1..Len(judgeTxs) : TxFits(judgeTxs[i])
SubmissionsFit == \A a \in Attempts : submission[a].tx # 0 => SentFor(a, submission[a].tx)
VerdictsFit ==
    \A a \in Attempts : verdicts[a] \in Results =>
        \E i \in 1..Len(judgeTxs) : judgeTxs[i].attempt = a /\ judgeTxs[i].status = verdicts[a]

\* While no call failed: an attempt is sent once, by the one sender there is, and
\* only after the earlier attempts of its match were closed without a winner.
Closed(m, k) ==
    \/ <<m, k>> \in Abandoned
    \/ \E i \in 1..Len(judgeTxs) : judgeTxs[i].attempt = <<m, k>> /\ judgeTxs[i].status \in {"NO_CONSENSUS", "TIE"}
InTurn(m, n) == \A k \in 1..(n - 1) : Closed(m, k)

SentOnce == \A i \in 1..Len(judgeTxs) : submission[judgeTxs[i].attempt].tx = i
OneSender ==
    \A r \in Runs, m \in Matches :
        LET t == execution[r].task[m]
        IN  t.pc = "send" => sender = <<r, m>> /\ submission[<<m, t.n>>].tx = 0
TasksInTurn ==
    \A r \in Runs, m \in Matches :
        execution[r].task[m].pc \in Working => InTurn(m, execution[r].task[m].n)
TxsInTurn == \A i \in 1..Len(judgeTxs) : InTurn(judgeTxs[i].attempt[1], judgeTxs[i].attempt[2])
Calm == mishaps = 0 => SentOnce /\ OneSender /\ TasksInTurn /\ TxsInTurn

Fitting == TasksFit /\ TasksPlaced /\ RunsFit /\ TxsFit /\ SubmissionsFit /\ VerdictsFit
JudgingInv == JudgingTypeOK /\ Fitting /\ Calm

-----------------------------------------------------------------------------
(* What later steps leave standing. *)

\* Transactions keep their attempts and final results, verdicts and answers stay,
\* and an attempt that was answered on the first route never turns to the second.
Later ==
    /\ input' = input /\ Len(judgeTxs) <= Len(judgeTxs')
    /\ \A i \in 1..Len(judgeTxs) :
          /\ judgeTxs'[i].attempt = judgeTxs[i].attempt /\ judgeTxs'[i].route = judgeTxs[i].route
          /\ judgeTxs[i].status # "PENDING" => judgeTxs'[i].status = judgeTxs[i].status
    /\ \A a \in Attempts : verdicts[a] \in Results => verdicts'[a] = verdicts[a]
    /\ \A a \in Attempts : answers[a] \subseteq answers'[a]
    /\ fallback \subseteq fallback'
    /\ \A a \in fallback' : a \in fallback \/ "PRIMARY" \notin answers[a]

LEMMA RecordsAre ==
  ASSUME JudgingTypeOK
  PROVE  /\ input \in Inputs /\ judgeTxs \in Seq(Tx) /\ Len(judgeTxs) \in Nat /\ MaxSends \in Nat
         /\ Len(judgeTxs) <= MaxSends
         /\ \A i \in 1..Len(judgeTxs) :
               /\ judgeTxs[i] \in Tx /\ judgeTxs[i].attempt \in Attempts /\ judgeTxs[i].route \in Routes
               /\ judgeTxs[i].status \in Results \cup {"PENDING", "NO_CONSENSUS", "FAILED"}
         /\ \A a \in Attempts : /\ submission[a] \in Submission /\ submission[a].tx \in Hash
                                /\ answers[a] \subseteq Routes
         /\ mishaps \in Nat
<1>1. /\ input \in Inputs /\ judgeTxs \in Seq(Tx) /\ Len(judgeTxs) \in Nat /\ MaxSends \in Nat
      /\ Len(judgeTxs) <= MaxSends /\ mishaps \in Nat
  BY MatchJudgingAssumption DEF JudgingTypeOK
<1>2. \A i \in 1..Len(judgeTxs) : judgeTxs[i] \in Tx
  BY <1>1
<1>3. \A i \in 1..Len(judgeTxs) :
         /\ judgeTxs[i].attempt \in Attempts /\ judgeTxs[i].route \in Routes
         /\ judgeTxs[i].status \in Results \cup {"PENDING", "NO_CONSENSUS", "FAILED"}
  BY <1>2 DEF Tx
<1>4. \A a \in Attempts : /\ submission[a] \in Submission /\ submission[a].tx \in Hash
                          /\ answers[a] \subseteq Routes
  BY DEF JudgingTypeOK, Submission
<1> QED
  BY <1>1, <1>2, <1>3, <1>4

LEMMA ExecutionsAre ==
  ASSUME JudgingTypeOK
  PROVE  \A r \in Runs :
            /\ execution[r] \in Execution /\ execution[r].batch \in Nat
            /\ \A m \in Matches :
                  /\ execution[r].task[m] \in Task /\ execution[r].task[m].n \in 1..MaxCap
                  /\ execution[r].task[m].pc \in Pc /\ execution[r].results[m] \in Wins \cup {None}
                  /\ execution[r].task[m].record \in Submission /\ execution[r].task[m].record.tx \in Hash
                  /\ execution[r].task[m].record.route \in Routes \cup {None}
  BY DEF JudgingTypeOK, Execution, Task, Submission

\* A task at work is of an attempt.
LEMMA AttemptAtWork ==
  ASSUME JudgingInv, NEW r \in Runs, NEW m \in Matches, execution[r].task[m].pc \in Working
  PROVE  /\ <<m, execution[r].task[m].n>> \in Attempts /\ execution[r].task[m].n \in 1..input.retryCap
         /\ <<m, execution[r].task[m].n>> \notin Abandoned /\ execution[r].task[m].n \in Nat \ {0}
<1>1. execution[r].task[m].n \in 1..MaxCap /\ MaxCap \in Nat /\ input.retryCap \in Nat
  BY ExecutionsAre, RecordsAre, InputIs DEF JudgingInv
<1>2. TaskFits(m, execution[r].task[m])
  BY DEF JudgingInv, Fitting, TasksFit
<1> QED
  BY <1>1, <1>2, RecordsAre, InputIs DEF JudgingInv, TaskFits

LEMMA LaterEarned == ASSUME JudgingTypeOK, Later, NEW m \in Matches, NEW w \in Wins, Earned(m, w) PROVE Earned(m, w)'
<1>1. PICK k \in 1..input.retryCap : verdicts[<<m, k>>] = w
  BY DEF Earned
<1>2. <<m, k>> \in Attempts
  BY <1>1, RecordsAre, InputIs
<1> QED
  BY <1>1, <1>2 DEF Earned, Later, Wins, Results

LEMMA LaterSent == ASSUME JudgingTypeOK, Later, NEW a, NEW tx, SentFor(a, tx) PROVE SentFor(a, tx)'
<1>1. Len(judgeTxs) \in Nat /\ tx \in 1..Len(judgeTxs)
  BY RecordsAre DEF SentFor
<1>2. tx \in 1..Len(judgeTxs')
  BY <1>1 DEF Later, JudgingTypeOK
<1> QED
  BY <1>1, <1>2 DEF SentFor, Later

LEMMA LaterAnswered ==
  ASSUME JudgingTypeOK, Later, NEW a \in Attempts, NEW route, Answered(a, route) PROVE Answered(a, route)'
<1>1. route \in Routes
  BY RecordsAre DEF Answered
<1> QED
  BY <1>1 DEF Answered, Later, Routes

LEMMA LaterClosed == ASSUME JudgingTypeOK, Later, NEW m, NEW n, InTurn(m, n) PROVE InTurn(m, n)'
<1> SUFFICES ASSUME NEW k \in 1..(n - 1) PROVE Closed(m, k)'
  BY DEF InTurn
<1>1. Closed(m, k)
  BY DEF InTurn
<1>2. ASSUME NEW i \in 1..Len(judgeTxs), judgeTxs[i].attempt = <<m, k>>, judgeTxs[i].status \in {"NO_CONSENSUS", "TIE"}
      PROVE  Closed(m, k)'
  <2>1. i \in 1..Len(judgeTxs')
    BY <1>2, LaterSent DEF SentFor
  <2> QED
    BY <1>2, <2>1 DEF Closed, Later
<1> QED
  BY <1>1, <1>2 DEF Closed

LEMMA LaterTask ==
  ASSUME JudgingTypeOK, Later, NEW m \in Matches, NEW t \in Task, TaskFits(m, t) PROVE TaskFits(m, t)'
<1>0. t.n \in 1..MaxCap /\ input.retryCap \in Nat /\ MaxCap \in Nat
  BY RecordsAre, InputIs DEF Task
<1>1. t.pc \in Working => t.n <= input'.retryCap /\ <<m, t.n>> \notin Abandoned
  BY DEF TaskFits, Later
<1>2. t.pc \in {"queue", "send"} => Answered(<<m, t.n>>, t.route)'
  <2>1. <<m, t.n>> \in Attempts
    BY <1>0 DEF Attempts
  <2> QED
    BY <2>1, LaterAnswered DEF TaskFits
<1>3. t.pc \in {"poll", "canonical"} => SentFor(<<m, t.n>>, t.record.tx)'
  BY LaterSent DEF TaskFits
<1>4. t.pc = "canonical" => judgeTxs'[t.record.tx].status \in Results
  BY DEF TaskFits, SentFor, Later, Results
<1>5. t.pc = "over" => t.found \in Found /\ (t.found \in Wins => Earned(m, t.found)')
  BY LaterEarned DEF TaskFits
<1> QED
  BY <1>1, <1>2, <1>3, <1>4, <1>5 DEF TaskFits

LEMMA LaterRun ==
  ASSUME JudgingTypeOK, Later, NEW w \in Execution, RunFits(w) PROVE RunFits(w)'
<1>1. \A m \in Matches : w.results[m] \in Wins => Earned(m, w.results[m])'
  BY LaterEarned DEF RunFits
<1> QED
  BY <1>1 DEF RunFits, Later

LEMMA LaterTx ==
  ASSUME JudgingTypeOK, Later, NEW x \in Tx, TxFits(x) PROVE TxFits(x)'
<1>1. x.attempt \in Attempts
  BY DEF Tx
<1>2. Answered(x.attempt, x.route)'
  BY <1>1, LaterAnswered DEF TxFits
<1> QED
  BY <1>1, <1>2 DEF TxFits, Later

-----------------------------------------------------------------------------
(* What a step of a task or of a run keeps. *)

LEMMA PutIs ==
  ASSUME JudgingTypeOK, NEW r \in Runs, NEW m \in Matches, NEW t \in Task, Put(r, m, t)
  PROVE  /\ execution' \in [Runs -> Execution]
         /\ execution'[r].task[m] = t
         /\ \A q \in Runs, n \in Matches :
               q # r \/ n # m => execution'[q].task[n] = execution[q].task[n]
         /\ \A q \in Runs : /\ execution'[q].batch = execution[q].batch /\ execution'[q].answer = execution[q].answer
                            /\ execution'[q].results = execution[q].results
                            /\ execution'[q].blocked = execution[q].blocked
<1>1. execution \in [Runs -> Execution] /\ execution' = [execution EXCEPT ![r].task[m] = t]
  BY DEF JudgingTypeOK, Put
<1>2. execution[r].task \in [Matches -> Task]
  BY <1>1 DEF Execution
<1>3. [execution[r].task EXCEPT ![m] = t] \in [Matches -> Task]
  BY <1>2
<1>4. execution' = [execution EXCEPT ![r] = [execution[r] EXCEPT !.task = [execution[r].task EXCEPT ![m] = t]]]
  BY <1>1
<1>5. [execution[r] EXCEPT !.task = [execution[r].task EXCEPT ![m] = t]] \in Execution
  BY <1>1, <1>3 DEF Execution
<1>6. execution' \in [Runs -> Execution]
  BY <1>1, <1>4, <1>5
<1>7. execution'[r] = [execution[r] EXCEPT !.task = [execution[r].task EXCEPT ![m] = t]]
  BY <1>1, <1>4
<1>8. \A q \in Runs : q # r => execution'[q] = execution[q]
  BY <1>1, <1>4
<1>9. execution[r] \in Execution
  BY <1>1
<1>10. /\ execution'[r].task = [execution[r].task EXCEPT ![m] = t]
       /\ execution'[r].batch = execution[r].batch /\ execution'[r].answer = execution[r].answer
       /\ execution'[r].results = execution[r].results /\ execution'[r].blocked = execution[r].blocked
  BY <1>7, <1>9 DEF Execution
<1> QED
  BY <1>2, <1>6, <1>8, <1>10

LEMMA TaskGoesOn ==
  ASSUME JudgingInv, Later, NEW r \in Runs, NEW m \in Matches, execution[r].task[m].pc \in Working,
         NEW t \in Task, Put(r, m, t), TaskFits(m, t)'
  PROVE  execution' \in [Runs -> Execution] /\ TasksFit' /\ TasksPlaced' /\ RunsFit'
<1>1. execution' \in [Runs -> Execution]
  BY PutIs DEF JudgingInv
<1>2. TasksFit'
  <2> SUFFICES ASSUME NEW q \in Runs, NEW n \in Matches PROVE TaskFits(n, execution[q].task[n])'
    BY DEF TasksFit
  <2>1. CASE q = r /\ n = m
    <3>1. execution'[q].task[n] = t
      BY <2>1, PutIs DEF JudgingInv
    <3> QED
      BY <2>1, <3>1 DEF TaskFits, Answered, SentFor, Earned
  <2>2. CASE ~(q = r /\ n = m)
    <3> DEFINE u == execution[q].task[n]
    <3>1. u \in Task /\ TaskFits(n, u)
      BY ExecutionsAre DEF JudgingInv, Fitting, TasksFit
    <3>2. execution'[q].task[n] = u
      BY <2>2, PutIs DEF JudgingInv
    <3>3. \A v \in Task : TaskFits(n, v) => TaskFits(n, v)'
      BY LaterTask DEF JudgingInv
    <3> QED
      BY <3>1, <3>2, <3>3 DEF TaskFits, Answered, SentFor, Earned
  <2> QED
    BY <2>1, <2>2
<1>3. TasksPlaced'
  <2>1. execution[r].task[m].pc # "off"
    BY DEF Working
  <2> QED
    BY <2>1, PutIs DEF JudgingInv, Fitting, TasksPlaced, Later
<1>4. RunsFit'
  <2> SUFFICES ASSUME NEW q \in Runs PROVE RunFits(execution[q])'
    BY DEF RunsFit
  <2>1. \A v \in Execution : RunFits(v) => RunFits(v)'
    BY LaterRun DEF JudgingInv
  <2>2. execution[q] \in Execution /\ RunFits(execution[q])
    BY ExecutionsAre DEF JudgingInv, Fitting, RunsFit
  <2>3. PICK v \in Execution : v = execution[q] /\ RunFits(v)'
    BY <2>1, <2>2
  <2> QED
    BY <2>3, PutIs DEF JudgingInv, RunFits, Earned
<1> QED
  BY <1>1, <1>2, <1>3, <1>4

LEMMA RunsStay ==
  ASSUME JudgingInv, Later, execution' = execution
  PROVE  TasksFit' /\ TasksPlaced' /\ RunsFit'
<1>1. TasksFit'
  <2> SUFFICES ASSUME NEW q \in Runs, NEW n \in Matches PROVE TaskFits(n, execution[q].task[n])'
    BY DEF TasksFit
  <2>1. \A v \in Task : TaskFits(n, v) => TaskFits(n, v)'
    BY LaterTask DEF JudgingInv
  <2>2. execution[q].task[n] \in Task /\ TaskFits(n, execution[q].task[n])
    BY ExecutionsAre DEF JudgingInv, Fitting, TasksFit
  <2> QED
    BY <2>1, <2>2 DEF TaskFits, Answered, SentFor, Earned
<1>2. TasksPlaced'
  BY DEF JudgingInv, Fitting, TasksPlaced, Later
<1>3. RunsFit'
  <2> SUFFICES ASSUME NEW q \in Runs PROVE RunFits(execution[q])'
    BY DEF RunsFit
  <2>1. \A v \in Execution : RunFits(v) => RunFits(v)'
    BY LaterRun DEF JudgingInv
  <2>2. execution[q] \in Execution /\ RunFits(execution[q])
    BY ExecutionsAre DEF JudgingInv, Fitting, RunsFit
  <2> QED
    BY <2>1, <2>2 DEF RunFits, Earned
<1> QED
  BY <1>1, <1>2, <1>3

\* The transactions there are, and a new one that is pending.
LEMMA TxsStay ==
  ASSUME JudgingInv, Later, UNCHANGED <<judgeTxs, verdicts>>
  PROVE  TxsFit' /\ VerdictsFit'
<1>1. TxsFit'
  <2> SUFFICES ASSUME NEW i \in 1..Len(judgeTxs) PROVE TxFits(judgeTxs[i])'
    BY DEF TxsFit
  <2>1. \A x \in Tx : TxFits(x) => TxFits(x)'
    BY LaterTx DEF JudgingInv
  <2>2. judgeTxs[i] \in Tx /\ TxFits(judgeTxs[i])
    BY RecordsAre DEF JudgingInv, Fitting, TxsFit
  <2> QED
    BY <2>1, <2>2 DEF TxFits
<1>2. VerdictsFit'
  BY DEF JudgingInv, Fitting, VerdictsFit
<1> QED
  BY <1>1, <1>2

LEMMA TxAdded ==
  ASSUME JudgingInv, NEW a \in Attempts, NEW route \in Routes, a \notin Abandoned, a[2] <= input.retryCap,
         Answered(a, route), Len(judgeTxs) < MaxSends, UNCHANGED <<input, answers, fallback, verdicts>>,
         judgeTxs' = Append(judgeTxs, [attempt |-> a, route |-> route, status |-> "PENDING"])
  PROVE  /\ Later /\ TxsFit' /\ VerdictsFit'
         /\ judgeTxs' \in Seq(Tx) /\ Len(judgeTxs') = Len(judgeTxs) + 1 /\ Len(judgeTxs') <= MaxSends
         /\ judgeTxs'[Len(judgeTxs) + 1].attempt = a
         /\ \A i \in 1..Len(judgeTxs) : judgeTxs'[i] = judgeTxs[i]
<1> DEFINE x == [attempt |-> a, route |-> route, status |-> "PENDING"]
<1>1. x \in Tx /\ x.attempt = a /\ x.route = route /\ x.status = "PENDING"
  BY DEF Tx
<1> HIDE DEF x
<1>2. judgeTxs \in Seq(Tx) /\ Len(judgeTxs) \in Nat /\ MaxSends \in Nat
  BY RecordsAre DEF JudgingInv
<1>3. judgeTxs' = Append(judgeTxs, x)
  BY DEF x
<1>4. /\ judgeTxs' \in Seq(Tx) /\ Len(judgeTxs') = Len(judgeTxs) + 1 /\ Len(judgeTxs') <= MaxSends
      /\ judgeTxs'[Len(judgeTxs) + 1] = x
      /\ \A i \in 1..Len(judgeTxs) : judgeTxs'[i] = judgeTxs[i]
  BY <1>1, <1>2, <1>3
<1>5. Later
  BY <1>2, <1>4 DEF Later
<1>6. TxsFit'
  <2> SUFFICES ASSUME NEW i \in 1..Len(judgeTxs') PROVE TxFits(judgeTxs[i])'
    BY DEF TxsFit
  <2>1. CASE i \in 1..Len(judgeTxs)
    <3>1. TxFits(judgeTxs[i]) /\ judgeTxs'[i] = judgeTxs[i]
      BY <1>4, <2>1 DEF JudgingInv, Fitting, TxsFit
    <3> QED
      BY <3>1 DEF TxFits, Answered
  <2>2. CASE i = Len(judgeTxs) + 1
    <3>1. judgeTxs'[i] = x
      BY <1>4, <2>2
    <3> QED
      BY <1>1, <3>1 DEF TxFits, Answered, Results
  <2> QED
    BY <1>2, <1>4, <2>1, <2>2
<1>7. VerdictsFit'
  <2> SUFFICES ASSUME NEW b \in Attempts, verdicts[b] \in Results
               PROVE  \E i \in 1..Len(judgeTxs') : judgeTxs'[i].attempt = b /\ judgeTxs'[i].status = verdicts[b]
    BY DEF VerdictsFit
  <2>1. PICK i \in 1..Len(judgeTxs) : judgeTxs[i].attempt = b /\ judgeTxs[i].status = verdicts[b]
    BY DEF JudgingInv, Fitting, VerdictsFit
  <2>2. i \in 1..Len(judgeTxs') /\ judgeTxs'[i] = judgeTxs[i]
    BY <1>2, <1>4
  <2> QED
    BY <2>1, <2>2
<1> QED
  BY <1>1, <1>4, <1>5, <1>6, <1>7

\* Submissions stay, or one becomes a copy that a task holds.
LEMMA SubmissionsStay ==
  ASSUME JudgingInv, Later, UNCHANGED submission
  PROVE  SubmissionsFit'
  BY LaterSent DEF JudgingInv, Fitting, SubmissionsFit

LEMMA SubmissionPut ==
  ASSUME JudgingInv, Later, NEW a \in Attempts, NEW s \in Submission, submission' = [submission EXCEPT ![a] = s],
         s.tx # 0 => SentFor(a, s.tx)'
  PROVE  SubmissionsFit' /\ submission' \in [Attempts -> Submission]
<1>1. submission \in [Attempts -> Submission]
  BY DEF JudgingInv, JudgingTypeOK
<1>2. \A b \in Attempts : submission'[b] = IF b = a THEN s ELSE submission[b]
  BY <1>1
<1>3. \A b \in Attempts : \A tx : submission[b].tx = tx /\ tx # 0 => SentFor(b, tx)'
  BY LaterSent DEF JudgingInv, Fitting, SubmissionsFit
<1>4. SubmissionsFit'
  BY <1>2, <1>3 DEF SubmissionsFit, SentFor
<1> QED
  BY <1>1, <1>4

\* Turns: tasks that go on in turn, and transactions that stay.
LEMMA TurnsKept ==
  ASSUME JudgingInv, Later, mishaps = 0
  PROVE  /\ \A r \in Runs, m \in Matches :
               \A n : execution[r].task[m].pc \in Working /\ execution[r].task[m].n = n => InTurn(m, n)'
         /\ \A i \in 1..Len(judgeTxs) : \A m, n :
               judgeTxs[i].attempt[1] = m /\ judgeTxs[i].attempt[2] = n => InTurn(m, n)'
  BY LaterClosed DEF JudgingInv, Calm, TasksInTurn, TxsInTurn

LEMMA TurnsStay ==
  ASSUME JudgingInv, Later, mishaps = 0, execution' = execution
  PROVE  TasksInTurn'
<1> SUFFICES ASSUME NEW r \in Runs, NEW m \in Matches, execution[r].task[m].pc \in Working
             PROVE  InTurn(m, execution[r].task[m].n)'
  BY DEF TasksInTurn
<1>1. PICK n : n = execution[r].task[m].n /\ InTurn(m, n)'
  BY TurnsKept
<1> QED
  BY <1>1 DEF InTurn, Closed

\* A task whose new state is in turn.
LEMMA TurnTaken ==
  ASSUME JudgingInv, Later, mishaps = 0, NEW r \in Runs, NEW m \in Matches, NEW t \in Task, Put(r, m, t),
         t.pc \in Working => InTurn(m, t.n)'
  PROVE  TasksInTurn'
<1> SUFFICES ASSUME NEW q \in Runs, NEW p \in Matches, execution'[q].task[p].pc \in Working
             PROVE  InTurn(p, execution[q].task[p].n)'
  BY DEF TasksInTurn
<1>1. PICK n : n = execution'[q].task[p].n /\ InTurn(p, n)'
  <2>1. CASE q = r /\ p = m
    BY <2>1, PutIs DEF JudgingInv
  <2>2. CASE ~(q = r /\ p = m)
    <3>1. execution'[q].task[p] = execution[q].task[p]
      BY <2>2, PutIs DEF JudgingInv
    <3> QED
      BY <3>1, TurnsKept
  <2> QED
    BY <2>1, <2>2
<1> QED
  BY <1>1 DEF InTurn, Closed

LEMMA TxTurnsStay ==
  ASSUME JudgingInv, Later, mishaps = 0, Len(judgeTxs') = Len(judgeTxs)
  PROVE  TxsInTurn'
<1> SUFFICES ASSUME NEW i \in 1..Len(judgeTxs) PROVE InTurn(judgeTxs[i].attempt[1], judgeTxs[i].attempt[2])'
  BY DEF TxsInTurn
<1>1. PICK m, n : m = judgeTxs[i].attempt[1] /\ n = judgeTxs[i].attempt[2] /\ InTurn(m, n)'
  BY TurnsKept
<1>2. judgeTxs'[i].attempt = judgeTxs[i].attempt
  BY DEF Later
<1> QED
  BY <1>1, <1>2 DEF InTurn, Closed

-----------------------------------------------------------------------------
(* GenLayer. *)

LEMMA InvFinalizeComparison ==
  ASSUME JudgingInv, NEW i \in 1..Len(judgeTxs), FinalizeComparison(i)
  PROVE  JudgingInv'
<1> DEFINE a == judgeTxs[i].attempt
           other == \E j \in 1..Len(judgeTxs) : /\ judgeTxs[j].attempt = a /\ judgeTxs[j].status \in Results
                                                /\ judgeTxs[j].route # judgeTxs[i].route
<1>0. /\ judgeTxs[i] \in Tx /\ a \in Attempts /\ judgeTxs[i].status = "PENDING"
      /\ UNCHANGED <<input, stored, execution, sender, expired, mishaps>>
      /\ judgeTxs \in Seq(Tx) /\ Len(judgeTxs) \in Nat
      /\ verdicts \in [Attempts -> Results \cup {None}]
  BY RecordsAre DEF JudgingInv, JudgingTypeOK, FinalizeComparison
<1>1. PICK s \in IF verdicts[a] = None THEN Results \cup {"NO_CONSENSUS", "FAILED"}
                 ELSE {IF other THEN "FAILED" ELSE verdicts[a]} :
              /\ judgeTxs' = [judgeTxs EXCEPT ![i].status = s]
              /\ verdicts' = IF s \in Results THEN [verdicts EXCEPT ![a] = s] ELSE verdicts
  BY DEF FinalizeComparison
<1>2. s \in Results \cup {"NO_CONSENSUS", "FAILED"} /\ (s \in Results /\ verdicts[a] \in Results => s = verdicts[a])
  BY <1>0, <1>1, MatchJudgingAssumption DEF Results
<1>3. /\ judgeTxs' \in Seq(Tx) /\ Len(judgeTxs') = Len(judgeTxs)
      /\ \A j \in 1..Len(judgeTxs) : j # i => judgeTxs'[j] = judgeTxs[j]
      /\ judgeTxs'[i] = [judgeTxs[i] EXCEPT !.status = s]
  <2>1. [judgeTxs[i] EXCEPT !.status = s] \in Tx
    BY <1>0, <1>2 DEF Tx
  <2>2. judgeTxs' = [judgeTxs EXCEPT ![i] = [judgeTxs[i] EXCEPT !.status = s]]
    BY <1>1
  <2> QED
    BY <1>0, <2>1, <2>2
<1>4. judgeTxs'[i].attempt = a /\ judgeTxs'[i].route = judgeTxs[i].route /\ judgeTxs'[i].status = s
  BY <1>0, <1>3 DEF Tx
<1>5. /\ verdicts' \in [Attempts -> Results \cup {None}]
      /\ \A b \in Attempts : b # a => verdicts'[b] = verdicts[b]
      /\ s \in Results => verdicts'[a] = s
      /\ s \notin Results => verdicts' = verdicts
  BY <1>0, <1>1
<1> HIDE DEF a, other
<1>6. Later
  <2>1. \A b \in Attempts : verdicts[b] \in Results => verdicts'[b] = verdicts[b]
    BY <1>2, <1>5
  <2>2. /\ \A j \in 1..Len(judgeTxs) :
              /\ judgeTxs'[j].attempt = judgeTxs[j].attempt /\ judgeTxs'[j].route = judgeTxs[j].route
              /\ judgeTxs[j].status # "PENDING" => judgeTxs'[j].status = judgeTxs[j].status
    BY <1>0, <1>3, <1>4 DEF a
  <2> QED
    BY <1>0, <1>3, <2>1, <2>2 DEF Later, stored
<1>7. JudgingTypeOK'
  BY <1>0, <1>3, <1>5 DEF JudgingInv, JudgingTypeOK, stored
<1>8. TxsFit'
  <2> SUFFICES ASSUME NEW j \in 1..Len(judgeTxs) PROVE TxFits(judgeTxs[j])'
    BY <1>3 DEF TxsFit
  <2>1. \A x \in Tx : TxFits(x) => TxFits(x)'
    BY <1>6, LaterTx DEF JudgingInv
  <2>2. judgeTxs[j] \in Tx /\ TxFits(judgeTxs[j])
    BY RecordsAre DEF JudgingInv, Fitting, TxsFit
  <2>3. CASE j # i
    BY <1>3, <2>1, <2>2, <2>3 DEF TxFits, Answered
  <2>4. CASE j = i
    <3>1. PICK x \in Tx : x = judgeTxs[i] /\ TxFits(x) /\ TxFits(x)'
      BY <2>1, <2>2, <2>4
    <3> QED
      BY <1>4, <1>5, <2>4, <3>1 DEF TxFits, Answered, a
  <2> QED
    BY <2>3, <2>4
<1>9. VerdictsFit'
  <2> SUFFICES ASSUME NEW b \in Attempts, verdicts'[b] \in Results
               PROVE  \E j \in 1..Len(judgeTxs) : judgeTxs'[j].attempt = b /\ judgeTxs'[j].status = verdicts'[b]
    BY <1>3 DEF VerdictsFit
  <2>1. CASE b = a /\ s \in Results
    BY <1>4, <1>5, <2>1
  <2>2. CASE ~(b = a /\ s \in Results)
    <3>1. verdicts[b] = verdicts'[b]
      BY <1>5, <2>2
    <3>2. PICK j \in 1..Len(judgeTxs) : judgeTxs[j].attempt = b /\ judgeTxs[j].status = verdicts[b]
      BY <3>1 DEF JudgingInv, Fitting, VerdictsFit
    <3>3. j # i
      BY <1>0, <3>1, <3>2 DEF Results
    <3> QED
      BY <1>3, <3>1, <3>2, <3>3
  <2> QED
    BY <2>1, <2>2
<1>10. SubmissionsFit'
  BY <1>0, <1>6, SubmissionsStay DEF stored
<1>11. Calm'
  <2> SUFFICES ASSUME mishaps = 0 PROVE SentOnce' /\ OneSender' /\ TasksInTurn' /\ TxsInTurn'
    BY <1>0 DEF Calm
  <2>1. SentOnce' /\ OneSender'
    BY <1>0, <1>3, <1>6 DEF JudgingInv, Calm, SentOnce, OneSender, Later, stored
  <2>2. TasksInTurn' /\ TxsInTurn'
    BY <1>0, <1>3, <1>6, TurnsStay, TxTurnsStay
  <2> QED
    BY <2>1, <2>2
<1> QED
  BY <1>0, <1>6, <1>7, <1>8, <1>9, <1>10, <1>11, RunsStay DEF JudgingInv, Fitting

LEMMA InvExpire == ASSUME JudgingInv, Expire \/ UNCHANGED judgingVars PROVE JudgingInv'
<1>1. UNCHANGED <<input, stored, execution, sender, judgeTxs, verdicts, mishaps>>
  BY DEF Expire, judgingVars, external
<1>2. Later
  BY <1>1 DEF Later, stored
<1>3. JudgingTypeOK'
  <2>1. expired' \in BOOLEAN
    BY DEF JudgingInv, JudgingTypeOK, Expire, judgingVars, external
  <2> QED
    BY <1>1, <2>1 DEF JudgingInv, JudgingTypeOK, stored
<1>4. Calm'
  <2> SUFFICES ASSUME mishaps = 0 PROVE SentOnce' /\ OneSender' /\ TasksInTurn' /\ TxsInTurn'
    BY <1>1 DEF Calm
  <2>1. SentOnce' /\ OneSender'
    BY <1>1 DEF JudgingInv, Calm, SentOnce, OneSender, stored
  <2>2. TasksInTurn' /\ TxsInTurn'
    BY <1>1, <1>2, TurnsStay, TxTurnsStay
  <2> QED
    BY <2>1, <2>2
<1> QED
  BY <1>1, <1>2, <1>3, <1>4, RunsStay, TxsStay, SubmissionsStay DEF JudgingInv, Fitting, stored

-----------------------------------------------------------------------------
(* A task. *)

\* The next attempt, if there is one.
LEMMA AttemptingIs ==
  ASSUME JudgingTypeOK, NEW m \in Matches, NEW n \in Nat \ {0}
  PROVE  /\ Attempting(m, n) \in Task /\ Attempting(m, n).pc \in {"infer", "over"}
         /\ Attempting(m, n).pc = "over" => Attempting(m, n).found = "REFUND"
         /\ Attempting(m, n).pc = "infer" =>
               /\ Attempting(m, n).n \in n..input.retryCap
               /\ <<m, Attempting(m, n).n>> \notin Abandoned
               /\ \A k \in n..(Attempting(m, n).n - 1) : <<m, k>> \in Abandoned
<1> DEFINE left == {k \in n..input.retryCap : <<m, k>> \notin Abandoned}
           least == CHOOSE k \in left : \A l \in left : k <= l
<1>1. MaxCap \in Nat \ {0} /\ input.retryCap \in Nat /\ input.retryCap <= MaxCap
  BY RecordsAre, InputIs
<1>2. NoTask \in Task
  BY <1>1, MatchJudgingAssumption DEF NoTask, Task, Pc, NoSubmission, Submission, SubmissionState, Hash
<1>3. CASE expired \/ left = {}
  <2>1. Attempting(m, n) = [NoTask EXCEPT !.pc = "over", !.found = "REFUND"]
    BY <1>3 DEF Attempting
  <2> QED
    BY <1>2, <2>1 DEF Task, Pc, Found
<1>4. CASE ~expired /\ left # {}
  <2>1. left \subseteq Nat
    BY <1>1
  <2>2. \E k \in left : \A l \in left : k <= l
    <3> HIDE DEF left
    <3> QED
      BY <1>4, <2>1, LeastOf
  <2>3. least \in left /\ \A l \in left : least <= l
    <3> HIDE DEF left
    <3> QED
      BY <2>2
  <2>4. Attempting(m, n) = [NoTask EXCEPT !.pc = "infer", !.n = least]
    BY <1>4 DEF Attempting
  <2>5. least \in n..input.retryCap /\ <<m, least>> \notin Abandoned /\ least \in 1..MaxCap
    BY <1>1, <2>3
  <2>6. \A k \in n..(least - 1) : <<m, k>> \in Abandoned
    BY <1>1, <2>3
  <2> HIDE DEF least, left
  <2>7. Attempting(m, n) \in Task /\ Attempting(m, n).pc = "infer" /\ Attempting(m, n).n = least
    BY <1>2, <2>4, <2>5 DEF Task, Pc
  <2> QED
    BY <2>5, <2>6, <2>7
<1> QED
  BY <1>3, <1>4

\* A task that goes on to its next attempt, the earlier ones closed.
LEMMA AttemptingFits ==
  ASSUME JudgingTypeOK, input' = input, NEW m \in Matches, NEW n \in Nat \ {0},
         NEW t, t = Attempting(m, n)
  PROVE  /\ t \in Task /\ t.pc \in {"infer", "over"} /\ TaskFits(m, t)'
         /\ t.pc \in Working /\ InTurn(m, n)' => InTurn(m, t.n)'
<1>1. /\ t \in Task /\ t.pc \in {"infer", "over"} /\ (t.pc = "over" => t.found = "REFUND")
      /\ t.pc = "infer" => /\ t.n \in n..input.retryCap /\ <<m, t.n>> \notin Abandoned
                           /\ \A k \in n..(t.n - 1) : <<m, k>> \in Abandoned
  BY AttemptingIs
<1>2. TaskFits(m, t)'
  BY <1>1 DEF TaskFits, Working, Found, Wins
<1>3. ASSUME t.pc \in Working, InTurn(m, n)', NEW k \in 1..(t.n - 1) PROVE Closed(m, k)'
  <2>1. t.n \in Nat /\ \A j \in n..(t.n - 1) : <<m, j>> \in Abandoned
    BY <1>1, <1>3, RecordsAre, InputIs DEF Working
  <2>2. CASE k < n
    BY <1>3, <2>1, <2>2 DEF InTurn
  <2>3. CASE k >= n
    BY <1>3, <2>1, <2>3 DEF Closed
  <2> QED
    BY <2>1, <2>2, <2>3
<1> QED
  BY <1>1, <1>2, <1>3 DEF InTurn

\* A task that ends without a winner.
LEMMA OverIs ==
  ASSUME JudgingTypeOK, NEW m \in Matches, NEW f \in Found, f \notin Wins \/ Earned(m, f)',
         NEW t, t = [NoTask EXCEPT !.pc = "over", !.found = f]
  PROVE  t \in Task /\ t.pc = "over" /\ TaskFits(m, t)'
<1>1. NoTask \in Task
  <2>1. 1 \in 1..MaxCap
    BY RecordsAre, InputIs
  <2> QED
    BY <2>1, MatchJudgingAssumption DEF NoTask, Task, Pc, NoSubmission, Submission, SubmissionState, Hash
<1>2. t \in Task /\ t.pc = "over" /\ t.found = f
  BY <1>1 DEF Task, Pc, Found
<1> QED
  BY <1>2 DEF TaskFits, Working

\* What a step of a task that sends nothing leaves of the rest.
LEMMA RestStays ==
  ASSUME JudgingInv, Later, UNCHANGED <<judgeTxs, verdicts, submission, sender>>, mishaps' \in Nat,
         mishaps' = 0 => mishaps = 0, NEW r \in Runs, NEW m \in Matches, NEW t \in Task, Put(r, m, t),
         t.pc # "send", mishaps = 0 /\ t.pc \in Working => InTurn(m, t.n)'
  PROVE  TxsFit' /\ VerdictsFit' /\ SubmissionsFit' /\ Calm'
<1>1. ASSUME mishaps = 0 PROVE SentOnce' /\ OneSender' /\ TasksInTurn' /\ TxsInTurn'
  <2>1. SentOnce'
    BY <1>1 DEF JudgingInv, Calm, SentOnce
  <2>2. OneSender'
    BY <1>1, PutIs DEF JudgingInv, Calm, OneSender
  <2> QED
    BY <1>1, <2>1, <2>2, TurnTaken, TxTurnsStay
<1> QED
  BY <1>1, TxsStay, SubmissionsStay DEF Calm

LEMMA InvInfer == ASSUME JudgingInv, NEW r \in Runs, NEW m \in Matches, Infer(r, m) PROVE JudgingInv'
<1>0. PICK t \in Task : t = execution[r].task[m]
  BY ExecutionsAre DEF JudgingInv
<1> DEFINE a == <<m, t.n>>
<1>1. PICK route \in IF a \in fallback THEN {"FALLBACK"}
                     ELSE IF "PRIMARY" \in answers[a] THEN {"PRIMARY"} ELSE Routes :
              /\ fallback' = IF route = "FALLBACK" THEN Decided(a) ELSE fallback
              /\ \/ /\ answers' = [answers EXCEPT ![a] = @ \cup {route}]
                    /\ Put(r, m, [t EXCEPT !.pc = "queue", !.route = route])
                    /\ UNCHANGED mishaps
                 \/ /\ route \notin answers[a]
                    /\ mishaps < MaxMishaps /\ mishaps' = mishaps + 1
                    /\ Over(r, m, "RECOVERY") /\ UNCHANGED answers
  BY <1>0 DEF Infer
<1>2. /\ t.pc = "infer" /\ t.pc \in Working /\ UNCHANGED <<input, submission, registry, sender, external>>
      /\ a \in Attempts /\ a \notin Abandoned /\ t.n <= input.retryCap /\ t \in Task
      /\ answers \in [Attempts -> SUBSET Routes] /\ fallback \subseteq Attempts
  BY <1>0, AttemptAtWork, ExecutionsAre DEF Infer, Here, Working, JudgingInv, JudgingTypeOK, Fitting, TasksFit, TaskFits
<1>3. route \in Routes
  BY <1>1 DEF Routes
<1> HIDE DEF a
<1>4. /\ answers' \in [Attempts -> SUBSET Routes] /\ fallback' \subseteq Attempts
      /\ \A b \in Attempts : answers[b] \subseteq answers'[b]
      /\ fallback \subseteq fallback' /\ \A b \in fallback' : b \in fallback \/ "PRIMARY" \notin answers[b]
  BY <1>1, <1>2, <1>3 DEF Decided, Routes
<1>5. Later
  BY <1>2, <1>4, RecordsAre DEF Later, external, JudgingInv
<1>6. CASE /\ answers' = [answers EXCEPT ![a] = @ \cup {route}]
           /\ Put(r, m, [t EXCEPT !.pc = "queue", !.route = route])
           /\ UNCHANGED mishaps
  <2>0. LET u == [t EXCEPT !.pc = "queue", !.route = route]
        IN  u \in Task /\ u.pc = "queue" /\ u.route = route /\ u.n = t.n
    BY <1>2, <1>3 DEF Task, Pc
  <2>1. PICK u \in Task : /\ u = [t EXCEPT !.pc = "queue", !.route = route]
                          /\ u.pc = "queue" /\ u.route = route /\ u.n = t.n
    BY <2>0
  <2>2. Answered(a, route)'
    BY <1>1, <1>2, <1>3, <1>6 DEF Answered, Decided, Routes
  <2>3. TaskFits(m, u)'
    BY <1>2, <2>1, <2>2 DEF TaskFits, Working, a, Answered
  <2>4. mishaps = 0 => InTurn(m, u.n)'
    BY <1>0, <1>2, <1>5, <2>1, TurnsKept
  <2>5. Put(r, m, u)
    BY <1>6, <2>1
  <2>6. TxsFit' /\ VerdictsFit' /\ SubmissionsFit' /\ Calm'
    BY <1>2, <1>5, <1>6, <2>1, <2>4, <2>5, RestStays, RecordsAre DEF external, JudgingInv
  <2>7. execution' \in [Runs -> Execution] /\ TasksFit' /\ TasksPlaced' /\ RunsFit'
    BY <1>0, <1>2, <1>5, <2>3, <2>5, TaskGoesOn
  <2>8. JudgingTypeOK'
    BY <1>2, <1>4, <1>6, <2>7 DEF JudgingInv, JudgingTypeOK, external
  <2> QED
    BY <2>6, <2>7, <2>8 DEF JudgingInv, Fitting
<1>7. CASE /\ mishaps < MaxMishaps /\ mishaps' = mishaps + 1
           /\ Over(r, m, "RECOVERY") /\ UNCHANGED answers
  <2>1. PICK u \in Task : u = [NoTask EXCEPT !.pc = "over", !.found = "RECOVERY"] /\ u.pc = "over" /\ TaskFits(m, u)'
    BY OverIs DEF Found, Wins, JudgingInv
  <2>2. Put(r, m, u)
    BY <1>7, <2>1 DEF Over
  <2>3. mishaps' \in 0..MaxMishaps /\ mishaps' # 0
    BY <1>7, RecordsAre, MatchJudgingAssumption DEF JudgingInv
  <2>4. TxsFit' /\ VerdictsFit' /\ SubmissionsFit' /\ Calm'
    BY <1>2, <1>5, <2>1, <2>2, <2>3, TxsStay, SubmissionsStay DEF Calm, external
  <2>5. execution' \in [Runs -> Execution] /\ TasksFit' /\ TasksPlaced' /\ RunsFit'
    BY <1>0, <1>2, <1>5, <2>1, <2>2, TaskGoesOn
  <2>6. JudgingTypeOK'
    BY <1>2, <1>4, <1>7, <2>3, <2>5 DEF JudgingInv, JudgingTypeOK, external
  <2> QED
    BY <2>4, <2>5, <2>6 DEF JudgingInv, Fitting
<1> QED
  BY <1>1, <1>6, <1>7

LEMMA InvSubmit == ASSUME JudgingInv, NEW r \in Runs, NEW m \in Matches, Submit(r, m) PROVE JudgingInv'
<1>0. PICK t \in Task : t = execution[r].task[m]
  BY ExecutionsAre DEF JudgingInv
<1> DEFINE a == <<m, t.n>>
<1>1. PICK s \in Submission : s = submission[a]
  BY <1>0, AttemptAtWork, RecordsAre DEF Submit, Here, Working, JudgingInv
<1>2. /\ t.pc = "queue" /\ t.pc \in Working /\ UNCHANGED <<input, answers, fallback, registry, external, mishaps>>
      /\ a \in Attempts /\ a \notin Abandoned /\ t.n <= input.retryCap /\ sender = None
      /\ Answered(a, t.route) /\ t.route \in Routes /\ s.tx \in Hash
  BY <1>0, <1>1, AttemptAtWork, RecordsAre
     DEF Submit, Here, MaySubmit, Working, JudgingInv, Fitting, TasksFit, TaskFits, Answered
<1>3. CASE s.route \notin {None, t.route} /\ Over(r, m, "RECOVERY") /\ UNCHANGED <<submission, sender>>
  <2>1. PICK u \in Task : u = [NoTask EXCEPT !.pc = "over", !.found = "RECOVERY"] /\ u.pc = "over" /\ TaskFits(m, u)'
    BY OverIs DEF Found, Wins, JudgingInv
  <2>2. Put(r, m, u) /\ Later
    BY <1>2, <1>3, <2>1, RecordsAre DEF Over, Later, external, JudgingInv
  <2>3. TxsFit' /\ VerdictsFit' /\ SubmissionsFit' /\ Calm'
    BY <1>2, <1>3, <2>1, <2>2, RestStays, RecordsAre DEF external, JudgingInv, Working
  <2>4. execution' \in [Runs -> Execution] /\ TasksFit' /\ TasksPlaced' /\ RunsFit'
    BY <1>0, <1>2, <2>1, <2>2, TaskGoesOn
  <2>5. JudgingTypeOK'
    BY <1>2, <1>3, <2>4 DEF JudgingInv, JudgingTypeOK, external
  <2> QED
    BY <2>3, <2>4, <2>5 DEF JudgingInv, Fitting
<1>4. CASE /\ s.tx # 0 /\ Put(r, m, [t EXCEPT !.pc = "poll", !.record = s])
           /\ UNCHANGED <<submission, sender>>
  <2>0. LET u == [t EXCEPT !.pc = "poll", !.record = s]
        IN  u \in Task /\ u.pc = "poll" /\ u.record = s /\ u.n = t.n
    BY DEF Task, Pc
  <2>1. PICK u \in Task : /\ u = [t EXCEPT !.pc = "poll", !.record = s]
                          /\ u.pc = "poll" /\ u.record = s /\ u.n = t.n
    BY <2>0
  <2>2. Put(r, m, u) /\ Later
    BY <1>2, <1>4, <2>1, RecordsAre DEF Later, external, JudgingInv
  <2>3. TaskFits(m, u)'
    BY <1>1, <1>2, <1>4, <2>1 DEF TaskFits, Working, JudgingInv, Fitting, SubmissionsFit, SentFor, external
  <2>4. mishaps = 0 => InTurn(m, u.n)'
    BY <1>0, <1>2, <2>1, <2>2, TurnsKept
  <2>5. TxsFit' /\ VerdictsFit' /\ SubmissionsFit' /\ Calm'
    BY <1>2, <1>4, <2>1, <2>2, <2>4, RestStays, RecordsAre DEF external, JudgingInv
  <2>6. execution' \in [Runs -> Execution] /\ TasksFit' /\ TasksPlaced' /\ RunsFit'
    BY <1>0, <1>2, <2>2, <2>3, TaskGoesOn
  <2>7. JudgingTypeOK'
    BY <1>2, <1>4, <2>6 DEF JudgingInv, JudgingTypeOK, external
  <2> QED
    BY <2>5, <2>6, <2>7 DEF JudgingInv, Fitting
<1>5. CASE /\ s.tx = 0
           /\ submission' = [submission EXCEPT ![a] =
                 [state |-> "SUBMISSION_PERSISTED", route |-> t.route, tx |-> 0]]
           /\ sender' = <<r, m>> /\ Put(r, m, [t EXCEPT !.pc = "send"])
  <2>0. LET u == [t EXCEPT !.pc = "send"]
        IN  u \in Task /\ u.pc = "send" /\ u.route = t.route /\ u.n = t.n
    BY DEF Task, Pc
  <2>1. PICK u \in Task : /\ u = [t EXCEPT !.pc = "send"]
                          /\ u.pc = "send" /\ u.route = t.route /\ u.n = t.n
    BY <2>0
  <2>2. Put(r, m, u) /\ Later
    BY <1>2, <1>5, <2>1, RecordsAre DEF Later, external, JudgingInv
  <2>3. TaskFits(m, u)'
    BY <1>1, <1>2, <1>5, <2>1 DEF TaskFits, Working, Answered
  <2>4. PICK z \in Submission : /\ z = [state |-> "SUBMISSION_PERSISTED", route |-> t.route, tx |-> 0]
                                /\ z.tx = 0
    <3>1. [state |-> "SUBMISSION_PERSISTED", route |-> t.route, tx |-> 0] \in Submission
      BY <1>2, RecordsAre DEF Submission, SubmissionState, Hash, JudgingInv
    <3> QED
      BY <3>1
  <2>5. /\ SubmissionsFit' /\ submission' \in [Attempts -> Submission]
        /\ \A b \in Attempts : submission'[b].tx = submission[b].tx
    BY <1>1, <1>2, <1>5, <2>2, <2>4, SubmissionPut DEF JudgingInv, JudgingTypeOK
  <2>6. execution' \in [Runs -> Execution] /\ TasksFit' /\ TasksPlaced' /\ RunsFit'
    BY <1>0, <1>2, <2>2, <2>3, TaskGoesOn
  <2>7. JudgingTypeOK'
    BY <1>2, <1>5, <2>5, <2>6 DEF JudgingInv, JudgingTypeOK, external
  <2>8. Calm'
    <3> SUFFICES ASSUME mishaps = 0 PROVE SentOnce' /\ OneSender' /\ TasksInTurn' /\ TxsInTurn'
      BY <1>2 DEF Calm
    <3>1. SentOnce'
      BY <1>2, <2>5, RecordsAre DEF JudgingInv, Calm, SentOnce, external
    <3>2. OneSender'
      <4> SUFFICES ASSUME NEW q \in Runs, NEW p \in Matches, execution'[q].task[p].pc = "send"
                   PROVE  sender' = <<q, p>> /\ submission'[<<p, execution'[q].task[p].n>>].tx = 0
        BY DEF OneSender
      <4>1. q = r /\ p = m
        <5> SUFFICES ASSUME ~(q = r /\ p = m) PROVE FALSE
          OBVIOUS
        <5>1. execution[q].task[p].pc = "send"
          BY <2>2, PutIs DEF JudgingInv
        <5>2. sender = <<q, p>> /\ <<q, p>> \in Runs \X Matches
          BY <5>1 DEF JudgingInv, Calm, OneSender
        <5> QED
          BY <1>2, <5>2, MatchJudgingAssumption
      <4>2. execution'[q].task[p] = u
        BY <2>2, <4>1, PutIs DEF JudgingInv
      <4> QED
        BY <1>1, <1>2, <1>5, <2>1, <2>5, <4>1, <4>2
    <3>3. InTurn(m, u.n)'
      BY <1>0, <1>2, <2>1, <2>2, TurnsKept
    <3> QED
      BY <1>2, <2>2, <3>1, <3>2, <3>3, TurnTaken, TxTurnsStay DEF external
  <2> QED
    BY <1>2, <2>2, <2>5, <2>6, <2>7, <2>8, TxsStay DEF JudgingInv, Fitting, external
<1> QED
  <2> HIDE DEF a
  <2> QED
    BY <1>0, <1>1, <1>3, <1>4, <1>5 DEF Submit, a

\* A transaction that leaves keeps every earlier one to itself.
LEMMA InvSend == ASSUME JudgingInv, NEW r \in Runs, NEW m \in Matches, Send(r, m) PROVE JudgingInv'
<1>0. PICK t \in Task : t = execution[r].task[m]
  BY ExecutionsAre DEF JudgingInv
<1> DEFINE a == <<m, t.n>>
<1>2. /\ t.pc = "send" /\ t.pc \in Working /\ UNCHANGED <<input, answers, fallback, registry, verdicts, expired, mishaps>>
      /\ a \in Attempts /\ a \notin Abandoned /\ t.n <= input.retryCap /\ Len(judgeTxs) < MaxSends
      /\ Answered(a, t.route) /\ t.route \in Routes
      /\ judgeTxs' = Append(judgeTxs, [attempt |-> a, route |-> t.route, status |-> "PENDING"])
      /\ sender' = IF sender = <<r, m>> THEN None ELSE sender
  BY <1>0, AttemptAtWork, RecordsAre
     DEF Send, Here, Working, JudgingInv, Fitting, TasksFit, TaskFits, Answered
<1>3. /\ Later /\ TxsFit' /\ VerdictsFit'
      /\ judgeTxs' \in Seq(Tx) /\ Len(judgeTxs') = Len(judgeTxs) + 1 /\ Len(judgeTxs') <= MaxSends
      /\ judgeTxs'[Len(judgeTxs) + 1].attempt = a
      /\ \A i \in 1..Len(judgeTxs) : judgeTxs'[i] = judgeTxs[i]
  <2>1. a[2] <= input.retryCap
    BY <1>2
  <2> QED
    BY <1>2, <2>1, TxAdded
<1>4. Len(judgeTxs) \in Nat /\ Len(judgeTxs) + 1 \in Hash /\ Len(judgeTxs) + 1 # 0
  BY <1>2, RecordsAre DEF Hash, JudgingInv
<1>5. PICK s \in Submission : /\ s = [state |-> "SUBMITTED", route |-> t.route, tx |-> Len(judgeTxs) + 1]
                              /\ s.tx = Len(judgeTxs) + 1
  <2>1. [state |-> "SUBMITTED", route |-> t.route, tx |-> Len(judgeTxs) + 1] \in Submission
    BY <1>2, <1>4 DEF Submission, SubmissionState
  <2> QED
    BY <2>1
<1>6. submission' = [submission EXCEPT ![a] = s] /\ Put(r, m, [t EXCEPT !.pc = "poll", !.record = s])
  BY <1>0, <1>5 DEF Send
<1>7. LET u == [t EXCEPT !.pc = "poll", !.record = s]
      IN  u \in Task /\ u.pc = "poll" /\ u.record = s /\ u.n = t.n
  BY DEF Task, Pc
<1>8. PICK u \in Task : u = [t EXCEPT !.pc = "poll", !.record = s] /\ u.pc = "poll" /\ u.record = s /\ u.n = t.n
  BY <1>7
<1>9. Put(r, m, u)
  BY <1>6, <1>8
<1>10. SentFor(a, s.tx)'
  BY <1>3, <1>4, <1>5 DEF SentFor
<1>11. TaskFits(m, u)'
  BY <1>2, <1>8, <1>10 DEF TaskFits, Working, SentFor
<1>12. SubmissionsFit' /\ submission' \in [Attempts -> Submission]
  BY <1>2, <1>3, <1>6, <1>10, SubmissionPut
<1>13. execution' \in [Runs -> Execution] /\ TasksFit' /\ TasksPlaced' /\ RunsFit'
  BY <1>0, <1>2, <1>3, <1>9, <1>11, TaskGoesOn
<1>14. JudgingTypeOK'
  <2>1. sender' \in (Runs \X Matches) \cup {None}
    BY <1>2 DEF JudgingInv, JudgingTypeOK
  <2> QED
    BY <1>2, <1>3, <1>12, <1>13, <2>1 DEF JudgingInv, JudgingTypeOK
<1>15. Calm'
  <2> SUFFICES ASSUME mishaps = 0 PROVE SentOnce' /\ OneSender' /\ TasksInTurn' /\ TxsInTurn'
    BY <1>2 DEF Calm
  <2>0. sender = <<r, m>> /\ submission[a].tx = 0
    BY <1>0, <1>2 DEF JudgingInv, Calm, OneSender
  <2>1. SentOnce'
    <3> SUFFICES ASSUME NEW i \in 1..Len(judgeTxs') PROVE submission'[judgeTxs'[i].attempt].tx = i
      BY DEF SentOnce
    <3>1. submission \in [Attempts -> Submission]
      BY DEF JudgingInv, JudgingTypeOK
    <3>2. CASE i = Len(judgeTxs) + 1
      BY <1>2, <1>3, <1>5, <1>6, <3>1, <3>2
    <3>3. CASE i \in 1..Len(judgeTxs)
      <4>1. submission[judgeTxs[i].attempt].tx = i /\ judgeTxs'[i] = judgeTxs[i] /\ judgeTxs[i].attempt \in Attempts
        BY <1>3, <3>3, RecordsAre DEF JudgingInv, Calm, SentOnce
      <4>2. judgeTxs[i].attempt # a
        BY <2>0, <3>3, <4>1
      <4> QED
        BY <1>6, <3>1, <4>1, <4>2
    <3> QED
      BY <1>3, <1>4, <3>2, <3>3
  <2>2. OneSender'
    <3> SUFFICES ASSUME NEW q \in Runs, NEW p \in Matches, execution'[q].task[p].pc = "send"
                 PROVE  FALSE
      BY DEF OneSender
    <3>0. execution'[r].task[m] = u
      BY <1>9, PutIs DEF JudgingInv
    <3>1. ~(q = r /\ p = m)
      BY <1>8, <3>0
    <3>2. execution[q].task[p].pc = "send"
      BY <1>9, <3>1, PutIs DEF JudgingInv
    <3>3. sender = <<q, p>>
      BY <3>2 DEF JudgingInv, Calm, OneSender
    <3> QED
      BY <2>0, <3>1, <3>3
  <2>3. TasksInTurn'
    <3>1. InTurn(m, u.n)'
      BY <1>0, <1>2, <1>3, <1>8, TurnsKept
    <3> QED
      BY <1>3, <1>9, <3>1, TurnTaken
  <2>4. TxsInTurn'
    <3> SUFFICES ASSUME NEW i \in 1..Len(judgeTxs') PROVE InTurn(judgeTxs[i].attempt[1], judgeTxs[i].attempt[2])'
      BY DEF TxsInTurn
    <3>1. PICK p, n : p = judgeTxs'[i].attempt[1] /\ n = judgeTxs'[i].attempt[2] /\ InTurn(p, n)'
      <4>1. CASE i \in 1..Len(judgeTxs)
        BY <1>3, <4>1, TurnsKept
      <4>2. CASE i = Len(judgeTxs) + 1
        BY <1>0, <1>2, <1>3, <4>2, TurnsKept
      <4> QED
        BY <1>3, <1>4, <4>1, <4>2
    <3> QED
      BY <3>1 DEF InTurn, Closed
  <2> QED
    BY <2>1, <2>2, <2>3, <2>4
<1> QED
  BY <1>3, <1>12, <1>13, <1>14, <1>15 DEF JudgingInv, Fitting

\* A task stores the copy of its submission that it holds.
LEMMA CopyPut ==
  ASSUME JudgingInv, Later, UNCHANGED <<judgeTxs, verdicts, sender, mishaps>>,
         NEW r \in Runs, NEW m \in Matches, NEW t \in Task, t = execution[r].task[m], t.pc \in {"poll", "canonical"},
         NEW z \in Submission, z.tx = t.record.tx, submission' = [submission EXCEPT ![<<m, t.n>>] = z],
         NEW u \in Task, Put(r, m, u), u.pc # "send", mishaps = 0 /\ u.pc \in Working => InTurn(m, u.n)'
  PROVE  submission' \in [Attempts -> Submission] /\ SubmissionsFit' /\ TxsFit' /\ VerdictsFit' /\ Calm'
<1> DEFINE a == <<m, t.n>>
<1>1. a \in Attempts /\ SentFor(a, z.tx) /\ submission \in [Attempts -> Submission]
  BY AttemptAtWork DEF JudgingInv, JudgingTypeOK, Fitting, TasksFit, TaskFits, Working
<1>2. SubmissionsFit' /\ submission' \in [Attempts -> Submission]
  BY <1>1, LaterSent, SubmissionPut DEF JudgingInv
<1>3. Calm'
  <2> SUFFICES ASSUME mishaps = 0 PROVE SentOnce' /\ OneSender' /\ TasksInTurn' /\ TxsInTurn'
    BY DEF Calm
  <2>1. submission[a].tx = z.tx
    BY <1>1 DEF JudgingInv, Calm, SentOnce, SentFor
  <2>2. \A b \in Attempts : submission'[b].tx = submission[b].tx
    BY <1>1, <2>1
  <2>3. SentOnce'
    BY <2>2, RecordsAre DEF JudgingInv, Calm, SentOnce
  <2>4. OneSender'
    <3> SUFFICES ASSUME NEW q \in Runs, NEW p \in Matches, execution'[q].task[p].pc = "send"
                 PROVE  sender' = <<q, p>> /\ submission'[<<p, execution'[q].task[p].n>>].tx = 0
      BY DEF OneSender
    <3>0. execution'[r].task[m] = u
      BY PutIs DEF JudgingInv
    <3>1. ~(q = r /\ p = m)
      BY <3>0
    <3>2. execution'[q].task[p] = execution[q].task[p]
      BY <3>1, PutIs DEF JudgingInv
    <3>3. <<p, execution[q].task[p].n>> \in Attempts
      BY <3>2, AttemptAtWork DEF Working
    <3> QED
      BY <2>2, <3>2, <3>3 DEF JudgingInv, Calm, OneSender
  <2> QED
    BY <2>3, <2>4, TurnTaken, TxTurnsStay
<1> QED
  BY <1>2, <1>3, TxsStay

\* The attempt of a transaction that ended without a winner is closed.
LEMMA NextInTurn ==
  ASSUME JudgingInv, Later, UNCHANGED judgeTxs, mishaps = 0, NEW r \in Runs, NEW m \in Matches,
         NEW t \in Task, t = execution[r].task[m], t.pc \in {"poll", "canonical"},
         judgeTxs[t.record.tx].status \in {"NO_CONSENSUS", "TIE"}
  PROVE  InTurn(m, t.n + 1)'
<1>1. InTurn(m, t.n)' /\ t.n \in Nat
  BY TurnsKept, AttemptAtWork DEF Working
<1>2. SentFor(<<m, t.n>>, t.record.tx)
  BY DEF JudgingInv, Fitting, TasksFit, TaskFits
<1>3. Closed(m, t.n)'
  BY <1>2 DEF Closed, SentFor
<1> SUFFICES ASSUME NEW k \in 1..t.n PROVE Closed(m, k)'
  BY <1>1 DEF InTurn
<1>4. CASE k = t.n
  BY <1>3, <1>4
<1>5. CASE k # t.n
  BY <1>1, <1>5 DEF InTurn
<1> QED
  BY <1>4, <1>5

LEMMA InvPollComparison == ASSUME JudgingInv, NEW r \in Runs, NEW m \in Matches, PollComparison(r, m) PROVE JudgingInv'
<1>0. PICK t \in Task : t = execution[r].task[m]
  BY ExecutionsAre DEF JudgingInv
<1> DEFINE a == <<m, t.n>>
           status == judgeTxs[t.record.tx].status
           put(state) == submission' = [submission EXCEPT ![a] = [t.record EXCEPT !.state = state]]
<1>1. /\ t.pc = "poll" /\ t.pc \in Working /\ UNCHANGED <<input, answers, fallback, registry, sender, external, mishaps>>
      /\ a \in Attempts /\ t.n \in Nat /\ t.record \in Submission
      /\ SentFor(a, t.record.tx) /\ status \in Results \cup {"PENDING", "NO_CONSENSUS", "FAILED"}
  <2>1. /\ t.pc = "poll" /\ t.pc \in Working
        /\ UNCHANGED <<input, answers, fallback, registry, sender, external, mishaps>>
    BY <1>0 DEF PollComparison, Here, Working
  <2>2. a \in Attempts /\ t.n \in Nat /\ t.record \in Submission
    BY <1>0, <2>1, AttemptAtWork DEF Task
  <2>3. SentFor(a, t.record.tx)
    BY <1>0, <2>1 DEF JudgingInv, Fitting, TasksFit, TaskFits
  <2> QED
    BY <2>1, <2>2, <2>3, RecordsAre DEF SentFor, JudgingInv
<1>2. Later
  BY <1>1, RecordsAre DEF Later, external, JudgingInv
\* What is put is a copy; what the task becomes fits.
<1>3. ASSUME NEW state \in SubmissionState, put(state), NEW u \in Task, Put(r, m, u), TaskFits(m, u)',
             u.pc # "send", mishaps = 0 /\ u.pc \in Working => InTurn(m, u.n)'
      PROVE  JudgingInv'
  <2>1. [t.record EXCEPT !.state = state] \in Submission /\ [t.record EXCEPT !.state = state].tx = t.record.tx
    BY <1>1 DEF Submission
  <2>2. PICK z \in Submission : z = [t.record EXCEPT !.state = state] /\ z.tx = t.record.tx
    BY <2>1
  <2>3. submission' \in [Attempts -> Submission] /\ SubmissionsFit' /\ TxsFit' /\ VerdictsFit' /\ Calm'
    BY <1>0, <1>1, <1>2, <1>3, <2>2, CopyPut DEF external
  <2>4. execution' \in [Runs -> Execution] /\ TasksFit' /\ TasksPlaced' /\ RunsFit'
    BY <1>0, <1>1, <1>2, <1>3, TaskGoesOn
  <2>5. JudgingTypeOK'
    BY <1>1, <2>3, <2>4 DEF JudgingInv, JudgingTypeOK, external
  <2> QED
    BY <2>3, <2>4, <2>5 DEF JudgingInv, Fitting
<1>4. CASE put("PENDING") /\ Over(r, m, "WAITING")
  <2>1. PICK u \in Task : u = [NoTask EXCEPT !.pc = "over", !.found = "WAITING"] /\ u.pc = "over" /\ TaskFits(m, u)'
    BY OverIs DEF Found, Wins, JudgingInv
  <2> QED
    BY <1>3, <1>4, <2>1 DEF Over, Working, SubmissionState
<1>5. CASE put("FAILED") /\ Over(r, m, "RECOVERY")
  <2>1. PICK u \in Task : u = [NoTask EXCEPT !.pc = "over", !.found = "RECOVERY"] /\ u.pc = "over" /\ TaskFits(m, u)'
    BY OverIs DEF Found, Wins, JudgingInv
  <2> QED
    BY <1>3, <1>5, <2>1 DEF Over, Working, SubmissionState
<1>6. CASE status = "NO_CONSENSUS" /\ put("FAILED") /\ Put(r, m, Attempting(m, t.n + 1))
  <2>1. PICK u : u = Attempting(m, t.n + 1)
    OBVIOUS
  <2>2. /\ u \in Task /\ u.pc \in {"infer", "over"} /\ TaskFits(m, u)'
        /\ u.pc \in Working /\ InTurn(m, t.n + 1)' => InTurn(m, u.n)'
    BY <1>1, <2>1, AttemptingFits DEF JudgingInv
  <2>3. mishaps = 0 => InTurn(m, t.n + 1)'
    BY <1>0, <1>1, <1>2, <1>6, NextInTurn DEF external
  <2>4. "FAILED" \in SubmissionState /\ put("FAILED") /\ Put(r, m, u) /\ u.pc # "send"
    BY <1>6, <2>1, <2>2 DEF SubmissionState
  <2> HIDE DEF put
  <2> QED
    BY <1>3, <2>2, <2>3, <2>4
<1>7. CASE /\ status \notin {"PENDING", "NO_CONSENSUS", "FAILED"}
           /\ Put(r, m, [t EXCEPT !.pc = "canonical"]) /\ UNCHANGED submission
  <2>0. LET u == [t EXCEPT !.pc = "canonical"]
        IN  u \in Task /\ u.pc = "canonical" /\ u.record = t.record /\ u.n = t.n
    BY DEF Task, Pc
  <2>1. PICK u \in Task : u = [t EXCEPT !.pc = "canonical"] /\ u.pc = "canonical" /\ u.record = t.record /\ u.n = t.n
    BY <2>0
  <2>2. TaskFits(m, u)'
    <3>1. TaskFits(m, t) /\ status \in Results
      BY <1>0, <1>1, <1>7 DEF JudgingInv, Fitting, TasksFit
    <3> QED
      BY <1>1, <2>1, <3>1 DEF TaskFits, Working, SentFor, external
  <2>3. mishaps = 0 => InTurn(m, u.n)'
    BY <1>0, <1>1, <1>2, <2>1, TurnsKept
  <2>4. TxsFit' /\ VerdictsFit' /\ SubmissionsFit' /\ Calm'
    BY <1>1, <1>2, <1>7, <2>1, <2>3, RestStays, RecordsAre DEF external, JudgingInv
  <2>5. execution' \in [Runs -> Execution] /\ TasksFit' /\ TasksPlaced' /\ RunsFit'
    BY <1>0, <1>1, <1>2, <1>7, <2>1, <2>2, TaskGoesOn
  <2>6. JudgingTypeOK'
    BY <1>1, <1>7, <2>5 DEF JudgingInv, JudgingTypeOK, external
  <2> QED
    BY <2>4, <2>5, <2>6 DEF JudgingInv, Fitting
<1>8. \/ status = "PENDING" /\ put("PENDING") /\ Over(r, m, "WAITING")
      \/ status = "NO_CONSENSUS" /\ put("FAILED") /\ Put(r, m, Attempting(m, t.n + 1))
      \/ status = "FAILED" /\ put("FAILED") /\ Over(r, m, "RECOVERY")
      \/ /\ status \notin {"PENDING", "NO_CONSENSUS", "FAILED"}
         /\ Put(r, m, [t EXCEPT !.pc = "canonical"]) /\ UNCHANGED submission
  <2> HIDE DEF Put, Over, Attempting
  <2>1. CASE status = "PENDING"
    BY <1>0, <2>1 DEF PollComparison
  <2>2. CASE status = "NO_CONSENSUS"
    BY <1>0, <2>2 DEF PollComparison
  <2>3. CASE status = "FAILED"
    BY <1>0, <2>3 DEF PollComparison
  <2>4. CASE status \notin {"PENDING", "NO_CONSENSUS", "FAILED"}
    BY <1>0, <2>4 DEF PollComparison
  <2> QED
    BY <2>1, <2>2, <2>3, <2>4
<1> QED
  <2> HIDE DEF put, status
  <2> QED
    BY <1>4, <1>5, <1>6, <1>7, <1>8

LEMMA InvCanonical == ASSUME JudgingInv, NEW r \in Runs, NEW m \in Matches, Canonical(r, m) PROVE JudgingInv'
<1>0. PICK t \in Task : t = execution[r].task[m]
  BY ExecutionsAre DEF JudgingInv
<1> DEFINE a == <<m, t.n>>
<1>1. /\ t.pc = "canonical" /\ t.pc \in Working
      /\ UNCHANGED <<input, answers, fallback, sender, external, mishaps>>
      /\ a \in Attempts /\ t.n \in Nat /\ t.n \in 1..input.retryCap /\ t.record \in Submission
      /\ SentFor(a, t.record.tx) /\ judgeTxs[t.record.tx].status \in Results
  <2>1. /\ t.pc = "canonical" /\ t.pc \in Working
        /\ UNCHANGED <<input, answers, fallback, sender, external, mishaps>>
    BY <1>0 DEF Canonical, Here, Working
  <2>2. a \in Attempts /\ t.n \in Nat /\ t.n \in 1..input.retryCap /\ t.record \in Submission
    BY <1>0, <2>1, AttemptAtWork DEF Task
  <2>3. SentFor(a, t.record.tx) /\ judgeTxs[t.record.tx].status \in Results
    BY <1>0, <2>1 DEF JudgingInv, Fitting, TasksFit, TaskFits
  <2> QED
    BY <2>1, <2>2, <2>3
<1>2. Later
  BY <1>1, RecordsAre DEF Later, external, JudgingInv
<1>3. CASE Over(r, m, "RECOVERY") /\ UNCHANGED <<registry, submission>>
  <2>1. PICK u \in Task : u = [NoTask EXCEPT !.pc = "over", !.found = "RECOVERY"] /\ u.pc = "over" /\ TaskFits(m, u)'
    BY OverIs DEF Found, Wins, JudgingInv
  <2>2. Put(r, m, u)
    BY <1>3, <2>1 DEF Over
  <2>3. TxsFit' /\ VerdictsFit' /\ SubmissionsFit' /\ Calm'
    BY <1>1, <1>2, <1>3, <2>1, <2>2, RestStays, RecordsAre DEF external, JudgingInv, Working
  <2>4. execution' \in [Runs -> Execution] /\ TasksFit' /\ TasksPlaced' /\ RunsFit'
    BY <1>0, <1>1, <1>2, <2>1, <2>2, TaskGoesOn
  <2>5. JudgingTypeOK'
    BY <1>1, <1>3, <2>4 DEF JudgingInv, JudgingTypeOK, external
  <2> QED
    BY <2>3, <2>4, <2>5 DEF JudgingInv, Fitting
<1>4. CASE /\ registry' = [registry EXCEPT ![a] = t.record.tx]
           /\ submission' = [submission EXCEPT ![a] = [t.record EXCEPT !.state = "FINALIZED"]]
           /\ IF verdicts[a] \in Wins THEN Over(r, m, verdicts[a]) ELSE Put(r, m, Attempting(m, t.n + 1))
  <2>1. [t.record EXCEPT !.state = "FINALIZED"] \in Submission /\ [t.record EXCEPT !.state = "FINALIZED"].tx = t.record.tx
    BY <1>1 DEF Submission, SubmissionState
  <2>2. PICK z \in Submission : z = [t.record EXCEPT !.state = "FINALIZED"] /\ z.tx = t.record.tx
    BY <2>1
  <2>3. registry' \in [Attempts -> Hash]
    BY <1>1, <1>4 DEF JudgingInv, JudgingTypeOK, Submission
  <2>4. ASSUME NEW u \in Task, Put(r, m, u), TaskFits(m, u)', u.pc # "send",
               mishaps = 0 /\ u.pc \in Working => InTurn(m, u.n)'
        PROVE  JudgingInv'
    <3>1. submission' \in [Attempts -> Submission] /\ SubmissionsFit' /\ TxsFit' /\ VerdictsFit' /\ Calm'
      BY <1>0, <1>1, <1>2, <1>4, <2>2, <2>4, CopyPut DEF external
    <3>2. execution' \in [Runs -> Execution] /\ TasksFit' /\ TasksPlaced' /\ RunsFit'
      BY <1>0, <1>1, <1>2, <2>4, TaskGoesOn
    <3>3. JudgingTypeOK'
      BY <1>1, <2>3, <3>1, <3>2 DEF JudgingInv, JudgingTypeOK, external
    <3> QED
      BY <3>1, <3>2, <3>3 DEF JudgingInv, Fitting
  <2>5. CASE verdicts[a] \in Wins
    <3>1. PICK w \in Wins : w = verdicts[a] /\ Earned(m, w)'
      BY <1>1, <2>5 DEF Earned, external
    <3>2. PICK u \in Task : u = [NoTask EXCEPT !.pc = "over", !.found = w] /\ u.pc = "over" /\ TaskFits(m, u)'
      BY <3>1, OverIs DEF Found, JudgingInv
    <3> QED
      BY <1>4, <2>4, <2>5, <3>1, <3>2 DEF Over, Working
  <2>6. CASE verdicts[a] \notin Wins
    <3>1. PICK u : u = Attempting(m, t.n + 1)
      OBVIOUS
    <3>2. /\ u \in Task /\ u.pc \in {"infer", "over"} /\ TaskFits(m, u)'
          /\ u.pc \in Working /\ InTurn(m, t.n + 1)' => InTurn(m, u.n)'
      BY <1>1, <3>1, AttemptingFits DEF JudgingInv
    <3>3. judgeTxs[t.record.tx].status = "TIE"
      BY <1>1, <2>6 DEF JudgingInv, Fitting, TxsFit, TxFits, SentFor, Results, Wins
    <3>4. mishaps = 0 => InTurn(m, t.n + 1)'
      BY <1>0, <1>1, <1>2, <3>3, NextInTurn DEF external
    <3>5. Put(r, m, u) /\ u.pc # "send"
      BY <1>4, <2>6, <3>1, <3>2
    <3> QED
      BY <2>4, <3>2, <3>4, <3>5
  <2> QED
    BY <2>5, <2>6
<1> QED
  <2> HIDE DEF a
  <2> QED
    BY <1>0, <1>3, <1>4 DEF Canonical, a

\* The transaction a task awaits may have left.
LEMMA MayHaveLeft ==
  ASSUME JudgingInv, NEW r \in Runs, NEW m \in Matches, UNCHANGED <<input, answers, fallback, verdicts>>,
         \/ UNCHANGED judgeTxs
         \/ /\ execution[r].task[m].pc = "send" /\ Len(judgeTxs) < MaxSends
            /\ judgeTxs' = Append(judgeTxs, [attempt |-> <<m, execution[r].task[m].n>>,
                                             route |-> execution[r].task[m].route, status |-> "PENDING"])
  PROVE  Later /\ TxsFit' /\ VerdictsFit' /\ judgeTxs' \in Seq(Tx) /\ Len(judgeTxs') <= MaxSends
<1>1. CASE UNCHANGED judgeTxs
  <2>1. Later
    BY <1>1, RecordsAre DEF Later, JudgingInv
  <2> QED
    BY <1>1, <2>1, TxsStay, RecordsAre DEF JudgingInv
<1>2. CASE /\ execution[r].task[m].pc = "send" /\ Len(judgeTxs) < MaxSends
           /\ judgeTxs' = Append(judgeTxs, [attempt |-> <<m, execution[r].task[m].n>>,
                                            route |-> execution[r].task[m].route, status |-> "PENDING"])
  <2>0. PICK t \in Task : t = execution[r].task[m]
    BY ExecutionsAre DEF JudgingInv
  <2> DEFINE a == <<m, t.n>>
  <2>1. a \in Attempts /\ a \notin Abandoned /\ t.n <= input.retryCap /\ a[2] = t.n
    BY <1>2, <2>0, AttemptAtWork, RecordsAre, InputIs DEF Working, JudgingInv
  <2>2. Answered(a, t.route) /\ t.route \in Routes
    BY <1>2, <2>0, <2>1, RecordsAre DEF JudgingInv, Fitting, TasksFit, TaskFits, Answered
  <2>3. judgeTxs' = Append(judgeTxs, [attempt |-> a, route |-> t.route, status |-> "PENDING"])
    BY <1>2, <2>0
  <2> HIDE DEF a
  <2> QED
    BY <1>2, <2>1, <2>2, <2>3, TxAdded
<1> QED
  BY <1>1, <1>2

LEMMA InvFailTask == ASSUME JudgingInv, NEW r \in Runs, NEW m \in Matches, FailTask(r, m) PROVE JudgingInv'
<1>1. /\ execution[r].task[m].pc \in Working /\ Over(r, m, "RECOVERY") /\ sender' = Released(r, m)
      /\ UNCHANGED <<input, stored, verdicts, expired>>
      /\ \/ UNCHANGED judgeTxs
         \/ /\ execution[r].task[m].pc = "send" /\ Len(judgeTxs) < MaxSends
            /\ judgeTxs' = Append(judgeTxs, [attempt |-> <<m, execution[r].task[m].n>>,
                                             route |-> execution[r].task[m].route, status |-> "PENDING"])
  BY DEF FailTask, Working
<1>2. Later /\ TxsFit' /\ VerdictsFit' /\ judgeTxs' \in Seq(Tx) /\ Len(judgeTxs') <= MaxSends
  BY <1>1, MayHaveLeft DEF stored
<1>3. PICK u \in Task : u = [NoTask EXCEPT !.pc = "over", !.found = "RECOVERY"] /\ u.pc = "over" /\ TaskFits(m, u)'
  BY OverIs DEF Found, Wins, JudgingInv
<1>4. execution' \in [Runs -> Execution] /\ TasksFit' /\ TasksPlaced' /\ RunsFit'
  BY <1>1, <1>2, <1>3, TaskGoesOn DEF Over
<1>5. SubmissionsFit'
  BY <1>1, <1>2, SubmissionsStay DEF stored
<1>6. mishaps' \in 0..MaxMishaps /\ mishaps' # 0 /\ sender' \in (Runs \X Matches) \cup {None}
  <2>1. mishaps' \in 0..MaxMishaps /\ mishaps' # 0
    BY RecordsAre, MatchJudgingAssumption DEF FailTask, JudgingInv
  <2>2. sender' \in (Runs \X Matches) \cup {None}
    BY <1>1 DEF Released, JudgingInv, JudgingTypeOK
  <2> QED
    BY <2>1, <2>2
<1>7. JudgingTypeOK'
  BY <1>1, <1>2, <1>4, <1>6 DEF JudgingInv, JudgingTypeOK, stored
<1>8. Calm'
  BY <1>6 DEF Calm
<1> QED
  BY <1>2, <1>4, <1>5, <1>7, <1>8 DEF JudgingInv, Fitting

-----------------------------------------------------------------------------
(* A run. *)

LEMMA NoRunIs ==
  ASSUME JudgingTypeOK
  PROVE  /\ NoTask \in Task /\ NoTask.pc = "off" /\ NoRun \in Execution
         /\ NoRun.batch = 0 /\ NoRun.answer = None /\ NoRun.blocked = {}
         /\ \A m \in Matches : NoRun.task[m] = NoTask /\ NoRun.results[m] = None
<1>1. NoTask \in Task /\ NoTask.pc = "off"
  <2>1. 1 \in 1..MaxCap
    BY RecordsAre, InputIs
  <2> QED
    BY <2>1, MatchJudgingAssumption DEF NoTask, Task, Pc, NoSubmission, Submission, SubmissionState, Hash
<1>2. [m \in Matches |-> NoTask] \in [Matches -> Task] /\ [m \in Matches |-> None] \in [Matches -> Wins \cup {None}]
  BY <1>1
<1>3. NoRun \in Execution
  BY <1>2 DEF NoRun, Execution
<1> QED
  BY <1>1, <1>3 DEF NoRun

\* A run that becomes w, and nothing else.
LEMMA RunGoesOn ==
  ASSUME JudgingInv, NEW r \in Runs, NEW w \in Execution, execution' = [execution EXCEPT ![r] = w],
         UNCHANGED <<input, stored, sender, external, mishaps>>, RunFits(w),
         \A m \in Matches :
            /\ w.task[m].pc \in {"off", "infer", "over"} /\ TaskFits(m, w.task[m])
            /\ w.task[m].pc # "off" => w.batch # 0 /\ m \in input.batches[w.batch]
            /\ w.task[m].pc = "infer" => InTurn(m, w.task[m].n)
  PROVE  JudgingInv'
<1>1. execution \in [Runs -> Execution]
  BY DEF JudgingInv, JudgingTypeOK
<1>2. execution' \in [Runs -> Execution] /\ execution'[r] = w /\ \A q \in Runs : q # r => execution'[q] = execution[q]
  BY <1>1
<1>3. Later
  BY RecordsAre DEF Later, external, stored, JudgingInv
<1>4. JudgingTypeOK'
  BY <1>2 DEF JudgingInv, JudgingTypeOK, external, stored
<1>5. TasksFit'
  <2> SUFFICES ASSUME NEW q \in Runs, NEW m \in Matches PROVE TaskFits(m, execution[q].task[m])'
    BY DEF TasksFit
  <2>1. PICK t : t = execution'[q].task[m] /\ TaskFits(m, t)
    BY <1>2 DEF JudgingInv, Fitting, TasksFit
  <2>2. TaskFits(m, t)'
    BY <2>1 DEF TaskFits, Answered, SentFor, Earned, external, stored
  <2> QED
    BY <2>1, <2>2 DEF TaskFits, Answered, SentFor, Earned
<1>6. TasksPlaced'
  BY <1>2 DEF JudgingInv, Fitting, TasksPlaced
<1>7. RunsFit'
  <2> SUFFICES ASSUME NEW q \in Runs PROVE RunFits(execution[q])'
    BY DEF RunsFit
  <2>1. PICK v : v = execution'[q] /\ RunFits(v)
    BY <1>2 DEF JudgingInv, Fitting, RunsFit
  <2> QED
    BY <2>1 DEF RunFits, Earned, external
<1>8. TxsFit' /\ VerdictsFit' /\ SubmissionsFit'
  BY <1>3, TxsStay, SubmissionsStay DEF external, stored
<1>9. Calm'
  <2> SUFFICES ASSUME mishaps = 0 PROVE SentOnce' /\ OneSender' /\ TasksInTurn' /\ TxsInTurn'
    BY DEF Calm
  <2>1. SentOnce'
    BY DEF JudgingInv, Calm, SentOnce, external, stored
  <2>2. OneSender'
    BY <1>2 DEF JudgingInv, Calm, OneSender, stored
  <2>3. TasksInTurn'
    <3> SUFFICES ASSUME NEW q \in Runs, NEW p \in Matches, execution'[q].task[p].pc \in Working
                 PROVE  InTurn(p, execution[q].task[p].n)'
      BY DEF TasksInTurn
    <3>1. PICK n : n = execution'[q].task[p].n /\ InTurn(p, n)
      BY <1>2 DEF JudgingInv, Calm, TasksInTurn, Working
    <3> QED
      BY <3>1 DEF InTurn, Closed, external
  <2>4. TxsInTurn'
    BY <1>3, TxTurnsStay DEF external
  <2> QED
    BY <2>1, <2>2, <2>3, <2>4
<1> QED
  BY <1>4, <1>5, <1>6, <1>7, <1>8, <1>9 DEF JudgingInv, Fitting

\* A run that opens a batch, nothing missing of the earlier ones unless blocked.
LEMMA OpenFits ==
  ASSUME JudgingInv, NEW v \in Execution, NEW i \in 1..Len(input.batches), v.answer = None,
         v.blocked = {} => \A j \in 1..(i - 1) : \A m \in input.batches[j] : v.results[m] \in Wins,
         \A m \in Matches : v.results[m] \in Wins => Earned(m, v.results[m])
  PROVE  /\ Open(v, i) \in Execution /\ RunFits(Open(v, i))
         /\ \A m \in Matches :
               LET t == Open(v, i).task[m]
               IN  /\ t.pc \in {"off", "infer", "over"} /\ TaskFits(m, t)
                   /\ t.pc # "off" => Open(v, i).batch # 0 /\ m \in input.batches[Open(v, i).batch]
                   /\ t.pc = "infer" => InTurn(m, t.n)
<1> DEFINE tasks == [m \in Matches |-> IF m \in input.batches[i] THEN Attempting(m, 1) ELSE NoTask]
<1>0. i \in Nat \ {0} /\ Len(input.batches) \in Nat
  BY RecordsAre, InputIs DEF JudgingInv
<1>1. NoTask \in Task /\ NoTask.pc = "off" /\ \A m \in Matches : Attempting(m, 1) \in Task
  <2>1. 1 \in Nat \ {0}
    OBVIOUS
  <2>2. \A m \in Matches : Attempting(m, 1) \in Task
    BY <2>1, AttemptingIs DEF JudgingInv
  <2> QED
    BY <2>2, NoRunIs DEF JudgingInv
<1>2. tasks \in [Matches -> Task]
  BY <1>1
<1> HIDE DEF tasks
<1>3. Open(v, i) = [v EXCEPT !.batch = i, !.task = tasks]
  BY DEF Open, tasks
<1>4. PICK w : w = Open(v, i)
  OBVIOUS
<1>5. /\ w \in Execution /\ w.batch = i /\ w.task = tasks /\ w.answer = None
      /\ w.results = v.results /\ w.blocked = v.blocked
  BY <1>0, <1>2, <1>3, <1>4 DEF Execution
<1>6. RunFits(w)
  BY <1>0, <1>5, MatchJudgingAssumption DEF RunFits, Answer
<1>7. ASSUME NEW m \in Matches
      PROVE  /\ w.task[m].pc \in {"off", "infer", "over"} /\ TaskFits(m, w.task[m])
             /\ w.task[m].pc # "off" => w.batch # 0 /\ m \in input.batches[w.batch]
             /\ w.task[m].pc = "infer" => InTurn(m, w.task[m].n)
  <2>1. CASE m \in input.batches[i]
    <3>1. PICK t : t = w.task[m] /\ t = Attempting(m, 1)
      BY <1>5, <2>1 DEF tasks
    <3>2. /\ t.pc \in {"infer", "over"} /\ (t.pc = "over" => t.found = "REFUND")
          /\ t.pc = "infer" => /\ t.n \in 1..input.retryCap /\ <<m, t.n>> \notin Abandoned
                               /\ \A k \in 1..(t.n - 1) : <<m, k>> \in Abandoned
      BY <3>1, AttemptingIs DEF JudgingInv
    <3>3. TaskFits(m, t)
      BY <3>2 DEF TaskFits, Working, Found, Wins
    <3>4. t.pc = "infer" => InTurn(m, t.n)
      BY <3>2 DEF InTurn, Closed
    <3> QED
      BY <1>0, <1>5, <2>1, <3>1, <3>2, <3>3, <3>4
  <2>2. CASE m \notin input.batches[i]
    <3>1. w.task[m] = NoTask
      BY <1>5, <2>2 DEF tasks
    <3> QED
      BY <1>1, <3>1 DEF TaskFits, Working
  <2> QED
    BY <2>1, <2>2
<1> QED
  BY <1>4, <1>5, <1>6, <1>7

\* A run that is over: without a ranking, or with one of nothing but wins.
LEMMA ReturnFits ==
  ASSUME JudgingInv, NEW w \in Execution, w.batch = 0, w.task = NoRun.task,
         w.answer = "RANKING" =>
            \A j \in 1..Len(input.batches) : \A m \in input.batches[j] : w.results[m] \in Wins,
         \A m \in Matches : w.results[m] \in Wins => Earned(m, w.results[m])
  PROVE  /\ RunFits(w)
         /\ \A m \in Matches :
               /\ w.task[m].pc \in {"off", "infer", "over"} /\ TaskFits(m, w.task[m])
               /\ w.task[m].pc # "off" => w.batch # 0 /\ m \in input.batches[w.batch]
               /\ w.task[m].pc = "infer" => InTurn(m, w.task[m].n)
<1>1. RunFits(w)
  BY RecordsAre, InputIs DEF RunFits, JudgingInv
<1>2. \A m \in Matches : w.task[m] = NoTask /\ NoTask.pc = "off"
  BY NoRunIs DEF JudgingInv
<1> QED
  BY <1>1, <1>2 DEF TaskFits, Working

LEMMA ReturnIs ==
  ASSUME JudgingInv, NEW a \in Answer, a # "RANKING"
  PROVE  /\ Return(a) \in Execution /\ RunFits(Return(a))
         /\ \A m \in Matches :
               LET t == Return(a).task[m]
               IN  /\ t.pc \in {"off", "infer", "over"} /\ TaskFits(m, t)
                   /\ t.pc # "off" => Return(a).batch # 0 /\ m \in input.batches[Return(a).batch]
                   /\ t.pc = "infer" => InTurn(m, t.n)
<1>1. PICK w : w = Return(a)
  OBVIOUS
<1>2. NoRun \in Execution /\ NoRun.batch = 0 /\ \A m \in Matches : NoRun.results[m] = None
  BY NoRunIs DEF JudgingInv
<1>3. /\ w \in Execution /\ w.batch = 0 /\ w.task = NoRun.task /\ w.answer = a /\ w.results = NoRun.results
  BY <1>1, <1>2 DEF Return, Execution
<1>4. \A m \in Matches : w.results[m] \notin Wins
  BY <1>2, <1>3, MatchJudgingAssumption DEF Wins, Results
<1> QED
  BY <1>1, <1>3, <1>4, ReturnFits

LEMMA InvStartRun == ASSUME JudgingInv, NEW r \in Runs, StartRun(r) PROVE JudgingInv'
<1>1. UNCHANGED <<input, stored, sender, external, mishaps>>
  BY DEF StartRun
<1>2. CASE expired
  <2>1. PICK w : w = Return("REFUND")
    OBVIOUS
  <2>2. execution' = [execution EXCEPT ![r] = w]
    BY <1>2, <2>1 DEF StartRun
  <2>3. "REFUND" \in Answer
    BY DEF Answer
  <2> QED
    BY <1>1, <2>1, <2>2, <2>3, ReturnIs, RunGoesOn
<1>3. CASE ~expired
  <2>1. PICK w : w = Open(NoRun, 1)
    OBVIOUS
  <2>2. execution' = [execution EXCEPT ![r] = w]
    BY <1>3, <2>1 DEF StartRun
  <2>3. 1 \in 1..Len(input.batches)
    BY RecordsAre, InputIs DEF JudgingInv
  <2>4. /\ NoRun \in Execution /\ NoRun.answer = None
        /\ \A m \in Matches : NoRun.results[m] \notin Wins
    BY NoRunIs, MatchJudgingAssumption DEF JudgingInv, Wins, Results
  <2>5. \A j \in 1..(1 - 1) : \A m \in input.batches[j] : NoRun.results[m] \in Wins
    OBVIOUS
  <2> QED
    BY <1>1, <2>1, <2>2, <2>3, <2>4, <2>5, OpenFits, RunGoesOn
<1> QED
  BY <1>2, <1>3

LEMMA InvAdvanceBatch == ASSUME JudgingInv, NEW r \in Runs, AdvanceBatch(r) PROVE JudgingInv'
<1>0. PICK w \in Execution : w = execution[r] /\ RunFits(w)
  BY ExecutionsAre DEF JudgingInv, Fitting, RunsFit
<1> DEFINE i == w.batch
           found(m) == w.task[m].found
           blocked == w.blocked \cup ({found(m) : m \in input.batches[i]} \cap {"WAITING", "RECOVERY"})
           results == [m \in Matches |-> IF m \in input.batches[i] /\ found(m) \in Wins
                                         THEN found(m) ELSE w.results[m]]
           last == i = Len(input.batches)
<1>1. /\ i \in 1..Len(input.batches) /\ UNCHANGED <<input, stored, sender, external, mishaps>>
      /\ \A m \in input.batches[i] : w.task[m].pc = "over" /\ m \in Matches
      /\ execution' = [execution EXCEPT ![r] = Gather(w)] /\ w.answer = None
  <2>1. w.batch > 0 /\ w.batch \in 0..Len(input.batches)
    BY <1>0 DEF AdvanceBatch, RunFits
  <2>2. i \in 1..Len(input.batches)
    BY <2>1, RecordsAre, InputIs DEF JudgingInv
  <2> QED
    BY <1>0, <2>1, <2>2, RecordsAre, InputIs DEF AdvanceBatch, Here, JudgingInv, RunFits
<1>2. \A m \in input.batches[i] : found(m) \in Found /\ (found(m) \in Wins => Earned(m, found(m)))
  BY <1>0, <1>1 DEF JudgingInv, Fitting, TasksFit, TaskFits
<1>3. /\ results \in [Matches -> Wins \cup {None}] /\ blocked \subseteq {"WAITING", "RECOVERY"}
      /\ \A m \in Matches : results[m] \in Wins => Earned(m, results[m])
  BY <1>0, <1>2 DEF Execution, RunFits
\* What is neither refunded nor blocked is won.
<1>4. ASSUME blocked = {}, \A m \in input.batches[i] : found(m) # "REFUND"
      PROVE  \A j \in 1..i : \A m \in input.batches[j] : results[m] \in Wins
  <2>1. \A m \in input.batches[i] : found(m) \in Wins
    BY <1>2, <1>4 DEF Found, Wins
  <2>2. \A j \in 1..(i - 1) : \A m \in input.batches[j] : w.results[m] \in Wins /\ m \in Matches
    BY <1>0, <1>1, <1>4, RecordsAre, InputIs DEF RunFits, JudgingInv
  <2>3. \A j \in 1..i : j = i \/ j \in 1..(i - 1)
    BY <1>1, RecordsAre, InputIs DEF JudgingInv
  <2> QED
    BY <1>1, <2>1, <2>2, <2>3
<1>5. CASE \E m \in input.batches[i] : found(m) = "REFUND"
  <2>1. Gather(w) = Return("REFUND")
    BY <1>5 DEF Gather
  <2>2. PICK v : v = Return("REFUND")
    OBVIOUS
  <2>3. "REFUND" \in Answer
    BY DEF Answer
  <2> QED
    BY <1>1, <2>1, <2>2, <2>3, ReturnIs, RunGoesOn
<1>6. CASE /\ \A m \in input.batches[i] : found(m) # "REFUND"
           /\ blocked # {} /\ (last \/ input.rounds[i + 1] # input.rounds[i])
  <2>1. Gather(w) = Return(IF "RECOVERY" \in blocked THEN "RECOVERY" ELSE "WAITING")
    BY <1>6 DEF Gather
  <2>2. PICK a \in {"RECOVERY", "WAITING"} : Gather(w) = Return(a)
    BY <2>1
  <2>3. PICK v : v = Return(a)
    OBVIOUS
  <2>4. a \in Answer /\ a # "RANKING"
    BY DEF Answer
  <2> QED
    BY <1>1, <2>2, <2>3, <2>4, ReturnIs, RunGoesOn
<1>7. CASE (\A m \in input.batches[i] : found(m) # "REFUND") /\ blocked = {} /\ last
  <2>1. Gather(w) = Ranking(results)
    BY <1>7 DEF Gather
  <2>2. PICK v : v = Ranking(results)
    OBVIOUS
  <2>3. \A j \in 1..Len(input.batches) : \A m \in input.batches[j] : results[m] \in Wins
    BY <1>4, <1>7
  <2>4. v \in Execution /\ v.batch = 0 /\ v.task = NoRun.task /\ v.results = results
    <3>1. NoRun \in Execution /\ NoRun.batch = 0
      BY NoRunIs DEF JudgingInv
    <3> HIDE DEF results
    <3> QED
      BY <1>3, <2>2, <3>1 DEF Ranking, Execution, Answer
  <2> HIDE DEF results, blocked, last, found, i
  <2> QED
    BY <1>1, <1>3, <2>1, <2>2, <2>3, <2>4, ReturnFits, RunGoesOn
<1>8. CASE /\ \A m \in input.batches[i] : found(m) # "REFUND"
           /\ ~(blocked # {} /\ (last \/ input.rounds[i + 1] # input.rounds[i])) /\ ~(blocked = {} /\ last)
  <2>1. Gather(w) = Open([w EXCEPT !.results = results, !.blocked = blocked], i + 1)
    BY <1>8 DEF Gather
  <2>2. PICK v : v = [w EXCEPT !.results = results, !.blocked = blocked]
    OBVIOUS
  <2>3. i + 1 \in 1..Len(input.batches) /\ (i + 1) - 1 = i
    <3>1. i # Len(input.batches)
      BY <1>8
    <3>2. i \in Nat /\ Len(input.batches) \in Nat /\ 1 <= i /\ i <= Len(input.batches)
      BY <1>1, RecordsAre, InputIs DEF JudgingInv
    <3> HIDE DEF i
    <3> QED
      BY <3>1, <3>2
  <2>4. blocked = {} => \A j \in 1..i : \A m \in input.batches[j] : results[m] \in Wins
    BY <1>4, <1>8
  <2> HIDE DEF results, blocked
  <2>5. v \in Execution /\ v.answer = None /\ v.results = results /\ v.blocked = blocked
    BY <1>1, <1>3, <2>2 DEF Execution
  <2>6. PICK n : n = i + 1
    OBVIOUS
  <2>7. PICK u : u = Open(v, n)
    OBVIOUS
  <2>8. v.blocked = {} => \A j \in 1..(n - 1) : \A m \in input.batches[j] : v.results[m] \in Wins
    BY <2>3, <2>4, <2>5, <2>6
  <2>9. execution' = [execution EXCEPT ![r] = u]
    BY <1>1, <2>1, <2>2, <2>6, <2>7
  <2> HIDE DEF last, found, i
  <2> QED
    BY <1>1, <1>3, <2>3, <2>5, <2>6, <2>7, <2>8, <2>9, OpenFits, RunGoesOn
<1> QED
  BY <1>5, <1>6, <1>7, <1>8

LEMMA InvCrashRuns == ASSUME JudgingInv, CrashRuns PROVE JudgingInv'
<1>1. /\ execution' = [r \in Runs |-> NoRun] /\ sender' = None
      /\ UNCHANGED <<input, stored, verdicts, expired>>
  BY DEF CrashRuns
<1>2. Later /\ TxsFit' /\ VerdictsFit' /\ judgeTxs' \in Seq(Tx) /\ Len(judgeTxs') <= MaxSends
  <2>1. CASE UNCHANGED judgeTxs
    <3>1. Later
      BY <1>1, <2>1, RecordsAre DEF Later, JudgingInv, stored
    <3> QED
      BY <1>1, <2>1, <3>1, TxsStay, RecordsAre DEF JudgingInv
  <2>2. CASE \E r \in Runs, m \in Matches :
             /\ Here(r, m, "send") /\ Len(judgeTxs) < MaxSends
             /\ judgeTxs' = Append(judgeTxs, [attempt |-> <<m, execution[r].task[m].n>>,
                                              route |-> execution[r].task[m].route, status |-> "PENDING"])
    BY <1>1, <2>2, MayHaveLeft DEF Here, stored
  <2> QED
    BY <2>1, <2>2 DEF CrashRuns
<1>3. /\ NoTask \in Task /\ NoTask.pc = "off" /\ NoRun \in Execution
      /\ NoRun.batch = 0 /\ NoRun.answer = None
      /\ \A m \in Matches : NoRun.task[m] = NoTask /\ NoRun.results[m] = None
  BY NoRunIs DEF JudgingInv
<1>4. TasksFit' /\ TasksPlaced'
  BY <1>1, <1>3 DEF TasksFit, TaskFits, TasksPlaced, Working
<1>5. RunsFit'
  <2>1. Len(input'.batches) \in Nat
    BY <1>1, RecordsAre, InputIs DEF JudgingInv
  <2> QED
    BY <1>1, <1>3, <2>1, MatchJudgingAssumption DEF RunsFit, RunFits, Wins, Results, Answer
<1>6. SubmissionsFit'
  BY <1>1, <1>2, SubmissionsStay DEF stored
<1>7. mishaps' \in 0..MaxMishaps /\ mishaps' # 0
  BY RecordsAre, MatchJudgingAssumption DEF CrashRuns, JudgingInv
<1>8. JudgingTypeOK'
  BY <1>1, <1>2, <1>3, <1>7 DEF JudgingInv, JudgingTypeOK, stored
<1>9. Calm'
  BY <1>7 DEF Calm
<1> QED
  BY <1>2, <1>4, <1>5, <1>6, <1>8, <1>9 DEF JudgingInv, Fitting

-----------------------------------------------------------------------------
(* The theorems. *)

LEMMA JudgingStarts == JudgingInit => JudgingInv
<1> SUFFICES ASSUME JudgingInit PROVE JudgingInv
  OBVIOUS
<1>0. input \in Inputs /\ 1 \in 1..MaxCap /\ Len(input.batches) \in Nat
  BY InputIs DEF JudgingInit
<1>1. /\ NoTask \in Task /\ NoTask.pc = "off"
      /\ NoSubmission \in Submission /\ NoSubmission.tx = 0
  BY <1>0, MatchJudgingAssumption DEF NoTask, Task, Pc, NoSubmission, Submission, SubmissionState, Hash
<1>2. [m \in Matches |-> NoTask] \in [Matches -> Task] /\ [m \in Matches |-> None] \in [Matches -> Wins \cup {None}]
  BY <1>1
<1>3. /\ NoRun \in Execution /\ NoRun.batch = 0 /\ NoRun.answer = None
      /\ \A m \in Matches : NoRun.task[m] = NoTask /\ NoRun.results[m] = None
  BY <1>2 DEF NoRun, Execution
<1>4. JudgingTypeOK
  <2>1. registry \in [Attempts -> Hash] /\ mishaps \in 0..MaxMishaps /\ Len(judgeTxs) <= MaxSends
        /\ judgeTxs \in Seq(Tx)
    BY MatchJudgingAssumption DEF JudgingInit, Hash
  <2>2. expired \in BOOLEAN
    BY DEF JudgingInit
  <2> QED
    BY <1>0, <1>1, <1>3, <2>1, <2>2 DEF JudgingInit, JudgingTypeOK
<1>5. TasksFit /\ TasksPlaced
  BY <1>1, <1>3 DEF JudgingInit, TasksFit, TaskFits, TasksPlaced, Working
<1>6. RunsFit
  BY <1>0, <1>3, MatchJudgingAssumption DEF JudgingInit, RunsFit, RunFits, Wins, Results, Answer
<1>7. TxsFit /\ SubmissionsFit /\ VerdictsFit
  BY <1>1, MatchJudgingAssumption DEF JudgingInit, TxsFit, SubmissionsFit, VerdictsFit
<1>8. Calm
  BY <1>1, <1>3 DEF JudgingInit, Calm, SentOnce, OneSender, TasksInTurn, TxsInTurn, Working
<1> QED
  BY <1>4, <1>5, <1>6, <1>7, <1>8 DEF JudgingInv, Fitting

LEMMA JudgingGoesOn == JudgingInv /\ [JudgingNext]_judgingVars => JudgingInv'
<1> SUFFICES ASSUME JudgingInv, [JudgingNext]_judgingVars PROVE JudgingInv'
  OBVIOUS
<1>1. CASE \E i \in 1..Len(judgeTxs) : FinalizeComparison(i)
  BY <1>1, InvFinalizeComparison
<1>2. CASE Expire \/ UNCHANGED judgingVars
  BY <1>2, InvExpire
<1>3. CASE \E r \in Runs : StartRun(r) \/ AdvanceBatch(r)
  BY <1>3, InvStartRun, InvAdvanceBatch
<1>4. CASE \E r \in Runs, m \in Matches : TaskStep(r, m) \/ FailTask(r, m)
  BY <1>4, InvInfer, InvSubmit, InvSend, InvPollComparison, InvCanonical, InvFailTask DEF TaskStep
<1>5. CASE CrashRuns
  BY <1>5, InvCrashRuns
<1> QED
  BY <1>1, <1>2, <1>3, <1>4, <1>5 DEF JudgingNext

\* While no call failed, however runs of a tournament overlap, at most one attempt
\* of a match has a winner on GenLayer.
THEOREM AlwaysOneWinningAttempt == JudgingSpec => []OneWinningAttempt
<1>1. JudgingInv => OneWinningAttempt
  <2> SUFFICES ASSUME JudgingInv, mishaps = 0, NEW m \in Matches PROVE Cardinality(Winning(m)) <= 1
    BY DEF OneWinningAttempt
  <2>0. input.retryCap \in Nat /\ \A k \in 1..input.retryCap : <<m, k>> \in Attempts
    BY RecordsAre, InputIs DEF JudgingInv
  <2>1. ASSUME NEW j \in Winning(m), NEW k \in Winning(m), j < k PROVE FALSE
    <3>1. /\ j \in 1..input.retryCap /\ k \in 1..input.retryCap
          /\ verdicts[<<m, j>>] \in Wins /\ verdicts[<<m, k>>] \in Wins /\ Wins \subseteq Results
      BY <2>1 DEF Winning, Wins, Results
    <3>2. PICK x \in 1..Len(judgeTxs) : judgeTxs[x].attempt = <<m, j>> /\ judgeTxs[x].status \in Wins
      BY <2>0, <3>1 DEF JudgingInv, Fitting, VerdictsFit
    <3>3. PICK y \in 1..Len(judgeTxs) : judgeTxs[y].attempt = <<m, k>>
      BY <2>0, <3>1 DEF JudgingInv, Fitting, VerdictsFit
    <3>4. Closed(m, j)
      <4>1. InTurn(m, k) /\ j \in 1..(k - 1)
        BY <2>0, <2>1, <3>1, <3>3 DEF JudgingInv, Calm, TxsInTurn
      <4> QED
        BY <4>1 DEF InTurn
    <3>5. <<m, j>> \notin Abandoned
      BY <3>2 DEF JudgingInv, Fitting, TxsFit, TxFits
    <3>6. PICK z \in 1..Len(judgeTxs) : judgeTxs[z].attempt = <<m, j>> /\ judgeTxs[z].status \in {"NO_CONSENSUS", "TIE"}
      BY <3>4, <3>5 DEF Closed
    <3>7. x = z
      BY <3>2, <3>6 DEF JudgingInv, Calm, SentOnce
    <3> QED
      BY <3>2, <3>6, <3>7 DEF Wins
  <2>2. Winning(m) \subseteq 1..input.retryCap
    BY DEF Winning
  <2>3. CASE Winning(m) = {}
    BY <2>3, FS_EmptySet
  <2>4. CASE Winning(m) # {}
    <3>1. PICK k \in Winning(m) : TRUE
      BY <2>4
    <3>2. Winning(m) = {k}
      BY <2>0, <2>1, <2>2
    <3>3. Cardinality({k}) = 1
      BY FS_Singleton
    <3> QED
      BY <3>2, <3>3
  <2> QED
    BY <2>3, <2>4
<1> QED
  BY <1>1, JudgingStarts, JudgingGoesOn, PTL DEF JudgingSpec

\* What is judged is always a whole pair of stored answers of one route, and a
\* ranking always rests on a winner GenLayer finalized for every match, whatever
\* call failed, hash was lost or process crashed.
THEOREM RankingsAlwaysFounded == JudgingSpec => []RankingsFounded
<1>1. JudgingInv => RankingsFounded
  <2> SUFFICES ASSUME JudgingInv PROVE RankingsFounded
    OBVIOUS
  <2>1. WholePairs
    BY DEF WholePairs, JudgingInv, Fitting, TxsFit, TxFits, Answered
  <2>2. RankedOnVerdicts
    <3> SUFFICES ASSUME NEW r \in Runs, execution[r].answer = "RANKING", NEW m \in UNION Range(input.batches)
                 PROVE  /\ execution[r].results[m] \in Wins
                        /\ \E k \in 1..input.retryCap : verdicts[<<m, k>>] = execution[r].results[m]
      BY DEF RankedOnVerdicts
    <3>0. m \in UNION {input.batches[j] : j \in 1..Len(input.batches)}
      BY RecordsAre, InputIs DEF JudgingInv
    <3>1. PICK j \in 1..Len(input.batches) : m \in input.batches[j]
      BY <3>0
    <3>2. m \in Matches
      BY <3>1, RecordsAre, InputIs DEF JudgingInv
    <3> QED
      BY <3>1, <3>2 DEF JudgingInv, Fitting, RunsFit, RunFits, Earned
  <2> QED
    BY <2>1, <2>2 DEF RankingsFounded
<1> QED
  BY <1>1, JudgingStarts, JudgingGoesOn, PTL DEF JudgingSpec

\* The records of the matches, the tasks of every run and what they are about to send
\* stay within their types.
THEOREM JudgingTyped == JudgingSpec => []JudgingTypeOK
<1>1. JudgingInv => JudgingTypeOK
  BY DEF JudgingInv
<1> QED
  BY <1>1, JudgingStarts, JudgingGoesOn, PTL DEF JudgingSpec
================================================================================
