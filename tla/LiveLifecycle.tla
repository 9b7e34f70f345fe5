----------------------------- MODULE LiveLifecycle -----------------------------
(***************************************************************************)
(* The operator's scripts that take one tournament through its whole life: *)
(* src/scripts/run-live-lifecycle.mjs, and src/scripts/                    *)
(* recover-live-refund.mjs for one that could not be settled.              *)
(*                                                                         *)
(* A script is a list of steps.  A step reads Arc or the state file and is *)
(* passed over, or it simulates a call, sends it, writes the hash to the   *)
(* file, and waits for the receipt.  A script may end at any await, by an  *)
(* error, a timeout or a crash; the next run starts from the top with what *)
(* the file and Arc say, while what was sent may still be mined, or never. *)
(* The escrow is module TournamentEscrow; the wallets are all derived from *)
(* the operator's key, so nobody else registers or claims.  The helpers'   *)
(* gas is external: a run has enough or ends there.  So is what the        *)
(* orchestrator's stored judgments rank.                                   *)
(***************************************************************************)
EXTENDS TournamentEscrow, Sequences

CONSTANTS Live,         \* state.arcTournamentId
          LivePolicy,   \* its policy, with the deadlines written to the file
          AgentCount,   \* the accounts: the owner's and seven helpers'
          AccountOf,    \* accounts[index]
          EntrantOf,    \* agents[index].arcEntrantId
          MaxRuns,      \* bound: runs of the two scripts
          MaxSent       \* bound: transactions sent

Index == 0..(AgentCount - 1)

ASSUME LifecycleAssumption ==
    /\ Live \in Tournaments
    /\ LivePolicy \in Policies /\ LivePolicy.operator = Owner
    /\ AgentCount \in Nat \ {0, 1}
    /\ LivePolicy.minEntrants = AgentCount /\ LivePolicy.maxEntrants = AgentCount
    /\ AccountOf \in [Index -> Accounts] /\ IsInjective(AccountOf)
    /\ EntrantOf \in [Index -> Entrants] /\ IsInjective(EntrantOf)
    /\ MaxRuns \in Nat /\ MaxSent \in Nat

VARIABLES script,    \* the run under way: its step, and how far that is
          sent,      \* the transactions sent
          file,      \* the state file: status, ranking, arcTransactions
          allowed,   \* external: the accounts whose allowance covers the stake
          runs       \* bound: the runs started

scriptVars == <<script, sent, file, allowed, runs>>
lifecycleVars == <<vars, scriptVars>>

-----------------------------------------------------------------------------
(* The steps.                                                              *)

MainActs == {"create-tournament", "fund-helper", "approve", "register", "roster", "close-registration",
             "mark-running", "orchestrator", "settle", "auto-payout", "auto-payout-fee",
             "close-tournament", "readback"}
RecoveryActs == {"cancel-refunds", "refundable", "fund-refund-gas", "claim-refund", "withdraw-refund",
                 "close-refunded", "refund-readback"}
Step == [act : MainActs \cup RecoveryActs, i : Index \cup Ranks]
StepAt(act, i) == [act |-> act, i |-> i]

\* In the order of main, its loops over helpers, agents and ranks included.
After(s) ==
    LET again == s.i + 1 \in Index
    IN  CASE s.act = "create-tournament" -> StepAt("fund-helper", 1)
          [] s.act = "fund-helper" -> IF again THEN StepAt("fund-helper", s.i + 1) ELSE StepAt("approve", 0)
          [] s.act = "approve" -> StepAt("register", s.i)
          [] s.act = "register" -> IF again THEN StepAt("approve", s.i + 1) ELSE StepAt("roster", 0)
          [] s.act = "roster" -> StepAt("close-registration", 0)
          [] s.act = "close-registration" -> StepAt("mark-running", 0)
          [] s.act = "mark-running" -> StepAt("orchestrator", 0)
          [] s.act = "orchestrator" -> StepAt("settle", 0)
          [] s.act = "settle" -> StepAt("auto-payout", 1)
          [] s.act = "auto-payout" -> IF s.i + 1 \in Ranks THEN StepAt("auto-payout", s.i + 1)
                                                           ELSE StepAt("auto-payout-fee", 0)
          [] s.act = "auto-payout-fee" -> StepAt("close-tournament", 0)
          [] s.act = "close-tournament" -> StepAt("readback", 0)
          [] s.act = "cancel-refunds" -> StepAt("refundable", 0)
          [] s.act = "refundable" -> StepAt("claim-refund", 0)
          [] s.act = "fund-refund-gas" -> StepAt("claim-refund", s.i)
          [] s.act = "claim-refund" -> StepAt("withdraw-refund", s.i)
          [] s.act = "withdraw-refund" -> IF again THEN StepAt("fund-refund-gas", s.i + 1)
                                                   ELSE StepAt("close-refunded", 0)
          [] OTHER -> StepAt("refund-readback", 0)

LiveTournament == tournament[Live]
NothingHeld == LiveTournament.totalLiability = 0 /\ LiveTournament.totalLockedStakes = 0
Enrolled(i) == entrant[Live][EntrantOf[i]].wallet
RankedWallet(k) == entrant[Live][file.ranking[k]].wallet
Credit(a) == credits[Live][a]

\* Otherwise the script throws; at the roster it waits.
Holds(s) ==
    CASE s.act = "roster" -> /\ LiveTournament.entrantCount = AgentCount
                             /\ LiveTournament.totalLockedStakes = LivePolicy.stake * AgentCount
                             /\ now >= LivePolicy.closesAt
      [] s.act \in {"close-tournament", "close-refunded"} -> NothingHeld
      [] s.act \in {"readback", "refund-readback"} -> LiveTournament.state = "CLOSED" /\ NothingHeld
      [] s.act = "refundable" -> LiveTournament.state \in {"CANCELLED_REFUNDABLE", "CLOSED"}
      [] s.act = "fund-refund-gas" -> Credit(AccountOf[s.i - 1]) = 0
      [] s.act = "claim-refund" -> Enrolled(s.i) = AccountOf[s.i]
      [] OTHER -> TRUE

\* What Arc or the file says that a call is still missing.
Missing(s) ==
    CASE s.act = "create-tournament" -> Live \notin created
      [] s.act = "approve" -> Enrolled(s.i) = None /\ AccountOf[s.i] \notin allowed
      [] s.act = "close-registration" -> LiveTournament.state = "DRAFT"
      [] s.act = "mark-running" -> LiveTournament.state = "REGISTRATION_CLOSED"
      [] s.act = "settle" -> LiveTournament.state = "RUNNING"
      [] s.act = "auto-payout" -> Credit(RankedWallet(s.i)) > 0
      [] s.act = "auto-payout-fee" -> LiveTournament.platformFeeCredit > 0
      [] s.act = "close-tournament" -> LiveTournament.state # "CLOSED"
      [] s.act = "cancel-refunds" -> LiveTournament.state \in Undecided
      [] s.act = "withdraw-refund" -> s \notin file.done /\ Credit(AccountOf[s.i]) > 0
      [] s.act \in {"claim-refund", "close-refunded"} -> s \notin file.done
      [] OTHER -> s.act \notin {"fund-helper", "roster", "refundable", "fund-refund-gas"}

PassedTo(s) ==
    CASE s.act = "approve" /\ Enrolled(s.i) # None -> After(StepAt("register", s.i))
      [] s.act = "refundable" /\ LiveTournament.state = "CLOSED" -> StepAt("refund-readback", 0)
      [] OTHER -> After(s)

-----------------------------------------------------------------------------
(* What a transaction does on Arc when it is mined and does not revert.    *)

Call(s, ranking) ==
    LET account == AccountOf[s.i]
    IN  \/ s.act = "approve" /\ allowed' = allowed \cup {account} /\ UNCHANGED vars
        \/ /\ s.act = "register" /\ account \in allowed
           /\ Register(account, Live, EntrantOf[s.i])
           /\ allowed' = allowed \ {account}
        \/ /\ \/ s.act = "create-tournament" /\ CreateTournament(Live, LivePolicy)
              \/ s.act = "close-registration" /\ CloseRegistration(Live)
              \/ s.act = "mark-running" /\ MarkRunning(Live)
              \/ s.act = "settle" /\ SettleByOperator(Owner, Live, ranking, 1)
              \/ /\ s.act = "auto-payout"
                 /\ \E a \in Accounts : a = entrant[Live][ranking[s.i]].wallet /\ WithdrawCreditFor(Live, a)
              \/ s.act = "auto-payout-fee" /\ WithdrawPlatformFeeFor(Live)
              \/ s.act = "cancel-refunds" /\ CancelAndOpenRefunds(Owner, Live)
              \/ s.act = "claim-refund" /\ ClaimRefund(account, Live, EntrantOf[s.i])
              \/ s.act = "withdraw-refund" /\ WithdrawCreditFor(Live, account)
              \/ s.act \in {"close-tournament", "close-refunded"} /\ CloseTournament(Live)
           /\ UNCHANGED allowed

-----------------------------------------------------------------------------
(* The runs.                                                               *)

\* Time counts from the writing of the file.
LifecycleInit ==
    /\ Init
    /\ script = [pc |-> "idle", step |-> StepAt("readback", 0)]
    /\ sent = <<>>
    /\ file = [status |-> "CREATED", ranking |-> <<>>, log |-> <<>>, done |-> {}]
    /\ allowed = {}
    /\ runs = 0

To(pc, s) == script' = [pc |-> pc, step |-> s]

RunMain ==
    /\ script.pc = "idle" /\ runs < MaxRuns
    /\ To("read", StepAt("create-tournament", 0))
    /\ runs' = runs + 1
    /\ UNCHANGED <<vars, sent, file, allowed>>

\* A tournament that may still be settled is left alone.
RunRecovery ==
    /\ script.pc = "idle" /\ runs < MaxRuns
    /\ ~(LiveTournament.state \in Undecided /\ now < LiveTournament.policy.expiresAt)
    /\ To("read", StepAt("cancel-refunds", 0))
    /\ runs' = runs + 1
    /\ UNCHANGED <<vars, sent, file, allowed>>

PassOver ==
    LET s == script.step
    IN  /\ script.pc = "read" /\ s.act \notin {"orchestrator", "readback", "refund-readback"}
        /\ Holds(s)
        /\ ~Missing(s)
        /\ To("read", PassedTo(s))
        /\ UNCHANGED <<vars, sent, file, allowed, runs>>

ToCall ==
    LET s == script.step
    IN  /\ script.pc = "read" /\ s.act \notin {"orchestrator", "readback", "refund-readback"}
        /\ Holds(s) /\ Missing(s)
        /\ To(IF s \in DOMAIN file.log THEN "wait" ELSE "send", s)
        /\ UNCHANGED <<vars, sent, file, allowed, runs>>

\* The simulation must not revert; what it asks of a cancellation is said again,
\* for the proofs, to which ENABLED is closed.
Simulated(s) ==
    /\ ENABLED Call(s, file.ranking)
    /\ s.act = "cancel-refunds" => LiveTournament.policy.operator = Owner /\ MayCancel(Live)

Send ==
    /\ script.pc = "send" /\ Len(sent) < MaxSent
    /\ Simulated(script.step)
    /\ sent' = Append(sent, [step |-> script.step, ranking |-> file.ranking, result |-> "pending"])
    /\ To("record", script.step)
    /\ UNCHANGED <<vars, file, allowed, runs>>

Record ==
    /\ script.pc = "record"
    /\ file' = [file EXCEPT !.log = [x \in DOMAIN @ \cup {script.step} |->
                                        IF x = script.step THEN Len(sent) ELSE @[x]]]
    /\ To("wait", script.step)
    /\ UNCHANGED <<vars, sent, allowed, runs>>

Receipt ==
    /\ script.pc = "wait"
    /\ sent[file.log[script.step]].result = "success"
    /\ file' = [file EXCEPT !.done = @ \cup {script.step}]
    /\ To("read", After(script.step))
    /\ UNCHANGED <<vars, sent, allowed, runs>>

Ask ==
    /\ script = [pc |-> "read", step |-> StepAt("orchestrator", 0)]
    /\ now < LivePolicy.expiresAt
    /\ To("asked", script.step)
    /\ UNCHANGED <<vars, sent, file, allowed, runs>>

\* Mutant of Rankings: the judgments are not kept from one run to the next.
RankingsAnew == {r \in [Ranks -> {EntrantOf[i] : i \in Index}] : IsInjective(r)}

\* External: the ranking of the judgments in the store, which a later run finds there.
Rankings == IF file.ranking # <<>> THEN {file.ranking}
            ELSE {r \in [Ranks -> {EntrantOf[i] : i \in Index}] : IsInjective(r)}

RankingReady ==
    /\ script.pc = "asked"
    /\ \E r \in Rankings : file' = [file EXCEPT !.ranking = r, !.status = "RANKING_READY"]
    /\ To("read", After(script.step))
    /\ UNCHANGED <<vars, sent, allowed, runs>>

Finish ==
    LET s == script.step
    IN  /\ script.pc = "read" /\ s.act \in {"readback", "refund-readback"}
        /\ Holds(s)
        /\ file' = [file EXCEPT !.status =
                        IF s.act = "readback" THEN "COMPLETE" ELSE "REFUNDED_CLOSED"]
        /\ To("idle", s)
        /\ UNCHANGED <<vars, sent, allowed, runs>>

\* An error, a timeout of 120 s or a crash.
End ==
    /\ script.pc # "idle"
    /\ To("idle", script.step)
    /\ UNCHANGED <<vars, sent, file, allowed, runs>>

\* It may revert for want of gas as well.
Mine(k) ==
    /\ sent[k].result = "pending"
    /\ \/ /\ Call(sent[k].step, sent[k].ranking)
          /\ sent' = [sent EXCEPT ![k].result = "success"]
       \/ /\ sent' = [sent EXCEPT ![k].result = "reverted"]
          /\ UNCHANGED <<vars, allowed>>
    /\ UNCHANGED <<script, file, runs>>

\* What anyone may call on the escrow: AutomaticPayoutWorker and the helpers do.
Others ==
    /\ \/ \E a \in Accounts : WithdrawCreditFor(Live, a)
       \/ WithdrawPlatformFeeFor(Live)
       \/ CloseTournament(Live)
    /\ UNCHANGED scriptVars

LifecycleNext ==
    \/ RunMain \/ RunRecovery \/ PassOver \/ ToCall \/ Send \/ Record \/ Receipt
    \/ Ask \/ RankingReady \/ Finish \/ End \/ Others
    \/ \E k \in DOMAIN sent : Mine(k)
    \/ Tick /\ UNCHANGED scriptVars

LifecycleSpec == LifecycleInit /\ [][LifecycleNext]_lifecycleVars

-----------------------------------------------------------------------------
(* Properties.                                                             *)

LifecycleTypeOK ==
    /\ TypeOK
    /\ script \in [pc : {"idle", "read", "send", "record", "wait", "asked"}, step : Step]
    /\ sent \in Seq([step : Step, ranking : {<<>>} \cup [Ranks -> Entrants],
                     result : {"pending", "success", "reverted"}])
    /\ file.status \in {"CREATED", "RANKING_READY", "COMPLETE", "REFUNDED_CLOSED"}
    /\ file.ranking \in {<<>>} \cup [Ranks -> Entrants]
    /\ DOMAIN file.log \subseteq Step /\ \A s \in DOMAIN file.log : file.log[s] \in DOMAIN sent
    /\ file.done \subseteq DOMAIN file.log
    /\ allowed \subseteq Accounts
    /\ runs \in 0..MaxRuns

Prize(a) ==
    LET pool == LivePolicy.stake * AgentCount
    IN  Award(a, pool, LivePolicy.payoutBps, [k \in Ranks |-> RankedWallet(k)])
        + IF a = Owner THEN Fee(pool) ELSE 0

\* However often the scripts die, are run again and overtake their own
\* transactions, every account ends with the prizes of the ranking in the state
\* file, or with its whole stake: a settlement pays that ranking and no other, a
\* run is COMPLETE only after a settlement, and no file says that the tournament is
\* over while somebody is owed.  (Before the first run the file claims nothing.)
RunTruthful ==
    /\ LifecycleTypeOK
    /\ runs > 0 =>
          /\ \A a \in Accounts :
                LET paidIn == IF a \in entered[Live] THEN LivePolicy.stake ELSE 0
                IN  usdc[a] + Owed[Live][a] =
                       IF LiveTournament.settlementNonce = 1 THEN Funds - paidIn + Prize(a)
                       ELSE IF LiveTournament.state \in Undecided THEN Funds - paidIn
                       ELSE Funds
          /\ file.status = "COMPLETE" => LiveTournament.settlementNonce = 1
          /\ file.status \in {"COMPLETE", "REFUNDED_CLOSED"} =>
                LiveTournament.state = "CLOSED" /\ \A a \in Accounts : Owed[Live][a] = 0

=============================================================================
