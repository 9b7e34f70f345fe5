------------------------------- MODULE PairPlay -------------------------------
(***************************************************************************)
(* One pair room from creation to payout: the request handlers, the        *)
(* settlement worker's overlapping ticks, the managed wallets, the escrow  *)
(* contract and GenLayer, interleaved at every await, with a server that   *)
(* may crash.                                                              *)
(***************************************************************************)
EXTENDS PairRoomCoordinator, PairSettlementWorker

vars == <<chain, now, store, circle, pool, judge, faults, req, work>>

Init == StoreInit /\ RequestInit /\ WorkInit

\* Every handler and tick is gone; leases and records stay, and an operator
\* transaction may or may not have been sent.
Crash ==
    /\ faults < MaxFaults
    /\ faults' = faults + 1
    /\ req' = [h \in Handlers |-> Idle]
    /\ work' = [w \in Workers |-> Resting]
    /\ \E sent \in SUBSET UNION {InFlight(w) : w \in Workers} :
          pool' = pool \cup sent
    /\ UNCHANGED <<chain, now, store, circle, judge>>

ServeStep(h) == Serves(h) /\ UNCHANGED work
AskStep(h) == Asks(h) /\ UNCHANGED work
GiveUpStep(h) == GivesUp(h) /\ UNCHANGED work
WorkStep(w) == Progresses(w) /\ UNCHANGED req
FailStep(w) == CallFails(w) /\ UNCHANGED req
WalletStep(kind, p) == (Executes(kind, p) \/ Fails(kind, p)) /\ UNCHANGED <<req, work>>
LandStep == Lands /\ UNCHANGED <<req, work>>
TimeStep == Passes /\ UNCHANGED <<req, work>>

Next ==
    \/ \E h \in Handlers : AskStep(h) \/ ServeStep(h) \/ GiveUpStep(h)
    \/ \E w \in Workers : WorkStep(w) \/ FailStep(w)
    \/ \E kind \in Kinds, p \in Principals : WalletStep(kind, p)
    \/ LandStep
    \/ TimeStep
    \/ Crash

Spec == Init /\ [][Next]_vars

-----------------------------------------------------------------------------
(* Fairness.  The worker's timer keeps ticking and every call it awaits ends *)
(* (server.ts, the 120 s receipt timeout), wallet requests end, handlers     *)
(* answer, and blocks keep arriving.  Failures are finitely many, MaxFaults. *)

Fairness ==
    /\ \A w \in Workers : WF_vars(WorkStep(w))
    /\ \A kind \in Kinds, p \in Principals : WF_vars(WalletStep(kind, p))
    /\ \A h \in Handlers : WF_vars(ServeStep(h))
    /\ WF_vars(TimeStep)

FairSpec == Spec /\ Fairness

\* A player whose create or join did not come back sends it again.
Retries ==
    \A h \in Handlers :
        /\ SF_vars(StartCreate(h) /\ row.state = "PENDING" /\ UNCHANGED work)
        /\ \A p \in Challengers :
              SF_vars(StartJoin(h, p) /\ row.state = "JOINING" /\ UNCHANGED work)

RetryingSpec == FairSpec /\ Retries

-----------------------------------------------------------------------------
(* Properties that hold. *)

TypeOK == StoreTypeOK /\ RequestTypeOK /\ WorkTypeOK

\* The contract pays a winner only for a finalized verdict: the one settlement
\* intent names the attempt GenLayer judged a win and the player that won it,
\* whichever ticks overlapped, crashed or sent the settlement twice.
WinnerIsVerdict ==
    onArc.state = "SETTLED" =>
        /\ settleIntent # NoIntent
        /\ onArc.winner = settleIntent.winner
        /\ onArc.winner = CASE judge[settleIntent.attempt] = "A_WIN" -> Creator
                            [] judge[settleIntent.attempt] = "B_WIN"
                                   -> onArc.challenger
                            [] OTHER -> None

\* Only the challenger whose reservation was stored first is ever written to
\* the record or deposits a stake: two principals joining at once never both
\* pay, and neither replaces the other's pending join.
JoinReserved ==
    \A p \in Challengers :
        (\/ p = row.challenger
         \/ p = onArc.challenger
         \/ circle[<<"JOIN", p>>] # "none")
        => joinIntent = p

\* What a user is shown never runs ahead of Arc: a visible room holds its
\* creator's stake, a joined one the stake of the challenger it names, and a
\* terminal one has that outcome on the contract.
RecordBacked ==
    /\ Visible => onArc.state # "NONE"
    /\ row.state = "JOINED" => /\ onArc.state \notin {"NONE", "OPEN"}
                               /\ onArc.challenger = row.challenger
    /\ row.state \in {"SETTLED", "REFUNDABLE"} => onArc.state = row.state

\* A room with a stored winner is paid to that winner or expires; the worker
\* does not refund it.  This holds while no Arc failure of the settlement is
\* classified as a GenLayer failure and ticks do not overlap.
VerdictPrevails == settleIntent # NoIntent => refundIntent = NoIntent

\* As long as its players retry the call that did not come back, every stake a
\* room takes is decided on Arc and the record says how, whatever failed.
RoomResolves ==
    onArc.state # "NONE" ~>
        onArc.state \in {"SETTLED", "REFUNDABLE"} /\ row.state = onArc.state

-----------------------------------------------------------------------------
(* Properties the documents state and the code does not keep. *)

\* docs/RUNTIME-CONCURRENCY-AND-OPERATIONS-HARDENING-SPEC.md: a known
\* verdict hash is polled and never resubmitted, and docs/PAIR-MATCH-ESCROW.md:
\* only a finalized no-consensus result starts another attempt.
RetryOnlyAfterNoConsensus ==
    \A a \in Attempts \ {1} :
        judge[a] # "idle" => judge[a - 1] = "NO_CONSENSUS"

\* README.md: "cancellation is unavailable once judging starts".
NoCancelOnceJudging ==
    [][onArc.state = "JOINED" /\ onArc'.state = "REFUNDABLE"
       /\ refundIntent = NoIntent /\ now < ResolveBy
         => judge[1] = "idle"]_vars

\* README.md: a completed room exposes its scorecard, which verdict() finds
\* through the record's verdictTx and verdictAttempt (1 when undefined).  Once
\* no tick is under way a settled record names the attempt that was settled;
\* the worker never looks at it again.
ScorecardAvailable ==
    row.state = "SETTLED" /\ (\A w \in Workers : work[w] = Resting) =>
        /\ row.verdictTx = settleIntent.attempt
        /\ settleIntent.attempt = IF row.verdictAttempt = 0 THEN 1
                                  ELSE row.verdictAttempt

\* The hardening specification: the deadline always opens the refund path,
\* whatever the retry state.
DeadlineRefunds ==
    onArc.state = "JOINED" ~> onArc.state \in {"SETTLED", "REFUNDABLE"}

=============================================================================
