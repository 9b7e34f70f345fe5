# Arena in TLA+

Specifications, model checks and machine-checked proofs for the Arena: users
register AI agents, two agents play a USDC-staked *pair room* (or many play a
tournament), GenLayer validators judge the answers, and escrow contracts on Arc
pay the outcome. Agents are also evaluated for a fee, compared version by
version and sold. Money moves on one chain, judgments on another, players sign
through managed wallets, and Node.js processes with an SQLite store keep it all
together. What can go wrong lies between those parts, and that is what the
modules here describe.

`PROJECT.json` lists the components, runs, mutants, findings, hazards and
theorems, and maps every definition to the source lines it stands for.

## 1. The system

| Component | State | Operations | Talks to |
|---|---|---|---|
| `PairMatchEscrow` (Solidity) | rooms, credits, total liability | createRoom, joinRoom, cancelRoom, requestCancel, expireRoom, settle, withdraw | USDC token |
| `PairRoomCoordinator` (API requests) | `pair-rooms-v1` rows, create and join intents, room numbers | create, join, action (CANCEL, REQUEST_CANCEL, EXPIRE, WITHDRAW), list, get, verdict | managed wallet, Arc reads, store |
| `PairSettlementWorker` (10 s timer) and its live ports | room leases, evaluation progress, settlement and refund intents, automatic refunds | tick: follow joins, expire, evaluate, settle, refund, defer | store, Arc reads and operator transactions, GenLayer, wallets |
| `SqliteRuntimeStore` | key/value rows, counters, leases | get, put, putIfAbsent, list, delete, increment, claimLease, releaseLease, purgeIdentifiers | - |
| `TournamentEscrow` (Solidity) | tournaments, entrants, refunds, credits, fee | create, register, close registration, start, settle, cancel, claim, withdraw, close | USDC token |
| Tournament operations, daily worker | operation rows, intents, leases, retry counts | CREATE, GET, PROGRESS, SETTLE, REFUND, EXPIRE; the tick | `TournamentEscrow`, orchestrator |
| Orchestrator, bracket, progression | results, attempts, a process-wide submission queue | run, buildBracket, advanceBracket | inference, judge |
| Comparison tracker, judge tracker | submissions, progressions, leases | submit, poll | GenLayer |
| Judge contracts (Python on GenLayer) | one result per run or attempt | submit, consensus, read | validators' models |
| Inference pair runner | runs by side, cost counter, leases | run | model providers |
| `SettlementWorker`, `AutomaticPayoutWorker` | settlement and payout records, leases | submit, reconcile; run | `TournamentEscrow` |
| Concurrency control | transaction lanes, scheduler slots | submit, run | every sender |
| Evaluation service, solo runner, run tracker, `EvoFeeEscrow` | fee records, campaigns, runs; payments | start, advance, resume, settle; deposit, release, refund | providers, GenLayer, Arc |
| Version comparison | comparisons | create | campaigns |
| Marketplace (service and Solidity) | certificates, intents, listing rows; eligibility, listings, credits | certify, list, buy, cancel, withdraw, reconcile | ERC-8004 registry, USDC, wallets |
| Accounts, managed wallets | challenges, codes, sessions, identities, wallet records, transfers, bridges | challenge, verify, request and check a code, provision, withdraw, bridge | Circle, mail, other chains |
| `ArenaService`, public record | matches, event logs, verdicts, the archive of a bracket | publishMatch, publishVerdict, archiveTournamentMatches, the migration of a bracket | judging, tournament operations |
| Live lifecycle scripts | a state file with the hashes sent | run-live-lifecycle, recover-live-refund | `TournamentEscrow`, the operator's key |
| Agents and ERC-8004 | agents, versions, registrations, feedback | create, publish, enter, deactivate, give feedback | registries on Arc |

The hard behaviours:

* **Awaits.** Between two awaits nothing else runs; across one, everything can.
  Requests and workers read a row, wait for a wallet, a chain or a model, and
  write `{ ...row, ... }` back.
* **Leases that run out.** A tick holds a room for six minutes and may wait
  longer; the timer starts another one every ten seconds. The same holds for
  tournament operations, payouts, evaluations, inference and trackers.
* **Answers that are lost.** A wallet call, an operator transaction or a GenLayer
  submission may take effect although its sender saw an error or died.
* **Deadlines.** The contracts' deadlines decide which of two competing calls is
  still valid.
* **Errors classified by their text**, which then select retry or refund.
* **One result derived twice**, in Python on GenLayer and in TypeScript.

What makes each part correct: an escrow never owes what it does not hold and
gives every stake back exactly once; a record never tells a user what Arc does
not hold; the winner paid is the one GenLayer finally judged; one challenger per
room; every room is resolved in the end. A tournament's pool is divided to the
last unit or returned stake by stake, for a whole bracket judged to its end;
a ranking is earned by the results; every daily tournament ends. A fee is
released for a finished campaign and refunded for a failed one; a settlement is
recorded COMPLETE only when Arc shows it; a signer sends one transaction at a
time. A sale moves price and token whole; a withdrawal moves money once; a
session stands for one proof; an agent on Arc is the agent in the store.

## 2. Modules

| Module | Models | Source |
|---|---|---|
| `PairMatchEscrow` | the pair contract: one action per external function | `contracts/arc/PairMatchEscrow.sol` |
| `PairWager` | what it promises, without time, callers or bookkeeping | the contract, `docs/PAIR-MATCH-ESCROW.md` |
| `PairStore` | shared state: records, the contract, wallet requests, operator transactions, judgments | `sqlite-runtime.ts`, `pair-arc.ts`, `circle-managed-wallet.ts` |
| `PairRoomCoordinator` | the API's create, join and action requests | `pair-rooms.ts` |
| `RoomNumbers` | the numbers of rooms, their renumbering | `pair-rooms.ts` |
| `PairSettlementWorker` | the tick and its live ports | `pair-settlement.ts`, `pair-settlement-live.ts` |
| `PairPlay` | the composition, crashes, fairness, properties | `server.ts` |
| `TournamentEscrow` | the prize contract: one action per external function | `contracts/arc/TournamentEscrow.sol` |
| `PrizePool` | what it promises: a pool divided or returned | the contract |
| `TournamentPlay` | operations and the daily worker that drives them | `tournament-operations-live.ts`, `daily-tournament.ts` |
| `LiveLifecycle` | the operator's scripts on top of the prize contract | `run-live-lifecycle.mjs`, `recover-live-refund.mjs` |
| `StartBlock` | the search for the block that seeds a bracket | `tournament-operations-live.ts` |
| `PublicRecord` | matches and verdicts shown to the public, the change of a bracket's revision | `service.ts`, `tournament-operations-live.ts` |
| `RuntimeStore` | the store by itself: rows, counters, leases, the purge | `sqlite-runtime.ts` |
| `Bracket` | the bracket, its slots, the ranking | `bracket.ts`, `progression.ts` |
| `MatchJudging` | orchestrator, answers, comparison tracker, judge contract | `orchestrator.ts`, `tournament-runner.ts`, `comparison-tracker.ts` |
| `JudgeTracker` | the earlier tracker of a match's judgments | `genlayer/src/tracker.ts` |
| `InferencePairs` | paid pairs of answers under leases and a budget | `pair-runner.ts` |
| `Settlement` | settlement and automatic payouts | `packages/settlement` |
| `Concurrency` | lanes and scheduler | `operations/src/concurrency.ts` |
| `Evaluation` | a paid campaign, its fee and its runs | `evaluation-execution.ts`, `solo-runner.ts`, `run-tracker.ts`, `EvoFeeEscrow.sol` |
| `Scorecards` | an answer parsed, checked, judged and believed | `protocol.ts`, `policy.ts`, `AgentEvaluationJudge.py`, `ArenaComparisonJudge.py` |
| `VersionComparison` | a comparison of two versions of an agent | `evaluation/src/comparison.ts` |
| `Marketplace` | the sale of an agent, on Arc and in the service | `AgentMarketplaceV2.sol`, `service.ts`, `http.ts` |
| `Accounts` | logins, sessions, provisioning of wallets | `http.ts`, `managed-identity.ts` |
| `Transfers` | withdrawals and bridges of an account | `managed-identity.ts`, `circle-managed-wallet.ts` |
| `AgentIdentity` | an owner's requests for an agent, feedback on Arc | `service.ts`, `http.ts`, `erc8004.ts` |
| `SumTheorems` | what `SumFunctionOnSet` computes, as lemmas | - |
| `PairMatchEscrowProofs`, `TournamentEscrowProofs`, `OperationsProofs`, `PairPlayProofs`, `JudgingProofs`, `ServicesProofs`, `RecordsProofs` | the theorems | - |
| `MCContracts`, `MCTournaments`, `MCPairPlay`, `MCPairRaces`, `MCJudging`, `MCOperations`, `MCServices` | small instances for TLC | - |

`PairStore` instantiates `PairMatchEscrow` for its single room
(`Arc == INSTANCE PairMatchEscrow WITH Rooms <- {RoomId}, ...`), so a wallet
request in the composed model executes the very actions the proofs are about.
`LiveLifecycle` extends `TournamentEscrow`: a script's transaction is an action of
the contract.
`VersionComparison` extends `Scorecards`: the cards it compares are the ones
derived there. A definition under the comment "Mutant of ..." is a plausible bug
in the definition that follows it; no specification uses it, and `PROJECT.json`
names the property it breaks.

Everywhere an action is the code from one await to the next, the chain read or
the write at its edge included; a call that reverts or a request that is refused
leaves everything unchanged and so is no action.

### PairMatchEscrow

`room`, `creditOf` and `totalLiability` are the contract's storage; `usdc` and
`allowance` are the token's, external; `now` is the block time. A call that
reverts leaves everything unchanged and so is no action. Checks appear in the
guard, effects in the primed variables. `verdictDigest` is left out: the contract
tests that it is not zero and stores it.

### PairStore, PairRoomCoordinator, PairSettlementWorker

An action is the code from one await to the next, the chain read or record write
at its edge included; two chain reads with no write between them are one, except
in `join`, where the room is read before the balance. A handler is at a named
point (`req[h].at`) and keeps the row it read first (`copy`), which is what it
later writes back. A tick keeps the row it was listed with (`copy`) and the
progress it read (`seen`), unlike `deferPhase`, which reads again.

* `row`, `joinIntent`, `settleIntent`, `refundIntent`, `progress` and `lease` are
  the records of the room in the runtime store. The creation intent is folded
  into the row, which is stored PENDING in the same synchronous section.
* `circle[<<kind, player>>]` is a wallet request under its stored execution key:
  a repeated call finds the first one, whatever became of it.
* `pool` holds operator transactions whose sender no longer waits.
* `judge[a]` is GenLayer's state of attempt `a`, and a verdict transaction is
  named by its attempt. Both agents' answers are part of submitting an attempt.
* `faults` counts failed calls, lost answers, failed wallet requests and crashes.
  Faults happen at any await; a wallet request the contract would revert, or an
  evaluation that fails (provider error, busy GenLayer, no consensus, a tie), is
  an outcome and not a fault.

The deadlines are those of the intent, fixed when it is created at clock 0.
Failures past the retry budget act alike and are counted once more only. When the
clock has stopped at `Horizon`, a lease runs out at once.

### TournamentEscrow

`tournament[id]`, `entrant[id][entrantId]`, `entered`, `credits` and `refunds`
are the contract's mappings, `created` its created flags. An identifier nobody
created reads as a DRAFT with the zero policy (`NoPolicy`), as in Solidity:
`closeRegistration` and `markRunning` accept it, and `createTournament` resets
it. `withdrawCredit` and `withdrawPlatformFee` are the calls on behalf of anybody
with the caller as beneficiary. Left out: `feeRecipient`, which
`createTournament` requires to be the owner; agent and ranking digests, which are
stored and never read; the token's allowances. The settlement nonce is 1: a
tournament settles at most once, so only "greater than 0" is tested.

`PrizePool` says what the contract is for, with one stake in from each member and
everything out once. The mapping counts a refund as owed from the cancellation
on, so that `claimRefund` changes the bookkeeping of the contract and nothing of
the pool; a prize is owed to its wallet and the fee to the house.

### TournamentPlay

`row`, `lease`, `intents` and `retries` are the stored records; `local[h]` is what
the worker's tick or an operator's request holds between two awaits, a copy of
the row included. The escrow on Arc keeps the guards of `TournamentEscrow` as
`arc[t]`. The orchestrator's run is one step that may return whatever the state of
the verdicts allows; `MatchJudging` is that run in detail. Leases are per
process, as in the code: a request takes the worker's lease for its own. A fault
is a failed call, a crash or an outlived lease. `PrizesEarned` says that the
bracket is played by the roster of Arc, that a prize follows final verdicts and
that the row tells how the tournament ended; `OneDailyAtATime`, that the intent,
the tournament on Arc and the row, written one after the other, never lead to
two; `DailyEnds`, that every daily tournament reaches a stored end that lasts.

### Bracket

A group of the bracket is built, then played, result by result. Hash orders are
arbitrary choices up to renaming. `RankingEarned`: every match finds its two players when its group starts, the
winner lost to nobody, the second only to the winner, everybody else on the way
to the final, and the third beat the fourth; both revisions, with and without
byes.

### MatchJudging and JudgeTracker

A run of the orchestrator walks the batches of the bracket; each match of a batch
is a task split at its awaits, and two runs overlap when one outlives its lease.
The pair of answers, its route, the submission, the recorded transaction, the
judge contract's one result per attempt and the verdict read back are state of
their own. `OneWinningAttempt` says that while no call failed a match has at most
one winning attempt; a lost hash can make a second one, of which the record keeps
the first. `RankingsFounded` says that what is judged are whole pairs of answers
of one route, and that a ranking rests on final verdicts. `RunsConclude` is its
liveness.

`JudgeTracker` is the earlier tracker with its two leases. `ProgressedOnce` says
that at most one attempt tells a caller to take its match forward;
`SubmittedOnce`, that an attempt is sent again only after a send whose hash may
be lost.

### InferencePairs

Workers compete for the lease of an attempt, write a row per side before the
paid call and its answer after, and retry within the policy. `SamePair`: callers
get the pair that is stored, unless a lease lapsed under a living worker.
`OnePayload`: the two rows are of one payload. `BudgetOverrun`: the budget is
tested before two calls and not reserved, so what is spent exceeds it by at most
two calls for each pair that ran at the same time.

### Settlement

One record per operation (settlement, payouts, closing) beside the transactions
of several worker processes. A hash can be lost, a receipt read can fail, a
lease be outlived, a payee withdraw on its own. `CompleteMeansApplied` says that
COMPLETE is written only of an effect Arc shows; `EveryoneIsPaid`, that after a
settlement every winner and the fee are paid but for those whose attempts are used
up: one given up does not keep the others waiting, and only something given up
leaves the tournament open. With fewer faults than a payout has attempts nobody is
given up.

### Concurrency

A lane is a chain of promises per signer, the scheduler a count of slots and a
queue of waiters, both modelled promise by promise. `OneSender`: of the calls of
one signer one is sending at a time, through the forgetting of an idle lane.
`SlotsExact`: the active count is the number of running operations and never
above the limit, and nobody waits while a slot is free. Both are proved.

### Evaluation, Scorecards, VersionComparison

`Evaluation` is one paid campaign: the fee's record and its payment in
`EvoFeeEscrow`, the scenarios with their provider attempts, the judge
transactions and the replay of lost ones, the lease of each step, the settlement,
and restarts that take up what was unfinished. `FeeTruthful` relates fee,
campaign and contract: the fee's record never runs ahead of Arc, and Arc pays the
platform only for a campaign whose every scenario was judged and lets the
operator refund only a campaign that failed.
`HeldFeeSettles`: a fee that is held is released or refunded in the end.

`Scorecards` follows one answer through the parser, the action policy, the
contract's validation, the derivation of the grades from what the leader's model
says, and the derivation of the same in TypeScript. The contracts delete every
fence mark (```` ``` ```` and ```` ```json ````) from the JSON before they read it,
within argument keys too, and the API does not: `Stripped` is what the contracts
see, an answer's `fences` how much of its text they take away. `DerivationsAgree`
says that the API believes what the contract stored exactly where fence marks in
argument keys did not change which rules the answer breaks, and throws otherwise,
so that it never takes over a result of other rules than its own; and that the
contract refuses only an answer over its byte limit, one of nothing but fence
marks, or one Python does not read (`legible`). `SidesAreEqual` says that a pair's
judgment does not depend on which agent is A. `Evaluation` is about results the
API believes; section 5 has what becomes of the others.

`VersionComparison` has the cohorts, the campaigns as they fill up and the one
stored answer. `ConclusionsStand`: under a policy of full coverage, a conclusion is
the answer one would get by asking again at any later time. `PassEarned` says
what a PASS means by sums instead of means: no critical finding, and no drop
beyond the policy.

### Marketplace

Certificates, intents, listings, purchases and their grace, the seller's wallet
transactions, cancellation, reconciliation with Arc, and `AgentMarketplaceV2` with
token and approvals. Snapshots of any listings may be read at the same time
(`reading`), each with two reads of Arc and the row after them. `SalesWhole`:
every sold listing moved one price and the token, no other listing moved
anything, and the market holds what it owes. `DeliveredToBuyer`: a row is SOLD,
which is what hands over the private instructions, only of a listing sold on
Arc, and for the buyer who paid for it, through lapsed grace periods, old
snapshots and restarts; section 5 has the one exception, which the property states.

### RuntimeStore and StartBlock

`RuntimeStore` is the table itself, where the other modules use its methods as
they need them. `records`, `counters` and `leases` are its three tables; a
method is one statement or one transaction, so one step, except that the loop of
`purgeIdentifiers` is kept step by step (`purge`) to say what it computes.
`claims` are the calls that were granted a lease and are under way, a release that
comes late included. A row is claimed and released in the name of an owner
(`OwnerOf`): a tick of the settlement worker has a UUID of its own, but all
tournament operations of a process are `api:<pid>`, and `execute` shares no promise
among them. So nothing keeps an owner from claiming again behind a call that
outlived its lease, and the late `finally` of the first deletes the row of the
second (section 5). `LeaseHeld` says what the store does give: a call granted its
lease while no other call of its owner was under way (`alone`) has its row and is by
itself while its time lasts, whatever others claim, release late or start again. Where
the calls of an owner never overlap, each is such a call and leases exclude each
other (`LeasesExclude`, proved). `PurgeExact`: whatever the order of the rows,
a purge selects exactly those connected with its identifiers, directly or over
other rows.

`StartBlock` halves the chain between two blocks while it grows (`head`, `stamp`,
`search`, `answers`). Every PROGRESS searches anew until the seed is stored.
`OneSeed`: each search ends with the first block at or after the start, so all
have one seed.

### PublicRecord

`public`, `log`, `verdicts` and `archive` are the tables of one tournament's
matches, `revision` and `over` the fields of its operation record. A call runs
without an await, but the process may end between any two of its writes: `todo`
holds those still to come. `settling` is the copy of the record a SETTLE holds
while Arc works, from before or after the migration to bracket revision 2.
`NothingLost`: a final result or a verdict the public saw is kept, enriched at
most, or stands in the archive as it was.

### LiveLifecycle

A script is a list of steps (`After` gives the next one); a step reads Arc or the
state file and is passed over, or it simulates, sends, writes the hash to the
file, and waits. `script` is where the run stands, `sent` the transactions with
their fate, `file` the state file, `allowed` the wallets' allowances. A run may
end at any await, and the next one starts from the top while what was sent may
still be mined. `RunTruthful`: every account ends with the prizes of the ranking in
the file or with its whole stake, and no file says that the tournament is over
while somebody is owed. It is proved. A simulation that must not revert is `ENABLED`
of the call; the prover cannot open `ENABLED`, so `Simulated` says once more what
a cancellation asks of the tournament, the only guard the proof needs of it.

### Accounts and Transfers

`Accounts` has challenges, codes, sessions and the provisioning of wallets.
`OneWallet`: Circle makes one wallet for an identity, and whoever has a session
has that one, however logins overlap or restarts cut them off. `OneSessionPerProof`: a signature or a code opens at most one session,
and a code is tried at most as often as allowed.

`Transfers` has withdrawals and CCTP bridges, each call to Circle under its stored
key, with late answers and restarts. `WithdrawnOnce`: CONFIRMED moved
the money, FAILED never will, and while the outcome of one is unknown no other
begins. `BurnedOnce`: a bridge burns once, what its plan says; FAILED means that
nothing is burned and COMPLETE that it was minted.

### AgentIdentity

An owner's overlapping requests for agents, and the feedback after an evaluation.
`IdentityKept`: an agent in use has an identity on Arc and no identity is left
without an agent; `EntryAsPrepared`: the version entered on Arc is the one the
API prepared; `FeedbackOnce`: a campaign leaves one feedback, COMPLETE only if it
is there.

### RoomNumbers

The counter, the stored numbers and the renumbering of rows an older version
left. `NumbersKept`: two rooms never show one number, and a room shown with a
number keeps it. It is proved.

## 3. Runs

| Run | Instances | Shows |
|---|---|---|
| `Contracts` | 2 rooms, 2 players; 138 000 states | the pair escrow's books, outcomes, deadline, the refinement of `PairWager`, the return of every stake |
| `Tournaments` | `prizes`: 2 tournaments, 3 wallets, 2 policies; `scripts`: the operator and one helper, 2 ranks, 2 runs of the scripts; `bracket`: 8 and 9 entrants, both revisions; `rows`, `leases` of the store; `start`: a chain of up to six blocks; 390 000 states | the prize escrow's books to the last unit, its credits, the refinement of `PrizePool`, every tournament closes; `RunTruthful`; `RankingEarned` and `OneSeed`; `LeaseHeld`, `PurgeExact` |
| `PairPlayLive` | 1 handler, 1 worker, 2 faults; 190 000 states | types, `VerdictPrevails`, and that every room resolves |
| `PairPlayRaces` | `ticks`, `cancels`, `expiry`, `joins`: what overlaps in a room; 830 000 states | `WinnerIsVerdict`, `RecordBacked`, `JoinReserved` |
| `Judging` | `overlap`, `bracket`, `retries` of judging; `raced`, `single` of a campaign; `graded`; `versions`; 1 201 000 states | `OneWinningAttempt`, `RankingsFounded`, `FeeTruthful`, `MCResultsHold` (`JudgmentsAgree`, `ConclusionsHold`, types); runs conclude and held fees settle |
| `Operations` | `days`, `asked`, `both` of daily tournaments; `alone`, `together`, `paying` of settlement; `lanes`; 906 000 states | `PrizesEarned`, `OneDailyAtATime`, `CompleteMeansApplied`, `LanesSound` (`OneSender`, `SlotsExact`); dailies end, everyone is paid |
| `Services` | `signing`, `mailed`; `sends`, `legacy`, `bridging`, `crossing`; `agents`, `entering`, `feedback`; `paired`, `budgeted`; `tracked`; `numbered`; `sale`: a listing, 3 users, a restart; `resale`: 2 listings of one token; `record`: a match of each revision; 680 000 states | `LoginsSound`, `MovedOnce`, `IdentitySound`, `NumbersKept`, `PairsSound`, `TrackedOnce`, `SoldAndDelivered`, `NothingLost` |
| `DocCancel`, `DocScorecard`, `DocRetry`, `DocVerdict`, `DocDeadline` | the smallest instance that shows it | documented statements the code does not keep (section 5) |

A run holds several instances. Its MC module chooses one in the initial state
(the variable `instance` or `scenario`); a behaviour runs that module and leaves
the variables of the others as they begin, so the instances do not interact and
their state counts add up. Modules share a run when they share no state; where
they do share it, they are composed (`PairPlay`, `MatchJudging`, `Evaluation`).
`prizes` and `scripts` run the same contract, called by anyone and by the scripts.
Safety is asked of every instance, liveness only of those where a shortest
interesting case suffices: `Contracts`, `prizes`, `retries`, `single`, `days`,
`asked`, `alone`, `paying`, and `PairPlayLive`. Where a property joins what one module
promises (`LanesSound`, `MovedOnce`, `PairsSound`, `SoldAndDelivered` and the
like), its first conjunct is the module's type invariant.

Bounds, and why they suffice:

* Contracts. Two rooms are the least in which money could move from one to the
  other; two players can both be creator and challenger; versions are compared
  with nothing but "not zero". Two tournaments likewise, with two ranks and
  at least two entrants where the contract has five and eight: the first rank
  takes the remainder, another does not. A stake of 7 with the code's fee and a
  65/35 policy makes fee and both shares uneven; the second policy adds up to
  10 001 parts and is refused. `Horizon = 2` has times before, at and after the
  deadlines. The proofs cover the real numbers.
* Bracket. Eight entrants are the least the code admits, nine the least with
  byes or a preliminary round. The first order is a naming of the entrants, so the
  orders that matter are those of later rounds, of at most six slots (`MaxWidth`).
* `scripts`. The operator and one helper (eight accounts in the code), two ranks,
  the stake of 7; two runs, so that one takes up what another left, and at most
  20 transactions, more than two runs send.
* Store. `rows`: three rows of one namespace that mention one string each, which is
  the shortest chain over a middle row, or two keys in two namespaces.
  `leases`: a tick of a worker and two tournament operations of one process, which
  claim with one owner, two fingerprints and lease times, until moment 3, so that a
  lease lapses and is taken again by the same owner or another; the tick also
  claims a second key; `SafeInteger = 1` lets the counter
  reach its limit. `start`: chains of up to six blocks with times to 3.
* Record. One match of each bracket revision, one event kept (24 in the code); of
  the states between, JUDGING stands for RETRYABLE, and the second match has one
  winner.
* Sale. Three users are a seller and two buyers in competition; two purchases
  let one be given up and begun again; `resale` sells a token twice, with no
  snapshot of Arc that runs out. One snapshot is read at a time here; the proof
  covers any number of them, of listings, buyers and purchases.
* The composed room. One room, because records, lease and intents are per room
  and the contract part is proved for any number. `JoinBy = 1`, `ResolveBy = 2`
  leave a time before, between and after the deadlines. `LeaseTime = 1` lets a
  lease run out between any two steps of a tick. `RetryBudget = 2` (3 in the code)
  reaches a retry and RECOVERY_REQUIRED. `MaxRetries = 1` and two scenarios (3 and
  4 in the code; one scenario in `PairPlayRaces`) reach an accepted and a refused
  no-consensus retry. `MaxFaults = 2` allows a crash or a lost answer during the
  recovery from another; `PairPlayRaces` has none, because its interleavings are
  the question. Handlers, challengers and ticks are symmetric there, and no
  liveness is asked.
* Daily tournaments. Two days are the least in which one tournament could start
  while another runs; a third is created by hand. `Lifetime = 1`, `Horizon = 3`
  let both expire. One fault and one request at most, together in `both`.
* Settlement. The winner and the fee are two payees, so that one can stand in the
  way of the other; two sends of each operation (3 in the code), at most nine
  transactions. `alone` is one process from before the settlement, `together` two
  that overlap, with at most four transactions; each has one fault. `paying` begins
  with the settlement made and has two faults, as many as an operation has sends, so
  that one is given up; there the winner may also withdraw on its own.
* Concurrency. Four calls, three of them of one signer, so that a lane is left,
  forgotten and made again while a call of the other signer runs; two slots make
  two calls wait. The proofs cover all values.
* Judging. One match of two attempts with two overlapping runs or one mishap;
  a bracket of two matches and a final with one attempt each. `Evaluation`: two
  scenarios, two provider attempts, two submissions, three settlements, two
  faults with two requests.
* Answers. Every decision with every length around the limit of the text and every
  share of fence marks in it, argument keys with and without them, two of which
  become one, all
  multisets of grades for one entry, all rankings of the dimensions for pairs;
  the cohorts of one and of two runs, policies at and beside each limit.
* Services. Two of whatever can overlap: requests, withdrawals, bridges, agents,
  workers, rooms, whose old numbers and counter are 0, 1 or 3; two guesses, two entries of a table and three proofs reach the
  limits of a login; a restart or the end of a worker at any await.
  `MaxCost = 3` with calls of 1 makes the budget bite in the second pair.
* `CHECK_DEADLOCK FALSE`: with every room resolved, every tournament closed, every
  request answered and the bounds reached, nothing is left to do.

`ErrorCodes` says how a failed Arc call is classified. The passing runs use
`{"ARC_ERROR"}`; `DocVerdict` adds the code the message test can yield instead.
`VerdictPrevails` holds under that restriction and with ticks that do not
overlap; its comment says so.

### Fairness

`PairMatchEscrow` alone: blocks arrive, anybody can call `expireRoom` and the
worker does, and a player with a credit withdraws it. Nothing makes a player
create or join, or the operator settle.

`TournamentEscrow` alone: blocks arrive; the operator opens refunds once it may
(the daily worker's EXPIRE and REFUND); a wallet with a refund or a credit claims
and withdraws it. Sending the fee and closing an empty tournament are open to
anyone; `AutomaticPayoutWorker` does both, but `server.ts` does not start it, so
that somebody does is an assumption about how the contract is operated.
Nothing makes anybody register, start or settle: that a tournament nobody settles
still closes is what `EveryPoolCloses` is about (`MCEveryPoolCloses` asks it of
`prizes`; the scripts are under no fairness).

`PairPlay`: `WF` for each worker's steps (a 10 s `setInterval` in `server.ts`,
and calls that end: 120 s for a receipt), for the wallet service (it polls a
request to its end), for handlers and for time. There is no fairness for faults,
for transactions in `pool`, or for players. `RetryingSpec` adds that a player
whose create or join did not come back sends it again (`SF`, since the row's
state may change between attempts); without it `DeadlineRefunds` fails, which is
the `DocDeadline` run.

`TournamentPlay`: days pass, the worker's timer wakes it, handlers go on, a lease
of a process that ended lapses. Nobody must register and no verdict must become
final.

`Settlement`: transactions are mined, leases lapse, and a worker goes on and is
called again until it is done, between reconciliations for the payouts too (strong
fairness of `RunPayouts`, since a settlement may be reconciled again at any time). No winner must withdraw. The package is a
library that `server.ts` does not start at this commit; calling it again is what
its records and its `run` are written for, and an assumption about its caller.

`MatchJudging`: judge transactions become final, tasks and runs go on, and the
worker asks for another run as long as a tournament is not over. Time need not run
out. `Evaluation`: the timer of `server.ts` ticks, calls and delays end, Arc and
GenLayer answer, leases of an ended process lapse. Nobody needs to ask again.

## 4. Proofs

### PairMatchEscrowProofs

It proves, for every finite set of rooms and players, any
stakes and funds, and any clock bound, under `EscrowAssumption` (finite sets, the
escrow and the null address are not players, positive stakes):

| Theorem | Statement |
|---|---|
| `TypeCorrect` | `Spec => []TypeOK` |
| `LiabilityAlwaysBacked` | `Spec => []LiabilityBacked` |
| `CreditsAlwaysMatch` | `Spec => []CreditMatchesOutcome` |
| `OutcomeIsFinal` | `Spec => OutcomeFinal` |
| `DeadlineAlwaysSplits` | `Spec => DeadlineSplitsOutcomes` |
| `EscrowImplementsWager` | `Spec => WagerHonoured` |

The argument is one inductive invariant `IInv`. None of the properties is
inductive alone: that a withdrawal does not take `totalLiability` below zero
needs the balance of the books; that settling does not overwrite a credit needs
that an undecided room has none; that a refund pays two different players needs
that a joined room's challenger is not its creator. `IInv` is the conjunction of
the type invariant, the books, the outcome of every credit and the shape of a
room in each state. The proof has one lemma per action (`CreateStep`, `JoinStep`,
`RefundStep`, `SettleStep`, `WithdrawStep`); the calls that do not move the books
share `QuietStep` and `LocalStep`. The action properties and the refinement then
follow step by step from `IInv`.

### TournamentEscrowProofs

For any finite sets of tournaments and wallets, any policies, number of ranks,
fee of at most the whole, funds and clock bound, under `TournamentAssumption`
(finite sets, the owner is a wallet, the escrow and the null address are not):

| Theorem | Statement |
|---|---|
| `TypeCorrect` | `Spec => []TypeOK` |
| `BooksAlwaysBalance` | `Spec => []BooksBalance` |
| `CreditsAlwaysFollow` | `Spec => []CreditsFollowOutcome` |
| `ClosedAlwaysEmpty` | `Spec => []ClosedOwesNothing` |
| `DecisionIsFinal` | `Spec => DecisionFinal` |
| `EscrowImplementsPool` | `Spec => PoolHonoured` |
| `RunsAlwaysTruthful` | `LifecycleSpec => []RunTruthful` |

The inductive invariant adds to the type and the books the `Shape` of each
tournament: before a decision its locked stakes are one stake per entered wallet
and nothing is owed (`Open`); after it who may have a credit, and how much
(`Divided`, `Returned`, `Finished`); and an identifier nobody created has no
entrants and the zero policy (`Uncreated`), which is why resetting it loses
nothing. Settling needs arithmetic: a floored share is at most its part, so the
shares add up to at most the net pool and the remainder is a natural number
(`ShareBound`, with `SumScaled`), and what wallets are credited adds up to the
pool whichever wallets hold the ranks (`AwardsAddUp`, with `SumFibres`, the sum by
wallet of the shares by rank). `LocalStep` carries the books from the
one tournament a call touches to all of them.

`RunsAlwaysTruthful` is about the scripts of `LiveLifecycle`, for any number of
accounts, runs and transactions and any policy with that many entrants, under
`LifecycleAssumption` (the tournament, its policy and its operator are among the
constants of the contract, as many entrants at least and at most as there are
accounts, no two accounts or entrants the same). `ArcInv` adds to the contract's
invariant what the scripts rely on of their one tournament: it has their policy or was never created,
the entrants are those who entered, it runs only with all of them, it is settled at
most once, and what every account has and is owed is in each state what
`RunTruthful` says (`Earned`). This survives every call anyone may make (`Called`).
`RunTruthful` itself is not inductive: a transaction sent long ago may settle with a
ranking the file no longer holds, and a file may say COMPLETE after refunds. So
`LiveInv` says of the scripts that a settlement sent carries the ranking in the file,
which is written once and found again (`SentTrue`); that a script past the roster
has all entrants on Arc, which cannot change any more (`ScriptAt`, `Onward`); and
that refunds are opened, or asked for by a transaction on its way, only when it is
`Late`. The judgments are asked for before that with a full roster, so a script
that is past them knows that no refunds were opened or asked for; since runs do not
overlap, that stays so while it settles, and a tournament it finds closed at the
end was settled. A script that ends forgets all this, which costs nothing: the
next one asks for the judgments again before it settles.

### OperationsProofs

For any finite set of calls, any signer of each and any positive limit
(`ConcurrencyAssumption`); any set of payees, processes and caps
(`SettlementAssumption`: an operation's name is no payee, there is a payee, bounds
are numbers); and any days, other tournaments, requests and bounds
(`TournamentPlayAssumption`: days are numbers, the worker is no request, at least
one entrant is needed, there is a tournament):

| Theorem | Statement |
|---|---|
| `ConcurrencyTyped` | `ConcurrencySpec => []ConcurrencyTypeOK` |
| `OneSenderAlways` | `ConcurrencySpec => []OneSender` |
| `SlotsExactAlways` | `ConcurrencySpec => []SlotsExact` |
| `LanesAlwaysSound` | `ConcurrencySpec => []LanesSound` |
| `SettlementTyped`, `CompleteAlwaysApplied` | `SettlementSpec => []SettlementTypeOK`, `[]CompleteMeansApplied` |
| `TournamentPlayTyped`, `PrizesAlwaysEarned` | `Spec => []TypeOK`, `[]PrizesEarned` |
| `OneDailyAlways` | `Spec => []OneDailyAtATime` |

Lanes and slots are disjoint, so there are two invariants. That one call of a lane
sends is not inductive: whoever enters next depends on who came before it and on
the map of lanes naming the right chain. `LaneInv` says that
the calls of a lane are of its signer and stand at distinct places without a gap
(`Chained`, `Distinct`, `NoGap`), that every call before one that sends is done
(`InTurn`), that a lane's counter is exact (`Counted`, `Named`), and that
whoever has not finished is in the signer's current lane (`Current`), which is
what the forgetting of an idle lane could break. `SlotInv` adds to the count that
the queue holds waiting operations only, each once (`QueueSound`).

That a record says COMPLETE of something Arc shows is not inductive: the process
that writes it read a receipt before. `SettlementInv` therefore ties every hash,
stored or held over an await, to the operation it was sent for, a successful
transaction to its effect, which Arc never takes back (`Longer`, `Shown`), and a
process at work to what it has already seen (`Engaged`): who pays has seen the
settlement, who confirms has seen a success of its own operation.

`RowsInv` treats the tournament's row as `PlayInv` does a room's: `RowTrue` is what
a row may say given the tournament on Arc and whether its verdicts are final, it
holds of the stored row and of every handler's copy (`Known`), and it survives
`ArcLater`, all that may become of a tournament on Arc. That a frozen roster stays
Arc's needs that Arc's registration had closed when it was frozen; that a prize is
paid on verdicts needs that a handler about to settle holds a ranking.
`DailyInv` adds the worker: a tournament on Arc has an intent, only the latest may
be undecided, every intent is at most a day ahead of the worker's clock, which is
behind, and a worker about to plan has seen all of them decided. `GoesOn`
names how a handler may go on, so that both invariants share the case split.

### PairPlayProofs

For a room with any finite set of challengers, any request handlers and
workers, any number of scenarios, retries, delays and faults, every classification
of an error and any deadlines in the right order, under `StoreAssumption` of
`PairStore` (the players differ from each other, from the escrow and from "none";
a join deadline before the resolve deadline) and `WorkerAssumption`
(bounds are numbers). Both are about names and about what
the code fixes when it creates an intent:

| Theorem | Statement |
|---|---|
| `PairPlayTyped` | `Spec => []TypeOK` |
| `ReservedAlways` | `Spec => []JoinReserved` |
| `RecordAlwaysBacked` | `Spec => []RecordBacked` |
| `WinnerAlwaysVerdict` | `Spec => []WinnerIsVerdict` |

`PlayInv` is one invariant for all. Rows are copied before an await and written
back after it, so what the stored row may say must be a predicate that every copy
satisfies too and that survives whatever Arc does meanwhile: `Sound` bounds a copy by
the contract room and the reservation, both of which only grow (`Grows`).
`Asking` and `Doing` add what a request or a tick knows at each await; `Reserved`
says that the stored join intent is the only challenger Arc and the wallets can
know; `Founded`, that a settlement intent names the winner of a final verdict on
two paid stakes and that Arc settles by that intent only, which is stored once.
What Arc itself does is `IInv` of `PairMatchEscrowProofs`, used through an
instance (`EscrowFits` shows its assumption).

### JudgingProofs

For any number of scenarios, tries, sends, mishaps, runs and inputs, under
`EvaluationAssumption` (bounds are numbers) and `MatchJudgingAssumption` (finitely
many inputs, the matches of a bracket in one batch each, "none" is nothing else):

| Theorem | Statement |
|---|---|
| `FeeAlwaysTruthful`, `EvaluationTyped` | `EvaluationSpec => []FeeTruthful`, `[]EvaluationTypeOK` |
| `AlwaysOneWinningAttempt` | `JudgingSpec => []OneWinningAttempt` |
| `RankingsAlwaysFounded` | `JudgingSpec => []RankingsFounded` |
| `JudgingTyped` | `JudgingSpec => []JudgingTypeOK` |

`FeeInv` says what holds at every await of a campaign. `FeeTruthful` alone is not
inductive: that the platform is paid for a whole evaluation needs that every
scenario before the one at hand was judged (`CampaignSound`), which needs that a run
passes a scenario only on a transaction that left its scorecard (`RunSound`); that the
record does not run ahead of Arc needs that a settlement is asked for only once the
campaign is over, by every handler that still holds an older copy (`PaymentSound`).

`JudgingInv` has two parts. `Fitting` survives every mishap: what a task, a
submission, a transaction and a verdict say fits the stored answers and what
GenLayer finalized. `Calm` holds until a call fails: an attempt is sent once
(`SentOnce`), by one task at a time (`OneSender`), and the next attempt begins
only after a result without a winner (`TasksInTurn`, `TxsInTurn`); two winning
attempts would need a later one begun after a winner. After a lost hash it is false,
as the model checker shows, so that `OneWinningAttempt` states it up to then.
`Later` collects what no step takes back, so that a fact a task read before its await
still holds after it.

### ServicesProofs

For any wallets, keys, requests, users, agents and bounds, under
`TransfersAssumption`, `AccountsAssumption` and `AgentIdentityAssumption`
("nothing" is no operation, an address is no email address, amounts are positive,
bounds are numbers):

| Theorem | Statement |
|---|---|
| `MovedAlwaysOnce`, `TransfersAlwaysTyped` | `TransfersSpec => []MovedOnce`, `[]TransfersTypeOK` |
| `LoginsAlwaysSound`, `AccountsAlwaysTyped` | `AccountsSpec => []LoginsSound`, `[]AccountsTypeOK` |
| `IdentityAlwaysSound`, `AgentIdentityAlwaysTyped` | `AgentIdentitySpec => []IdentitySound`, `[]AgentIdentityTypeOK` |

`TransfersInv` says of every state of a record, and of every place a run may be in,
which transactions Circle has by then, since they are never undone. `WalletsInv`
rests on the key in a user's wallet record, which does not change once it may
have been used; `ProofsInv`, on a challenge or a code being in one place at a
time and spent before it opens a session. `AgentIdentityInv` carries what a
request saw over its await, because nothing Arc has is taken back.

The numbers of rooms, for any finite set of rooms, named by positive numbers in the
order of creation, any requests, and any numbers and counter an older version left,
from a set of naturals with a greatest element, which the code's safe integers are
(`RoomNumbersAssumption`):

| Theorem | Statement |
|---|---|
| `NumbersAlwaysKept` | `RoomNumbersSpec => []NumbersKept` |

`NumberInv` distinguishes the store before rooms are first read, when the rows an
older version left may have any numbers but none was shown (`Untouched`), from the
store after it: the numbers are distinct, positive and at most the counter
(`Clean`), a request's copy of a stored row has the row's number (`CopiesTrue`),
and what was shown is what the rows say (`ShownTrue`). The
highest number exists because a bounded set of naturals has a greatest element,
derived from well-founded induction.

The workers that are paid for a match, for any workers, attempts and payloads
(`InferencePairsAssumption`: bounds are numbers, a call costs something,
"nobody" is no worker; `JudgeTrackerAssumption` likewise):

| Theorem | Statement |
|---|---|
| `PairsAlwaysSound`, `PairsAlwaysTyped` | `InferencePairsSpec => []PairsSound`, `[]InferencePairsTypeOK` |
| `TrackedAlwaysOnce`, `TrackerAlwaysTyped` | `JudgeTrackerSpec => []TrackedOnce`, `[]JudgeTrackerTypeOK` |

`PairsInv` has two parts that hold each other up. A worker that generates a pair
whose lease has not lapsed under it owns that lease, and the rows it waits for are
still as it wrote them (`OperationTrue`), so nobody else can complete the pair and
hand out another (`DeliveredTrue`); the two rows of an attempt are always of one
payload, lapses or not (`RowsTrue`), because a lapsed lease is taken over under
its own payload only. For the budget what is spent is not enough: `BudgetTrue`
counts with it one `CallCost` for every call still waited for, by the cardinality of
the set of those calls (`Calls`), and bounds the sum by the pairs there ever were in
flight together.

`TrackerInv` counts every send of an attempt once: by the hash in its record, by
the live lease of a worker that is sending, or as one that strayed
(`SendsCounted`, over the sets `Sending` and `Overtaken`). A hash once stored stays,
which is why a worker that reads one polls and does not send (`CopyTrue`).

### RecordsProofs

For any table, calls, owners and lease times (`StoreAssumption` of `RuntimeStore`:
finitely many identifiers, a call claims with one owner, a lease time is positive),
any chain whose times do
not go back (`StartAssumption`: the start is a positive time), any brackets
(`RecordAssumption`: a bracket is a sequence of matches, the log's limit is
positive, "none" is no row) and any sale (`MarketplaceAssumption`: finitely many
users and certificates, a fee of at most the price, platform and market are no
users and not each other):

| Theorem | Statement |
|---|---|
| `StoreTyped` | `StoreSpec => []StoreTypeOK` |
| `LeaseHeldAlways` | `StoreSpec => []LeaseHeld` |
| `LeasesExclude` | `StoreSpec /\ []OwnersInTurn => []Exclusive` |
| `PurgeExactAlways` | `StoreSpec => []PurgeExact` |
| `OneSeedAlways` | `StartSpec => []OneSeed` |
| `RecordTyped` | `RecordSpec => []RecordTypeOK` |
| `NothingIsLost` | `RecordSpec => NothingLost` |
| `SalesAlwaysDelivered` | `MarketplaceSpec => []SoldAndDelivered` |

`LeaseInv`: a key has one row, a call granted its lease alone has its row and no
other call of its owner beside it while its time lasts, and a purge finds no claim.
The theorems assume nothing of owners but for `LeasesExclude`: where calls of one
owner under one key never overlap (`OwnersInTurn`), no two calls under a key have time
left at once (`Exclusive`). `PurgeInv` is the loop's invariant: what it has is
reachable from the identifiers, and what it has passed over is not linked to what
it has or another pass follows; at the end the set is therefore closed and least.
`StartInv`: every block below the lower bound is too early, the upper one is not.
`RecordInv` is the shape of the writes still to come: a publication's
row and event, or the deletions of an archive whose copy of each row
still to be deleted is as it stands (`Writing`, `Dropping`).

`MarketInv`: a row and a snapshot lag behind Arc, so what the invariant keeps of
them are facts of Arc no step takes back. A certificate, its intent, its listing
and its row come in this order (`InOrder`); a sold listing was paid by the buyer
of a mined purchase (`PaidFor`); who owns the token after a sale has bought it
(`TokenBought`), so that a snapshot of a sold listing, however old, names somebody
who has (`SnapshotTrue`), and so does a row that says SOLD, which names the last
purchase begun (`RowTrue`). That this buyer is the payer, or a later buyer who
bought the token otherwise, is all that follows, and all that is true. The
books are `SalesWhole`: a purchase adds one to the sales of the seller and the
purchases of the buyer, and the market's balance follows the sum of the credits.

### Sums, and what is not proved

The books are sums over finite sets. `SumTheorems` derives how
`SumFunctionOnSet` reacts to a change of one entry; the induction over subsets is
carried by a minimal counterexample (well-founded induction without an operator
parameter).

`OutcomeFinal`, `DecisionFinal` and `ClosedOwesNothing` are proved and not asked of
a run any more. Only model-checked are:

* all liveness (`EveryStakeReturns`, `RoomResolves`, `MCEveryPoolCloses`,
  `DailyEnds`, `EveryoneIsPaid`, `RunsConclude`, `HeldFeeSettles`), which the
  prover does not handle under fairness;
* `VerdictPrevails`, which holds only where ticks do not overlap and an Arc
  error is recognised as one, so that no theorem for all values exists;
* `JudgmentsAgree` and `ConclusionsHold`: grades and means are folds over sequences, and
  what a fold computes for every input needs an induction over data, which is
  beyond the prover;
* `RankingEarned`, which follows the rounds of a bracket of a given size; two sizes are
  explored in full.

## 5. Where documents and code differ

Each is one `violation` run with its quoted sentence in `PROJECT.json`:

* `DocCancel`: a cancellation takes effect after judging has started, because the
  stage is tested before the awaits.
* `DocScorecard`: a withdrawal writes a stale row over the settlement record, and
  the room's scorecard can no longer be found.
* `DocRetry`: Arc failures advance the attempt number, and a second evaluation is
  submitted beside the first.
* `DocVerdict`: an Arc failure worded like a busy GenLayer refunds a room with a
  winner.
* `DocDeadline`: a join whose transaction hash was lost stays locked past its
  deadline until a player returns.

Met while modelling, contained in the models, and without a run of their own.
Some are at odds with a document, which is named; the others are behaviour a
maintainer may want to know:

* Two overlapping identical create requests (`pair-rooms.ts:223`, `229`) can write
  an OPEN row over one that is JOINED by then; the worker restores it from Arc.
* A settlement Arc made can be recorded SETTLEMENT_REJECTED when a second
  transaction for it reverts (`docs/IMPLEMENTATION-SPEC.md:573`).
* A restart can fail a campaign whose fee is held (`evaluation-execution.ts:113`;
  `docs/UI-UX-GAP-REVIEW.md:25`); the fee is refunded.
* `createVersionComparison` does not require FINALIZED campaigns
  (`docs/IMPLEMENTATION-SPEC.md:943`; `comparison.test.ts:193` permits partial
  coverage), and an early INCOMPLETE answer is stored for good. This is why
  `ConclusionsStand` is about policies of full coverage. The doubles of the code
  can also differ from the exact means at exactly the limit of a drop.
* A response of more than 32 768 bytes as JSON passes the parser and is refused
  by the judge; so is an answer of nothing but fence marks.
* The judge contracts delete fence marks anywhere in the JSON
  (`AgentEvaluationJudge.py:76`, `ArenaComparisonJudge.py:62`), the policy of the API
  reads the answer as it is (`policy.ts:34`). Where an argument key holds one, the two
  can count different findings: every poll then throws
  "canonical policy findings mismatch" (`run-tracker.ts:504`) and the run stays as it is.
* The budget of a tournament is not reserved by pairs under way
  (`docs/TDD-PLAN.md:450` plans one), and a lease that lapses under a living worker lets two
  callers get different answers for one attempt.
* After a crash between the progression and the record's write (`tracker.ts:237`)
  no caller is told that the match progressed.
* A withdrawal that ended RECOVERY_REQUIRED has no way out of it and stands in the
  way of every later one of its account. Two bridges of one wallet overwrite each
  other's allowance, and one of them ends so.
* Asking for a second login code deletes it again when the mail of the first fails
  late. The limit on sessions is tested after the proof was spent. A wallet an
  earlier version made under the same reference makes provisioning fail.
* A reverted transaction under the key of an agent's draft leaves that name and
  text unusable for its owner. An agent that is sold may be entered in one
  tournament by both its seller and its buyer.
* A purchase in flight is given up after its grace and its listing offered again
  (`service.ts:642`, wanted by `marketplace-service.test.ts:279`): the contract
  refuses the later of the two. A listing whose cancellation reverted stays
  CANCEL_SUBMITTED.
* `publishMarketplaceListing` compares the row's buyer with the token's current
  owner (`marketplace-arc.ts:46`), not with who paid for that listing. Where a
  purchase was given up and is mined late, and the token is then sold on through
  another listing to the buyer who had begun to buy the first, the row of the first
  is published SOLD to him and delivers to him what another paid for. It takes two
  listings made before and one after the token moved, three users and a
  reconciliation of an older row in between, more than a run explores; the proof
  would not close without the case, so that `DeliveredToBuyer` states it.
* The scripts of the live lifecycle: a run cannot be taken up after the
  settlement, since it asks for locked stakes that are paid by then. A claim whose
  hash was lost makes the recovery fail at that step from then on, and so
  does a recorded hash that reverted. A recovery run over a settled and closed
  tournament writes REFUNDED_CLOSED over COMPLETE; `RunTruthful` holds of either.
* A lease that ran out under another fingerprint stays a conflict for good
  (`sqlite-runtime.ts:254`).
* A tournament operation of more than ten minutes outlives its lease
  (`tournament-operations-live.ts:147`). A second one of the same process then claims
  with the same owner, `api:<pid>`; when the first ends its `finally` deletes the
  second's row (line 155), and a third may run beside the second.
* A crash between a match's row and its event loses the event. A crash between
  the archive and the operation's record makes every later migration fail
  (`service.ts:374`), because the archive it would store has another time. A SETTLE in flight over a migration writes
  revision 1 back and publishes its opening matches again.

## 6. Plan

The modules planned so far are written, and the safety properties of the runs
that are within the prover's reach are theorems. What could follow: an abstract
specification of a prize tournament as a whole, from registration to the last
payout, implemented by `TournamentPlay` with `TournamentEscrow` in place of its
external contract.

## 7. Not modelled

* HTTP routing, validation, rate limits, mail, RPC and SDK adapters: input and
  output without a state of their own.
* Cryptographic digests and canonical JSON: a digest is named by what it is a
  digest of, which assumes that there are no collisions.
* `ArenaStore`: no service starts with it at this commit.
* The prompts of the judge contracts and what a model makes of them: any answer the
  schema admits may come.
* The superseded `AgentMarketplace.sol` and `AgentRegistry.sol`, readers of
  reputation, statistics of a certificate, and the read-only views of the API
  other than through the properties about what they show.
* The reference launch script.
* The frontend, deployment and the other operator scripts: a static client,
  containers and command lines, nothing the correctness of the system rests on.
