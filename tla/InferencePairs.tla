---------------------------- MODULE InferencePairs -----------------------------
(***************************************************************************)
(* The inference pair runner (packages/inference/src/pair-runner.ts): the  *)
(* two answers of a match are generated by paid calls, under a lease of    *)
(* the attempt that several worker processes compete for, and within the   *)
(* budget of a tournament.  A worker that ends leaves its rows and its     *)
(* lease behind; a lease may also lapse under a worker that is only slow.  *)
(* The attempts are those of one tournament.                               *)
(***************************************************************************)
EXTENDS Integers, FiniteSets

CONSTANTS Runners,      \* worker processes, each with a PersistentInferenceStore
          Attempts,     \* attempt ids
          Payloads,     \* fingerprints of what may be asked under one attempt id
          MaxCost,      \* policy.maxCostMicros
          CallCost,     \* policy.maxCostPerCallMicros
          MaxRunnerEnds,\* bound: ends of a worker process
          MaxLapses,    \* bound: leases that lapse under a living worker
          NoPayload     \* no row

ASSUME InferencePairsAssumption ==
    /\ NoPayload \notin Payloads /\ "nobody" \notin Runners
    /\ MaxCost \in Nat /\ CallCost \in Nat \ {0}
    /\ MaxRunnerEnds \in Nat /\ MaxLapses \in Nat

VARIABLES row,        \* inference-runs, by attempt and side
          claim,      \* inference-pairs: the lease of an attempt
          spent,      \* inference-cost of the tournament
          operation,  \* pairOperations of each worker
          called,     \* provider calls made for an operation key so far
          delivered,  \* results OUTPUTS_READY handed to callers
          overrun,    \* attempts whose lease lapsed under a living worker
          crowd,      \* the most pairs that were ever generated at once
          runnerEnds  \* ends of worker processes so far

inferenceVars == <<row, claim, spent, operation, called, delivered, overrun, crowd, runnerEnds>>

PairSides == {"A", "B"}
NoRow == [state |-> "ABSENT", print |-> NoPayload, answer |-> 0]
NoClaim == [owner |-> "nobody", print |-> NoPayload, lapsed |-> FALSE]
NoOperation == [print |-> NoPayload, side |-> [s \in PairSides |-> "done"], answer |-> [s \in PairSides |-> 0]]
ProviderFailure == {"TRANSIENT_FAILURE", "PERMANENT_FAILURE"}
SideState == {"calling", "done", "failed"}

InferencePairsTypeOK ==
    /\ \A a \in Attempts : \A s \in PairSides :
          /\ row[a][s].state \in {"ABSENT", "PERSISTED", "SUCCESS"} \cup ProviderFailure
          /\ row[a][s].print \in Payloads \cup {NoPayload}
          /\ (row[a][s].state = "SUCCESS") <=> (row[a][s].answer \in 1..called[a][s])
    /\ \A a \in Attempts : claim[a].owner \in Runners \cup {"nobody"}
    /\ spent \in Nat
    /\ \A w \in Runners : \A a \in Attempts : operation[w][a].side \in [PairSides -> SideState]
    /\ overrun \subseteq Attempts
    /\ runnerEnds \in 0..MaxRunnerEnds

InferencePairsInit ==
    /\ row = [a \in Attempts |-> [s \in PairSides |-> NoRow]]
    /\ claim = [a \in Attempts |-> NoClaim]
    /\ spent = 0
    /\ operation = [w \in Runners |-> [a \in Attempts |-> NoOperation]]
    /\ called = [a \in Attempts |-> [s \in PairSides |-> 0]]
    /\ delivered = [a \in Attempts |-> {}]
    /\ overrun = {}
    /\ crowd = 0
    /\ runnerEnds = 0

Generating(w, a) == operation[w][a].print # NoPayload
PairsInFlight == Cardinality({x \in Runners \X Attempts : Generating(x[1], x[2])})

-----------------------------------------------------------------------------
(* What runClaimedPair reads before it calls the provider. *)
Written(a) == {s \in PairSides : row[a][s] # NoRow}
Conflicting(a, f) == \E s \in Written(a) : row[a][s].print # f
HasFailure(a) == \E s \in Written(a) : row[a][s].state \in ProviderFailure
Completed(a) == \A s \in PairSides : row[a][s].state = "SUCCESS"
CompletedResult(a) == [s \in PairSides |-> row[a][s].answer]
Affordable == MaxCost - spent >= 2 * CallCost

(* A lease of another payload conflicts even when it has lapsed; one of the *)
(* same payload is busy until then.                                         *)
(* Mutant of MayClaimPair: the lease of a worker that still runs is taken. *)
MayClaimHeld(a, f) == claim[a] = NoClaim \/ claim[a].print = f
MayClaimPair(a, f) == claim[a] = NoClaim \/ (claim[a].lapsed /\ claim[a].print = f)

RefusedPair(a, f) == Conflicting(a, f) \/ HasFailure(a) \/ (~Completed(a) /\ ~Affordable)

(* A claim that leads to no call: the result is handed out or the request    *)
(* refused, and the lease is released.                                        *)
AnswerStored(w, a, f) ==
    /\ ~Generating(w, a) /\ MayClaimPair(a, f)
    /\ RefusedPair(a, f) \/ Completed(a)
    /\ claim' = [claim EXCEPT ![a] = NoClaim]
    /\ delivered' = IF RefusedPair(a, f) THEN delivered
                    ELSE [delivered EXCEPT ![a] = @ \cup {CompletedResult(a)}]
    /\ UNCHANGED <<row, spent, operation, called, overrun, crowd, runnerEnds>>

(* Sides that need no call: an earlier worker got their answer and ended. *)
Known(a) == {s \in PairSides : row[a][s].state = "SUCCESS"}

Generate(w, a, f) ==
    /\ ~Generating(w, a) /\ MayClaimPair(a, f)
    /\ ~RefusedPair(a, f) /\ ~Completed(a)
    /\ claim' = [claim EXCEPT ![a] = [owner |-> w, print |-> f, lapsed |-> FALSE]]
    /\ called' = [called EXCEPT ![a] = [s \in PairSides |-> IF s \in Known(a) THEN @[s] ELSE @[s] + 1]]
    /\ row' = [row EXCEPT ![a] = [s \in PairSides |->
                 IF s \in Known(a) THEN @[s] ELSE [state |-> "PERSISTED", print |-> f, answer |-> 0]]]
    /\ operation' = [operation EXCEPT ![w][a] =
                       [print |-> f,
                        side |-> [s \in PairSides |-> IF s \in Known(a) THEN "done" ELSE "calling"],
                        answer |-> [s \in PairSides |-> IF s \in Known(a) THEN 0 ELSE called'[a][s]]]]
    /\ crowd' = IF PairsInFlight + 1 > crowd THEN PairsInFlight + 1 ELSE crowd
    /\ UNCHANGED <<spent, delivered, overrun, runnerEnds>>

Reply(w, a, s, state, answer) ==
    row' = [row EXCEPT ![a][s] = [state |-> state, print |-> operation[w][a].print, answer |-> answer]]

(* The provider answers within the bounds of the policy: the answer is stored, *)
(* then its cost is added.                                                     *)
Answered(w, a, s) ==
    /\ Generating(w, a) /\ operation[w][a].side[s] = "calling"
    /\ Reply(w, a, s, "SUCCESS", operation[w][a].answer[s])
    /\ \E cost \in 0..CallCost : spent' = spent + cost
    /\ operation' = [operation EXCEPT ![w][a].side[s] = "done"]
    /\ UNCHANGED <<claim, called, delivered, overrun, crowd, runnerEnds>>

(* It does not answer, answers with an error, or beyond those bounds. *)
Unanswered(w, a, s) ==
    /\ Generating(w, a) /\ operation[w][a].side[s] = "calling"
    /\ \E failure \in ProviderFailure : Reply(w, a, s, failure, 0)
    /\ operation' = [operation EXCEPT ![w][a].side[s] = "failed"]
    /\ UNCHANGED <<claim, spent, called, delivered, overrun, crowd, runnerEnds>>

ReleasedBy(w, a) == IF claim[a].owner = w THEN NoClaim ELSE claim[a]

(* Both sides have ended: the caller gets the pair, or the half that is there, *)
(* and the worker releases the lease if it still is its own.                   *)
Finish(w, a) ==
    /\ Generating(w, a) /\ \A s \in PairSides : operation[w][a].side[s] # "calling"
    /\ operation' = [operation EXCEPT ![w][a] = NoOperation]
    /\ claim' = [claim EXCEPT ![a] = ReleasedBy(w, a)]
    /\ delivered' = IF Completed(a) /\ \A s \in PairSides : operation[w][a].side[s] = "done"
                    THEN [delivered EXCEPT ![a] = @ \cup {CompletedResult(a)}] ELSE delivered
    /\ UNCHANGED <<row, spent, called, overrun, crowd, runnerEnds>>

-----------------------------------------------------------------------------
(* A worker process ends; an answer it had just stored may have no cost yet. *)
RunnerEnds(w) ==
    /\ runnerEnds < MaxRunnerEnds
    /\ \/ UNCHANGED row
       \/ \E a \in Attempts, s \in PairSides :
             /\ Generating(w, a) /\ operation[w][a].side[s] = "calling"
             /\ Reply(w, a, s, "SUCCESS", operation[w][a].answer[s])
    /\ operation' = [operation EXCEPT ![w] = [a \in Attempts |-> NoOperation]]
    /\ runnerEnds' = runnerEnds + 1
    /\ UNCHANGED <<claim, spent, called, delivered, overrun, crowd>>

(* leaseMs pass since an attempt was claimed. *)
ClaimLapses(a) ==
    /\ claim[a] # NoClaim /\ ~claim[a].lapsed
    /\ claim' = [claim EXCEPT ![a].lapsed = TRUE]
    /\ overrun' = IF Generating(claim[a].owner, a) THEN overrun \cup {a} ELSE overrun
    /\ Cardinality(overrun') <= MaxLapses
    /\ UNCHANGED <<row, spent, operation, called, delivered, crowd, runnerEnds>>

PairStep(w, a) ==
    \/ \E f \in Payloads : AnswerStored(w, a, f) \/ Generate(w, a, f)
    \/ \E s \in PairSides : Answered(w, a, s) \/ Unanswered(w, a, s)
    \/ Finish(w, a)

InferencePairsNext ==
    \/ \E w \in Runners, a \in Attempts : PairStep(w, a)
    \/ \E w \in Runners : RunnerEnds(w)
    \/ \E a \in Attempts : ClaimLapses(a)

InferencePairsSpec == InferencePairsInit /\ [][InferencePairsNext]_inferenceVars

-----------------------------------------------------------------------------
(* Properties. *)

\* Every caller of an attempt gets the same two answers, those the store keeps, however
\* many workers ran it and however often one ended, unless a lease lapsed under a worker
\* that was still waiting for the provider.
SamePair == \A a \in Attempts \ overrun : delivered[a] \subseteq {CompletedResult(a)}

\* The rows of an attempt are of one payload, even when leases lapse: an attempt id never
\* joins an answer to one topic with an answer to another.
OnePayload == \A a \in Attempts : \A s, t \in Written(a) : row[a][s].print = row[a][t].print

\* The budget is read before the calls and not reserved, so it is kept by pairs that run
\* one after the other and exceeded by two calls at most for every further pair in flight.
BudgetOverrun == spent <= MaxCost + 2 * CallCost * (IF crowd > 1 THEN crowd - 1 ELSE 0)

\* A match is judged on one pair of answers, and they were paid within the budget.
PairsSound == InferencePairsTypeOK /\ SamePair /\ OnePayload /\ BudgetOverrun
=============================================================================
