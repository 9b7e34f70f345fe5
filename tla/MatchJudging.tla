----------------------------- MODULE MatchJudging ------------------------------
(***************************************************************************)
(* How a tournament's matches are judged: the orchestrator                 *)
(* (orchestrator.ts), the two agents' answers (tournament-runner.ts), the  *)
(* tracker of judge transactions (comparison-tracker.ts) and the contract  *)
(* ArenaComparisonJudge.py they are sent to.                               *)
(*                                                                         *)
(* A run walks the bracket in batches.  The matches of a batch run side by *)
(* side, each a task split at its awaits; runs overlap when one outlives   *)
(* the tournament's lease.  Everything stored outlives the process.        *)
(***************************************************************************)
EXTENDS Integers, FiniteSetsExt, SequencesExt

CONSTANTS Inputs,       \* what run may be given, see Input
          Abandoned,    \* attempts never judged (none in production)
          Runs,         \* concurrent executions of run
          MaxSends,     \* bound: judge transactions of a behaviour
          MaxMishaps,   \* bound: failed calls and crashes
          None

\* The bracket as a sequence of batches of matches, the round of each batch and the
\* attempts a match may take, 4 in production.  A serial run is one whose batches are
\* single matches, each of a round of its own.
Input == [batches : Seq(SUBSET Nat), rounds : Seq(Nat), retryCap : Nat \ {0}]

Matches == UNION {UNION Range(i.batches) : i \in Inputs}
MaxCap == Max({i.retryCap : i \in Inputs})
Attempts == Matches \X (1..MaxCap)
Routes == {"PRIMARY", "FALLBACK"}
Results == {"A_WIN", "B_WIN", "TIE"}
Wins == {"A_WIN", "B_WIN"}
Answer == {"RANKING", "WAITING", "RECOVERY", "REFUND", "THROWN"}

ASSUME MatchJudgingAssumption ==
    /\ Inputs \subseteq Input /\ IsFiniteSet(Inputs)
    /\ \A i \in Inputs :
          /\ i.batches # <<>> /\ DOMAIN i.rounds = DOMAIN i.batches
          /\ \A j, k \in DOMAIN i.batches : j # k => i.batches[j] \cap i.batches[k] = {}
    /\ Abandoned \subseteq Attempts
    /\ MaxSends \in Nat /\ MaxMishaps \in Nat
    /\ None \notin Results \cup Answer \cup (Runs \X Matches)

VARIABLES input,       \* what run was given
          answers,     \* 'evaluation-tournament-provider-runs': whole pairs
          fallback,    \* 'evaluation-tournament-provider-route': attempts
          submission,  \* 'comparison-submissions'
          registry,    \* 'evaluation-comparison-runs': the transaction recorded
          execution,   \* what each execution of run holds
          sender,      \* the task whose submission is under way
          judgeTxs,    \* external: the judge transactions, by hash
          verdicts,    \* external: the contract's results
          expired,     \* external: the tournament's time is up
          mishaps      \* failed calls and crashes so far

stored == <<answers, fallback, submission, registry>>
external == <<judgeTxs, verdicts, expired>>
judgingVars == <<input, stored, execution, sender, external, mishaps>>

-----------------------------------------------------------------------------

Hash == 0..MaxSends
SubmissionState == {"NONE", "SUBMISSION_PERSISTED", "SUBMITTED", "PENDING",
                    "FAILED", "FINALIZED"}
Submission == [state : SubmissionState, route : Routes \cup {None}, tx : Hash]
NoSubmission == [state |-> "NONE", route |-> None, tx |-> 0]
Tx == [attempt : Attempts, route : Routes,
       status : Results \cup {"PENDING", "NO_CONSENSUS", "FAILED"}]

\* A task is at an await, or over with what it found.  n is its attempt, route
\* where its pair of answers comes from, record its copy of the submission.
Pc == {"off", "infer", "queue", "send", "poll", "canonical", "over"}
Found == Wins \cup {"WAITING", "RECOVERY", "REFUND"}
Task == [pc : Pc, n : 1..MaxCap, route : Routes \cup {None},
         record : Submission, found : Found \cup {None}]
NoTask == [pc |-> "off", n |-> 1, route |-> None, record |-> NoSubmission, found |-> None]

\* blocked says that a match of the round waits or needs recovery.
Execution == [batch : Nat, results : [Matches -> Wins \cup {None}],
              blocked : SUBSET {"WAITING", "RECOVERY"}, task : [Matches -> Task],
              answer : Answer \cup {None}]
NoRun == [batch |-> 0, results |-> [m \in Matches |-> None], blocked |-> {},
          task |-> [m \in Matches |-> NoTask], answer |-> None]

JudgingTypeOK ==
    /\ input \in Inputs
    /\ answers \in [Attempts -> SUBSET Routes]
    /\ fallback \subseteq Attempts
    /\ submission \in [Attempts -> Submission]
    /\ registry \in [Attempts -> Hash]
    /\ execution \in [Runs -> Execution]
    /\ sender \in (Runs \X Matches) \cup {None}
    /\ judgeTxs \in Seq(Tx) /\ Len(judgeTxs) <= MaxSends
    /\ verdicts \in [Attempts -> Results \cup {None}]
    /\ expired \in BOOLEAN /\ mishaps \in 0..MaxMishaps

JudgingInit ==
    /\ input \in Inputs
    /\ answers = [a \in Attempts |-> {}]
    /\ fallback = {}
    /\ submission = [a \in Attempts |-> NoSubmission]
    /\ registry = [a \in Attempts |-> 0]
    /\ execution = [r \in Runs |-> NoRun]
    /\ sender = None
    /\ judgeTxs = <<>>
    /\ verdicts = [a \in Attempts |-> None]
    /\ expired = FALSE /\ mishaps = 0

-----------------------------------------------------------------------------
(* GenLayer. *)

\* submit_comparison: a second submission of an attempt returns the stored result
\* if it is the same pair; the validators may not agree, or the call fail.
FinalizeComparison(i) ==
    LET a == judgeTxs[i].attempt
        other == \E j \in 1..Len(judgeTxs) : /\ judgeTxs[j].attempt = a /\ judgeTxs[j].status \in Results
                                             /\ judgeTxs[j].route # judgeTxs[i].route
    IN  /\ judgeTxs[i].status = "PENDING"
        /\ \E s \in IF verdicts[a] = None THEN Results \cup {"NO_CONSENSUS", "FAILED"}
                    ELSE {IF other THEN "FAILED" ELSE verdicts[a]} :
              /\ judgeTxs' = [judgeTxs EXCEPT ![i].status = s]
              /\ verdicts' = IF s \in Results THEN [verdicts EXCEPT ![a] = s] ELSE verdicts
        /\ UNCHANGED <<input, stored, execution, sender, expired, mishaps>>

Expire == /\ ~expired /\ expired' = TRUE
          /\ UNCHANGED <<input, stored, execution, sender, judgeTxs, verdicts, mishaps>>

-----------------------------------------------------------------------------
(* A task. *)

Here(r, m, pc) == execution[r].task[m].pc = pc
Put(r, m, t) == execution' = [execution EXCEPT ![r].task[m] = t]
Over(r, m, found) == Put(r, m, [NoTask EXCEPT !.pc = "over", !.found = found])

\* Mutant of Attempting: one attempt more than the policy allows.
AttemptingBeyond(m, n) ==
    LET left == {k \in n..(input.retryCap + 1) : <<m, k>> \notin Abandoned}
    IN  IF expired \/ left = {}
        THEN [NoTask EXCEPT !.pc = "over", !.found = "REFUND"]
        ELSE [NoTask EXCEPT !.pc = "infer",
                            !.n = CHOOSE k \in left : \A l \in left : k <= l]

\* The next attempt that is not abandoned; none once the tournament expired or
\* the attempts are used up.
Attempting(m, n) ==
    LET left == {k \in n..input.retryCap : <<m, k>> \notin Abandoned}
    IN  IF expired \/ left = {}
        THEN [NoTask EXCEPT !.pc = "over", !.found = "REFUND"]
        ELSE [NoTask EXCEPT !.pc = "infer",
                            !.n = CHOOSE k \in left : \A l \in left : k <= l]

\* The second route is stored before it is used, and then kept.
Decided(a) == fallback \cup {a}

\* The pair of answers; runs that overlap share the call.  A stored answer is never
\* asked for again.  When the first route times out both agents answer on the
\* second one.
Infer(r, m) ==
    LET t == execution[r].task[m]
        a == <<m, t.n>>
    IN  /\ Here(r, m, "infer")
        /\ \E route \in IF a \in fallback THEN {"FALLBACK"}
                        ELSE IF "PRIMARY" \in answers[a] THEN {"PRIMARY"} ELSE Routes :
              /\ fallback' = IF route = "FALLBACK" THEN Decided(a) ELSE fallback
              /\ \/ /\ answers' = [answers EXCEPT ![a] = @ \cup {route}]
                    /\ Put(r, m, [t EXCEPT !.pc = "queue", !.route = route])
                    /\ UNCHANGED mishaps
                 \/ /\ route \notin answers[a]
                    /\ mishaps < MaxMishaps /\ mishaps' = mishaps + 1
                    /\ Over(r, m, "RECOVERY") /\ UNCHANGED answers
        /\ UNCHANGED <<input, submission, registry, sender, external>>

\* Mutant of MaySubmit: submissions do not wait for each other.
MaySubmitAny == TRUE
\* One submission at a time over all runs of the process.
MaySubmit == sender = None

\* submit: a stored hash is kept, whoever sent it; otherwise the intent is stored.
Submit(r, m) ==
    LET t == execution[r].task[m]
        a == <<m, t.n>>
        s == submission[a]
    IN  /\ Here(r, m, "queue") /\ MaySubmit
        /\ CASE s.route \notin {None, t.route} ->
                  Over(r, m, "RECOVERY") /\ UNCHANGED <<submission, sender>>
             [] s.route \in {None, t.route} /\ s.tx # 0 ->
                  /\ Put(r, m, [t EXCEPT !.pc = "poll", !.record = s])
                  /\ UNCHANGED <<submission, sender>>
             [] OTHER ->
                  /\ submission' = [submission EXCEPT ![a] =
                        [state |-> "SUBMISSION_PERSISTED", route |-> t.route, tx |-> 0]]
                  /\ sender' = <<r, m>>
                  /\ Put(r, m, [t EXCEPT !.pc = "send"])
        /\ UNCHANGED <<input, answers, fallback, registry, external, mishaps>>

\* The transaction is sent and its hash stored; the poll reads the record again.
Send(r, m) ==
    LET t == execution[r].task[m]
        a == <<m, t.n>>
        s == [state |-> "SUBMITTED", route |-> t.route, tx |-> Len(judgeTxs) + 1]
    IN  /\ Here(r, m, "send") /\ Len(judgeTxs) < MaxSends
        /\ judgeTxs' = Append(judgeTxs, [attempt |-> a, route |-> t.route, status |-> "PENDING"])
        /\ submission' = [submission EXCEPT ![a] = s]
        /\ sender' = IF sender = <<r, m>> THEN None ELSE sender
        /\ Put(r, m, [t EXCEPT !.pc = "poll", !.record = s])
        /\ UNCHANGED <<input, answers, fallback, registry, verdicts, expired, mishaps>>

\* poll: the receipt of the record's transaction.
PollComparison(r, m) ==
    LET t == execution[r].task[m]
        a == <<m, t.n>>
        status == judgeTxs[t.record.tx].status
        put(state) == submission' = [submission EXCEPT ![a] = [t.record EXCEPT !.state = state]]
    IN  /\ Here(r, m, "poll")
        /\ CASE status = "PENDING" -> put("PENDING") /\ Over(r, m, "WAITING")
             [] status = "NO_CONSENSUS" -> put("FAILED") /\ Put(r, m, Attempting(m, t.n + 1))
             [] status = "FAILED" -> put("FAILED") /\ Over(r, m, "RECOVERY")
             [] OTHER -> Put(r, m, [t EXCEPT !.pc = "canonical"]) /\ UNCHANGED submission
        /\ UNCHANGED <<input, answers, fallback, registry, sender, external, mishaps>>

\* The contract's result goes into the registry, which never changes; only a
\* winner ends the match, a tie opens the next attempt.
Canonical(r, m) ==
    LET t == execution[r].task[m]
        a == <<m, t.n>>
    IN  /\ Here(r, m, "canonical")
        /\ IF registry[a] \notin {0, t.record.tx}
           THEN Over(r, m, "RECOVERY") /\ UNCHANGED <<registry, submission>>
           ELSE /\ registry' = [registry EXCEPT ![a] = t.record.tx]
                /\ submission' = [submission EXCEPT ![a] = [t.record EXCEPT !.state = "FINALIZED"]]
                /\ IF verdicts[a] \in Wins
                   THEN Over(r, m, verdicts[a])
                   ELSE Put(r, m, Attempting(m, t.n + 1))
        /\ UNCHANGED <<input, answers, fallback, sender, external, mishaps>>

\* Mutant of Released: a submission that fails keeps the others waiting.
ReleasedNever(r, m) == sender
\* The next submission may go on, whether this one failed or not.
Released(r, m) == IF sender = <<r, m>> THEN None ELSE sender

\* A call of the task throws; a transaction may have left all the same.
FailTask(r, m) ==
    LET t == execution[r].task[m]
    IN  /\ mishaps < MaxMishaps /\ mishaps' = mishaps + 1
        /\ t.pc \in {"send", "poll", "canonical"}
        /\ Over(r, m, "RECOVERY")
        /\ sender' = Released(r, m)
        /\ \/ UNCHANGED judgeTxs
           \/ /\ t.pc = "send" /\ Len(judgeTxs) < MaxSends
              /\ judgeTxs' = Append(judgeTxs, [attempt |-> <<m, t.n>>, route |-> t.route,
                                               status |-> "PENDING"])
        /\ UNCHANGED <<input, stored, verdicts, expired>>

-----------------------------------------------------------------------------
(* A run. *)

Open(w, i) == [w EXCEPT !.batch = i,
                        !.task = [m \in Matches |-> IF m \in input.batches[i] THEN Attempting(m, 1)
                                                    ELSE NoTask]]
Return(a) == [NoRun EXCEPT !.answer = a]
Ranking(results) == [NoRun EXCEPT !.answer = "RANKING", !.results = results]

\* The tournament's row asks for another run until there is a ranking.
StartRun(r) ==
    /\ execution[r].batch = 0 /\ execution[r].answer # "RANKING"
    /\ ~(expired /\ execution[r].answer = "REFUND")
    /\ execution' = [execution EXCEPT ![r] = IF expired THEN Return("REFUND") ELSE Open(NoRun, 1)]
    /\ UNCHANGED <<input, stored, sender, external, mishaps>>

\* Mutant of Gather: blocked matches do not keep the next round from starting.
GatherEager(w) ==
    LET i == w.batch
        found(m) == w.task[m].found
        results == [m \in Matches |-> IF m \in input.batches[i] /\ found(m) \in Wins
                                      THEN found(m) ELSE w.results[m]]
    IN  IF i = Len(input.batches) THEN Ranking(results)
        ELSE Open([w EXCEPT !.results = results], i + 1)

\* After every task of a batch is over: a refund is returned at once, wins are
\* kept; blocked matches stop the run at the end of their round.
Gather(w) ==
    LET i == w.batch
        found(m) == w.task[m].found
        blocked == w.blocked \cup ({found(m) : m \in input.batches[i]} \cap {"WAITING", "RECOVERY"})
        results == [m \in Matches |-> IF m \in input.batches[i] /\ found(m) \in Wins
                                      THEN found(m) ELSE w.results[m]]
        last == i = Len(input.batches)
    IN  CASE \E m \in input.batches[i] : found(m) = "REFUND" -> Return("REFUND")
          [] /\ \A m \in input.batches[i] : found(m) # "REFUND"
             /\ blocked # {} /\ (last \/ input.rounds[i + 1] # input.rounds[i]) ->
               Return(IF "RECOVERY" \in blocked THEN "RECOVERY" ELSE "WAITING")
          [] /\ \A m \in input.batches[i] : found(m) # "REFUND"
             /\ blocked = {} /\ last -> Ranking(results)
          [] OTHER -> Open([w EXCEPT !.results = results, !.blocked = blocked], i + 1)

AdvanceBatch(r) ==
    /\ execution[r].batch > 0
    /\ \A m \in input.batches[execution[r].batch] : Here(r, m, "over")
    /\ execution' = [execution EXCEPT ![r] = Gather(execution[r])]
    /\ UNCHANGED <<input, stored, sender, external, mishaps>>

CrashRuns ==
    /\ mishaps < MaxMishaps /\ mishaps' = mishaps + 1
    /\ \E r \in Runs : execution[r].batch > 0
    /\ execution' = [r \in Runs |-> NoRun]
    /\ sender' = None
    /\ \/ UNCHANGED judgeTxs
       \/ \E r \in Runs, m \in Matches :
             /\ Here(r, m, "send") /\ Len(judgeTxs) < MaxSends
             /\ judgeTxs' = Append(judgeTxs, [attempt |-> <<m, execution[r].task[m].n>>,
                                              route |-> execution[r].task[m].route, status |-> "PENDING"])
    /\ UNCHANGED <<input, stored, verdicts, expired>>

TaskStep(r, m) == Infer(r, m) \/ Submit(r, m) \/ Send(r, m) \/ PollComparison(r, m) \/ Canonical(r, m)

JudgingNext ==
    \/ \E i \in 1..Len(judgeTxs) : FinalizeComparison(i)
    \/ Expire
    \/ \E r \in Runs : StartRun(r) \/ AdvanceBatch(r)
    \/ \E r \in Runs, m \in Matches : TaskStep(r, m) \/ FailTask(r, m)
    \/ CrashRuns

JudgingSpec == JudgingInit /\ [][JudgingNext]_judgingVars

\* Judge transactions become final, the process goes on with its tasks and the
\* worker asks for another run.  Time need not run out.
JudgingFairness ==
    /\ \A i \in 1..MaxSends : WF_judgingVars(i <= Len(judgeTxs) /\ FinalizeComparison(i))
    /\ \A r \in Runs : WF_judgingVars(StartRun(r)) /\ WF_judgingVars(AdvanceBatch(r))
    /\ \A r \in Runs, m \in Matches : WF_judgingVars(TaskStep(r, m))

-----------------------------------------------------------------------------
(* Properties. *)

Winning(m) == {k \in 1..input.retryCap : verdicts[<<m, k>>] \in Wins}

\* While no call failed, at most one attempt of a match wins on GenLayer: a later
\* attempt is only judged after the earlier ones ended without a winner, however
\* runs overlap.
OneWinningAttempt == mishaps = 0 => \A m \in Matches : Cardinality(Winning(m)) <= 1

\* What is judged is a whole pair of stored answers of one route, the stored one.
WholePairs ==
    \A i \in 1..Len(judgeTxs) :
        LET a == judgeTxs[i].attempt
        IN  /\ judgeTxs[i].route \in answers[a]
            /\ (judgeTxs[i].route = "FALLBACK") = (a \in fallback)

\* A ranking rests on a winner GenLayer finalized for every match.
RankedOnVerdicts ==
    \A r \in Runs : execution[r].answer = "RANKING" =>
        \A m \in UNION Range(input.batches) :
                            /\ execution[r].results[m] \in Wins
                            /\ \E k \in 1..input.retryCap : verdicts[<<m, k>>] = execution[r].results[m]

\* Rankings come from whole answers through final verdicts.
RankingsFounded == WholePairs /\ RankedOnVerdicts

\* Unless time runs out or a judge transaction fails, the runs come to a ranking
\* or use up the attempts, through provider failures, lost hashes and crashes.
RunsConclude ==
    \/ <>(expired \/ \E i \in 1..Len(judgeTxs) : judgeTxs[i].status = "FAILED")
    \/ <>(\E r \in Runs : execution[r].answer \in {"RANKING", "REFUND"})
=============================================================================
