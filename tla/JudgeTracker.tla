----------------------------- MODULE JudgeTracker ------------------------------
(***************************************************************************)
(* The tracker of a match's judgments (packages/genlayer/src/tracker.ts):  *)
(* an attempt is submitted to GenLayer and polled until its verdict, by    *)
(* workers that hold a lease for each; the first attempt with a winner     *)
(* takes the match forward, once.  A worker may end between any two        *)
(* awaits, and a lease may lapse under a worker that is only slow.         *)
(***************************************************************************)
EXTENDS Integers, FiniteSets

CONSTANTS Trackers,    \* worker processes, each with a PersistentJudgeStore
          Trials,      \* attempts at a match
          MatchOf,     \* the match an attempt is made at
          MaxMishaps   \* bound: ends of workers, lapses, lost answers

ASSUME JudgeTrackerAssumption == MaxMishaps \in Nat /\ Trackers # {} /\ "nobody" \notin Trackers

VARIABLES submission,  \* judge-submissions
          progressed,  \* judge-progressions: matches taken forward
          held,        \* judge-submit and judge-poll: the lease of each, by attempt
          task,        \* what each worker awaits for an attempt, and the record it read
          transactions,\* judge transactions GenLayer was sent for an attempt
          judgment,    \* what the judge contract keeps of an attempt
          told,        \* attempts a caller was told took the match forward
          strayed,     \* sends of an attempt whose hash may have been lost
          mishaps      \* mishaps so far

trackerVars == <<submission, progressed, held, task, transactions, judgment, told, strayed, mishaps>>

JudgeOperation == {"submit", "poll"}
Winner == {"WINNER"}                    \* A_WIN, B_WIN
Judgment == Winner \cup {"NO_WINNER"}    \* TIE, RETRYABLE
NoSubmission == [state |-> "ABSENT", tx |-> 0, result |-> "none", applied |-> FALSE]
Unheld == [owner |-> "nobody", lapsed |-> FALSE]
NoTask == [pc |-> "idle", copy |-> NoSubmission]

JudgeTrackerTypeOK ==
    /\ \A t \in Trials :
          /\ submission[t].state \in {"ABSENT", "SUBMISSION_PERSISTED", "SUBMITTED", "PENDING",
                                      "FAILED", "FINALIZED"}
          /\ submission[t].tx \in 0..transactions[t]
          /\ \A o \in JudgeOperation : held[t][o].owner \in Trackers \cup {"nobody"}
    /\ progressed \subseteq {MatchOf[t] : t \in Trials} /\ told \subseteq Trials
    /\ judgment \in [Trials -> Judgment \cup {"none"}]
    /\ mishaps \in 0..MaxMishaps

JudgeTrackerInit ==
    /\ submission = [t \in Trials |-> NoSubmission]
    /\ progressed = {} /\ told = {}
    /\ held = [t \in Trials |-> [o \in JudgeOperation |-> Unheld]]
    /\ task = [w \in Trackers |-> [t \in Trials |-> [o \in JudgeOperation |-> NoTask]]]
    /\ transactions = [t \in Trials |-> 0]
    /\ judgment = [t \in Trials |-> "none"]
    /\ strayed = [t \in Trials |-> 0]
    /\ mishaps = 0

-----------------------------------------------------------------------------
Doing(w, t, o) == task[w][t][o].pc
(* submitOnce and pollOnce: one at a time in a process, one process at a time. *)
MayHold(w, t, o) == Doing(w, t, o) = "idle" /\ (held[t][o] = Unheld \/ held[t][o].lapsed)
Holds(w, t, o) == held' = [held EXCEPT ![t][o] = [owner |-> w, lapsed |-> FALSE]]
Releases(w, t, o) ==
    held' = IF held[t][o].owner = w THEN [held EXCEPT ![t][o] = Unheld] ELSE held
Does(w, t, o, pc, copy) == task' = [task EXCEPT ![w][t][o] = [pc |-> pc, copy |-> copy]]
Stores(t, record) == submission' = [submission EXCEPT ![t] = record]
Mishap == mishaps < MaxMishaps /\ mishaps' = mishaps + 1

Unsent(t) == submission[t].tx = 0

(* submit: what has no hash yet is stored before it is sent. *)
SubmitTrial(w, t) ==
    /\ MayHold(w, t, "submit") /\ Unsent(t)
    /\ Holds(w, t, "submit")
    /\ Stores(t, [NoSubmission EXCEPT !.state = "SUBMISSION_PERSISTED"])
    /\ Does(w, t, "submit", "sending", NoSubmission)
    /\ UNCHANGED <<progressed, transactions, judgment, told, strayed, mishaps>>

TrialSubmitted(w, t) ==
    /\ Doing(w, t, "submit") = "sending"
    /\ transactions' = [transactions EXCEPT ![t] = @ + 1]
    /\ Stores(t, [NoSubmission EXCEPT !.state = "SUBMITTED", !.tx = transactions[t] + 1])
    /\ Does(w, t, "submit", "idle", NoSubmission) /\ Releases(w, t, "submit")
    /\ UNCHANGED <<progressed, judgment, told, strayed, mishaps>>

(* The send fails, before or after GenLayer has the transaction. *)
SubmitFails(w, t) ==
    /\ Doing(w, t, "submit") = "sending" /\ Mishap
    /\ \E arrived \in 0..1 :
          /\ transactions' = [transactions EXCEPT ![t] = @ + arrived]
          /\ strayed' = [strayed EXCEPT ![t] = @ + arrived]
    /\ Does(w, t, "submit", "idle", NoSubmission) /\ Releases(w, t, "submit")
    /\ UNCHANGED <<submission, progressed, judgment, told>>

(* The judge contract keeps one judgment of an attempt. *)
Judge(t) ==
    /\ transactions[t] > 0 /\ judgment[t] = "none"
    /\ \E verdict \in Judgment : judgment' = [judgment EXCEPT ![t] = verdict]
    /\ UNCHANGED <<submission, progressed, held, task, transactions, told, strayed, mishaps>>

(* poll: the record is read, then its receipt. *)
PollTrial(w, t) ==
    /\ MayHold(w, t, "poll") /\ submission[t].tx # 0
    /\ Holds(w, t, "poll") /\ Does(w, t, "poll", "receipt", submission[t])
    /\ UNCHANGED <<submission, progressed, transactions, judgment, told, strayed, mishaps>>

(* A receipt that is not final, or of an execution that failed, is stored. *)
TrialPending(w, t) ==
    /\ Doing(w, t, "poll") = "receipt"
    /\ \E finality \in {"FAILED"} \cup IF judgment[t] = "none" THEN {"PENDING"} ELSE {} :
          Stores(t, [task[w][t]["poll"].copy EXCEPT !.state = finality])
    /\ Does(w, t, "poll", "idle", NoSubmission) /\ Releases(w, t, "poll")
    /\ UNCHANGED <<progressed, transactions, judgment, told, strayed, mishaps>>

TrialFinal(w, t) ==
    /\ Doing(w, t, "poll") = "receipt" /\ judgment[t] # "none"
    /\ Does(w, t, "poll", "verdict", task[w][t]["poll"].copy)
    /\ UNCHANGED <<submission, progressed, held, transactions, judgment, told, strayed, mishaps>>

(* Mutant of Applies: that another attempt took it forward is not asked. *)
AppliesAny(t, record) == judgment[t] \in Winner
(* A winner takes the match forward unless another attempt did. *)
Applies(t, record) ==
    judgment[t] \in Winner /\ (record.applied \/ MatchOf[t] \notin progressed)

(* The canonical verdict is bound to the record and stored. *)
TrialJudged(w, t) ==
    LET record == task[w][t]["poll"].copy
        applied == Applies(t, record)
    IN  /\ Doing(w, t, "poll") = "verdict"
        /\ progressed' = IF judgment[t] \in Winner /\ ~record.applied
                         THEN progressed \cup {MatchOf[t]} ELSE progressed
        /\ Stores(t, [record EXCEPT !.state = "FINALIZED", !.result = judgment[t], !.applied = applied])
        /\ told' = IF applied THEN told \cup {t} ELSE told
        /\ Does(w, t, "poll", "idle", NoSubmission) /\ Releases(w, t, "poll")
        /\ UNCHANGED <<transactions, judgment, strayed, mishaps>>

(* A read fails, or its answer is malformed or of another submission. *)
PollFails(w, t) ==
    /\ Doing(w, t, "poll") # "idle"
    /\ Does(w, t, "poll", "idle", NoSubmission) /\ Releases(w, t, "poll")
    /\ UNCHANGED <<submission, progressed, transactions, judgment, told, strayed, mishaps>>

(* A worker ends; what it had sent may have arrived.  Of what it did for a verdict, *)
(* the progression may be stored and the record not.                                *)
TrackerEnds(w) ==
    /\ Mishap
    /\ \E arrived \in SUBSET {t \in Trials : Doing(w, t, "submit") = "sending"} :
          /\ transactions' = [t \in Trials |-> transactions[t] + IF t \in arrived THEN 1 ELSE 0]
          /\ strayed' = [t \in Trials |-> strayed[t] + IF t \in arrived THEN 1 ELSE 0]
    /\ \/ UNCHANGED progressed
       \/ \E t \in Trials : /\ Doing(w, t, "poll") = "verdict" /\ judgment[t] \in Winner
                            /\ progressed' = progressed \cup {MatchOf[t]}
    /\ task' = [task EXCEPT ![w] = [t \in Trials |-> [o \in JudgeOperation |-> NoTask]]]
    /\ UNCHANGED <<submission, held, judgment, told>>

(* leaseMs pass; a worker that still sends will have sent beside another. *)
HoldLapses(t, o) ==
    /\ held[t][o] # Unheld /\ ~held[t][o].lapsed
    /\ held' = [held EXCEPT ![t][o].lapsed = TRUE]
    /\ IF Doing(held[t][o].owner, t, o) # "idle" THEN Mishap ELSE UNCHANGED mishaps
    /\ strayed' = IF o = "submit" /\ Doing(held[t][o].owner, t, o) # "idle"
                  THEN [strayed EXCEPT ![t] = @ + 1] ELSE strayed
    /\ UNCHANGED <<submission, progressed, task, transactions, judgment, told>>

TrackerStep(w, t) ==
    \/ SubmitTrial(w, t) \/ TrialSubmitted(w, t) \/ SubmitFails(w, t)
    \/ PollTrial(w, t) \/ TrialPending(w, t) \/ TrialFinal(w, t) \/ TrialJudged(w, t)
    \/ PollFails(w, t)

JudgeTrackerNext ==
    \/ \E w \in Trackers, t \in Trials : TrackerStep(w, t)
    \/ \E w \in Trackers : TrackerEnds(w)
    \/ \E t \in Trials : Judge(t) \/ \E o \in JudgeOperation : HoldLapses(t, o)

JudgeTrackerSpec == JudgeTrackerInit /\ [][JudgeTrackerNext]_trackerVars

-----------------------------------------------------------------------------
(* Properties. *)

\* A match is taken forward by one of its attempts, which its judge gave a winner, whatever
\* worker ends or is overtaken on the way.
ProgressedOnce ==
    /\ \A s, t \in told : MatchOf[s] = MatchOf[t] => s = t
    /\ \A t \in told : judgment[t] \in Winner /\ MatchOf[t] \in progressed

\* GenLayer is paid for one transaction of an attempt, and one more for every send whose
\* hash the worker did not live to store.
SubmittedOnce == \A t \in Trials : transactions[t] <= 1 + strayed[t]

\* An attempt is judged once and moves its match once.
TrackedOnce == JudgeTrackerTypeOK /\ ProgressedOnce /\ SubmittedOnce
=============================================================================
