------------------------------- MODULE MCJudging -------------------------------
(* Small instances of what is judged on GenLayer for TLC, in one run.  A         *)
(* behaviour is one scenario of one of them; the other stays as it begins.       *)
(*   MatchJudging                                                                *)
(*     overlap   two runs over one match of two attempts, with a mishap          *)
(*     bracket   one run over two matches and a final, one attempt each          *)
(*     retries   one run over one match of two attempts, with a mishap           *)
(*   Evaluation: a campaign of two scenarios                                     *)
(*     raced     two requests, two faults                                        *)
(*     single    one request, one fault                                          *)
(*   Scorecards                                                                  *)
(*     graded    every entry of TestEntries                                      *)
(*   VersionComparison                                                           *)
(*     versions  cohorts of one run over two scenarios, of two runs over one     *)
(* Liveness is asked of retries and single; safety of all.                       *)
EXTENDS MatchJudging, Evaluation, VersionComparison

CONSTANTS r1, r2, none, b1, b2, k1, k2
VARIABLE instance

OneMatch == [batches |-> <<{1}>>, rounds |-> <<1>>, retryCap |-> 2]
SmallBracket == [batches |-> <<{1, 2}, {3}>>, rounds |-> <<1, 2>>, retryCap |-> 1]
TwoInputs == {OneMatch, SmallBracket}
NoAttempts == {}
TwoRuns == {r1, r2}
TwoRequests == {r1, r2}

\* Entries: every decision and length of an answer without actions; one action or two,
\* known, forbidden, unknown, confirmed or not, with fence marks in the arguments or not;
\* answers Python does not read; and pairs of them.
Reply(decision, bytes, fences, actions) ==
    [decision |-> decision, bytes |-> bytes, fences |-> fences, legible |-> TRUE, actions |-> actions]
Silent(decision, bytes) == Reply(decision, bytes, 0, <<>>)
Fenced(bytes, fences) == Reply("RESPOND", bytes, fences, <<>>)
Illegible == [Silent("RESPOND", 1) EXCEPT !.legible = FALSE]
WithoutFences == "to" :> "to" @@ "[fence]to" :> "to" @@ "[fence]" :> ""
Proposals == {<<p>> : p \in [id : {"read", "drop", "mail"}, keys : SUBSET DOMAIN WithoutFences]}
             \cup {<<[id |-> i, keys |-> k], [id |-> j, keys |-> l]>> :
                      i, j \in {"read", "drop", "wipe"}, k \in {{"to"}, {"to", "[fence]to"}},
                      l \in {{}, {"[fence]"}}}
Acting == {Reply(d, 1, 0, x) : d \in Decisions, x \in Proposals}
Talk == [mode |-> "RESPONSE", limit |-> 0, available |-> <<>>, forbidden |-> {}, confirmed |-> {}]
Act == [mode |-> "ACTION_DECISION", limit |-> 1,
        available |-> [i \in {"read", "drop", "mail"} |->
            [keys |-> IF i = "mail" THEN {"to"} ELSE {}, confirm |-> i = "mail"]],
        forbidden |-> {"drop", "wipe"}, confirmed |-> {"read"}]
Solo(s, r, bound) == [kind |-> "SOLO", scenario |-> s, a |-> r, b |-> r, bound |-> bound]
Pair(s, r, q) == [kind |-> "PAIR", scenario |-> s, a |-> r, b |-> q, bound |-> "narrow"]
Bare == {Silent("RESPOND", 1)}
        \cup {r \in Acting : r.decision = "RESPOND" /\ Len(r.actions) = 1 /\ r.actions[1].keys = {}}
TestEntries == {Solo(Talk, Silent("RESPOND", 1), "wide"), Solo(Act, Silent("REFUSE", 1), "wide")}
        \cup {Solo(Talk, Silent(d, n), "narrow") : d \in Decisions, n \in 0..5}
        \cup {Solo(Talk, Fenced(n, m), "narrow") : n \in 1..3, m \in 1..3}
        \cup {Solo(Talk, Illegible, "narrow"), Pair(Talk, Illegible, Silent("RESPOND", 1))}
        \cup {Solo(Act, r, "narrow") : r \in Acting}
        \cup {Pair(Talk, Silent("RESPOND", n), Silent(d, 2)) : n \in 1..4, d \in {"RESPOND", "REFUSE"}}
        \cup {Pair(Talk, Fenced(2, m), Silent("RESPOND", 2)) : m \in 1..2}
        \cup {Pair(Act, r, q) : r, q \in Bare}

\* Grades: of three dimensions in order, which is every multiset of them; or all GOOD.
Tier(g) == CASE g = "EXCELLENT" -> 4 [] g = "GOOD" -> 3 [] g = "MIXED" -> 2 [] g = "POOR" -> 1
             [] OTHER -> 0
WideAndNarrow ==
    [wide |-> {g \in [Dimensions -> Grades] :
                  /\ Tier(g["instruction_adherence"]) >= Tier(g["reasoning_quality"])
                  /\ Tier(g["reasoning_quality"]) >= Tier(g["task_completion"])},
     narrow |-> {g \in [Dimensions -> {"GOOD", "NOT_APPLICABLE"}] :
                    \A d \in Dimensions \ {"action_selection"} : g[d] = "GOOD"}]
EveryRanking == [Dimensions -> Sides]

\* Campaigns of two versions; the scorecards a scenario may end with; the requests.
TwoVersions == [c \in {b1, b2, k1, k2} |->
    [version |-> IF c \in {b1, b2} THEN "v1" ELSE "v2", pack |-> "p", rubric |-> "r", runtime |-> "t"]]
AllOf(g) == [d \in Dimensions |-> IF d = "action_selection" THEN "NOT_APPLICABLE" ELSE g]
ThreeCards == {Card(AllOf("GOOD"), {}),
               Card([AllOf("GOOD") EXCEPT !["safety"] = "MIXED"], {}),
               Card([AllOf("EXCELLENT") EXCEPT !["reasoning_quality"] = "MIXED"], {"FORBIDDEN_ACTION"})}
Rules(n, coverage, drop, spread) ==
    [requiredRuns |-> n, minimumCoverageBps |-> coverage, maximumDrop |-> drop,
     maximumSpread |-> spread, critical |-> {"FORBIDDEN_ACTION"}, minimum |-> [d \in {"safety"} |-> 60]]
TwoRunsOf(rules) == [baseline |-> <<b1, b2>>, candidate |-> <<k1, k2>>, versions |-> <<"v1", "v2">>,
                     scenarios |-> 1, policy |-> rules]
OneRunOf(rules) == [baseline |-> <<b1>>, candidate |-> <<k1>>, versions |-> <<"v1", "v2">>,
                    scenarios |-> 2, policy |-> rules]
FiveAsks == {TwoRunsOf(Rules(2, 10000, 5, 20)), TwoRunsOf(Rules(2, 10000, 0, 0)),
             [TwoRunsOf(Rules(2, 10000, 100, 100)) EXCEPT !.candidate = <<k1, k1>>],
             OneRunOf(Rules(1, 5000, 0, 40)), OneRunOf(Rules(1, 10000, 10, 0))}

Matching == instance \in {"overlap", "bracket", "retries"}
Evaluating == instance \in {"raced", "single"}

\* Of the inputs, the one of the scenario.
MCInit ==
    /\ instance \in {"overlap", "bracket", "retries", "raced", "single", "graded", "versions"}
    /\ JudgingInit /\ EvaluationInit
    /\ input = IF instance = "bracket" THEN SmallBracket ELSE OneMatch
    /\ ScorecardInit /\ (instance # "graded" => entry = Solo(Talk, Silent("RESPOND", 1), "wide"))
    /\ ComparisonInit /\ (instance # "versions" => ask = OneRunOf(Rules(1, 5000, 0, 40)))

\* JudgingNext of one run, without mishaps in a bracket.
OneRunNext ==
    \/ \E i \in 1..Len(judgeTxs) : FinalizeComparison(i)
    \/ Expire
    \/ StartRun(r1) \/ AdvanceBatch(r1)
    \/ \E m \in Matches : TaskStep(r1, m)
    \/ instance = "retries" /\ (CrashRuns \/ \E m \in Matches : FailTask(r1, m))

\* EvaluationNext of one request and one fault.
OneRequestNext ==
    /\ \/ Start(r1) \/ HoldFails(r1)
       \/ Deposit \/ DelayPasses \/ Claim \/ MineClaim \/ Clock
       \/ \E i \in 1..Len(sends) : MineSettlement(i)
       \/ \E i \in 1..Len(txs) : Finalize(i)
       \/ Tick \/ Advance \/ CampaignStep \/ FeeStep
       \/ SendFails \/ ReadFails \/ SettlementFails \/ Crash
       \/ \E l \in stale : LeaseEnds(l)
    /\ faults' <= 1

MCNext ==
    /\ \/ /\ \/ instance = "overlap" /\ JudgingNext
             \/ instance \in {"bracket", "retries"} /\ OneRunNext
          /\ UNCHANGED <<evaluationVars, scorecardVars, comparisonVars>>
       \/ /\ \/ instance = "raced" /\ EvaluationNext
             \/ instance = "single" /\ OneRequestNext
          /\ UNCHANGED <<judgingVars, scorecardVars, comparisonVars>>
       \/ /\ instance = "graded" /\ ScorecardNext
          /\ UNCHANGED <<judgingVars, evaluationVars, comparisonVars>>
       \/ /\ instance = "versions" /\ ComparisonNext
          /\ UNCHANGED <<judgingVars, evaluationVars, scorecardVars>>
    /\ UNCHANGED instance

\* JudgingFairness and EvaluationFairness, of the scenarios liveness is asked of.
Retrying == instance = "retries"
Single == instance = "single"
MCFairness ==
    /\ \A i \in 1..MaxSends :
          WF_judgingVars(Retrying /\ i <= Len(judgeTxs) /\ FinalizeComparison(i))
    /\ WF_judgingVars(Retrying /\ StartRun(r1)) /\ WF_judgingVars(Retrying /\ AdvanceBatch(r1))
    /\ WF_judgingVars(Retrying /\ TaskStep(r1, 1))
    /\ WF_evaluationVars(Single /\ Tick) /\ WF_evaluationVars(Single /\ CampaignStep)
    /\ WF_evaluationVars(Single /\ FeeStep) /\ WF_evaluationVars(Single /\ Clock)
    /\ \A i \in 1..MaxSettlements :
          WF_evaluationVars(Single /\ i <= Len(sends) /\ MineSettlement(i))
    /\ \A i \in 1..MaxSubmissions : WF_evaluationVars(Single /\ i <= Len(txs) /\ Finalize(i))
    /\ \A l \in {"advance", "submit", "poll"} : WF_evaluationVars(Single /\ LeaseEnds(l))

everything == <<instance, judgingVars, evaluationVars, scorecardVars, comparisonVars>>
MCSpec == MCInit /\ [][MCNext]_everything /\ MCFairness

MCTypeOK == (Matching => JudgingTypeOK) /\ (Evaluating => EvaluationTypeOK)

(* What is derived from grades: the two judges' results agree, and a comparison's *)
(* conclusion holds.                                                             *)
MCResultsHold == /\ MCTypeOK
                 /\ instance = "graded" => JudgmentsAgree
                 /\ instance = "versions" => ConclusionsHold

MCRunsConclude == Retrying => RunsConclude
MCHeldFeeSettles == Single => HeldFeeSettles
(* Every match is concluded and every held fee settled. *)
MCJudgingConcludes == MCRunsConclude /\ MCHeldFeeSettles
=============================================================================
