--------------------------- MODULE VersionComparison ---------------------------
(***************************************************************************)
(* Two versions of an agent compared (packages/evaluation comparison.ts).  *)
(* Campaigns run on their own, one scenario after the other; the owner may *)
(* ask for a comparison of two cohorts of them at any moment and any       *)
(* number of times.  The first answer is stored under the comparison's id  *)
(* and is immutable: it contains the digest of the campaigns as they were. *)
(* One comparison id.  The scorecards are those of Scorecards.             *)
(*                                                                         *)
(* The code keeps scores as doubles of two decimals.  Scores are integers  *)
(* of hundredths here, exact for the means of 1, 2 and 4 scorecards.       *)
(***************************************************************************)
EXTENDS Scorecards

CONSTANTS Campaigns,  \* ids
          Binding,    \* for each: version, pack, rubric, runtime
          Cards,      \* bound: the scorecards a scenario may end with
          Asks,       \* bound: the cohorts and policies that may be asked for
          Nothing

VARIABLES ask,        \* what the owner asks for, and of what pack
          work,       \* the campaigns: the final scorecards in order, and failure
          comparison  \* the stored record
comparisonVars == <<ask, work, comparison>>

-----------------------------------------------------------------------------

Policy == [requiredRuns : 1..20, minimumCoverageBps : 1..10000,
           maximumDrop : 0..100, maximumSpread : 0..100, critical : SUBSET STRING,
           minimum : UNION {[ds -> 0..100] : ds \in SUBSET Dimensions}]
\* A policy has limits of its own for the overall score and for a dimension; one
\* maximumDrop and one maximumSpread stand for both.
Ask == [baseline : Seq(Campaigns), candidate : Seq(Campaigns), versions : Seq(STRING),
        scenarios : 1..32, policy : Policy]
Card(g, codes) ==
    [grades |-> g, codes |-> codes,
     overall |-> Average(g, {d \in Dimensions : g[d] # "NOT_APPLICABLE"})]

ComparisonInit == /\ ask \in Asks
                  /\ work = [c \in Campaigns |-> [cards |-> <<>>, failed |-> FALSE]]
                  /\ comparison = Nothing

Conclusive == {"PASS", "REGRESSION", "UNSTABLE"}

-----------------------------------------------------------------------------
(* The campaigns. *)

Working(c) == ~work[c].failed /\ Len(work[c].cards) < ask.scenarios

FinalizeItem(c) ==
    /\ Working(c)
    /\ \E k \in Cards : work' = [work EXCEPT ![c].cards = Append(@, k)]
    /\ UNCHANGED <<ask, comparison>>

FailItem(c) == /\ Working(c) /\ work' = [work EXCEPT ![c].failed = TRUE]
               /\ UNCHANGED <<ask, comparison>>

-----------------------------------------------------------------------------
(* What is compared. *)

Cohorts(q) == q.baseline \o q.candidate
Distinct(seq) == Cardinality(ToSet(seq)) = Len(seq)

\* firstBindingMismatch
Bound(q) ==
    LET first == Binding[q.baseline[1]]
    IN  /\ Len(q.baseline) = q.policy.requiredRuns /\ Len(q.candidate) = q.policy.requiredRuns
        /\ \A c \in ToSet(Cohorts(q)) : /\ Binding[c].pack = first.pack
                                        /\ Binding[c].runtime = first.runtime
                                        /\ Binding[c].rubric = first.rubric

Rows(cohort, i) == LET have == SelectSeq(cohort, LAMBDA c : Len(work[c].cards) >= i)
                   IN  [k \in DOMAIN have |-> work[have[k]].cards[i]]
Covered(q, cohort) == {i \in 1..ask.scenarios : Len(Rows(cohort, i)) = q.policy.requiredRuns}
CoverageBps(q) == (Cardinality(Covered(q, q.baseline) \cap Covered(q, q.candidate)) * 10000)
                  \div ask.scenarios

RowsOf(q, cohort) == FlattenSeq([i \in 1..ask.scenarios |->
                                    IF i \in Covered(q, q.baseline) THEN Rows(cohort, i) ELSE <<>>])

-----------------------------------------------------------------------------
(* Means, spreads and drops. *)

MeanOf(values) == (FoldLeft(+, 0, values) * 100) \div Len(values)

Overall(rows) == [k \in DOMAIN rows |-> rows[k].overall]
In(d, rows) == LET graded == SelectSeq(rows, LAMBDA r : r.grades[d] # "NOT_APPLICABLE")
               IN  [k \in DOMAIN graded |-> Points[graded[k].grades[d]]]
\* The overall score and the dimensions that have grades.
Measures(rows) == {Overall(rows)} \cup ({In(d, rows) : d \in Dimensions} \ {<<>>})
SpreadOf(values) == Max(ToSet(values)) - Min(ToSet(values))

\* varianceFailures: within a scenario, of either side.
Varies(q) ==
    \E cohort \in {q.baseline, q.candidate}, i \in Covered(q, q.baseline) :
        \E values \in Measures(Rows(cohort, i)) : SpreadOf(values) > q.policy.maximumSpread

Drops(q, before, after) ==
    before # <<>> /\ after # <<>> /\ MeanOf(before) - MeanOf(after) > q.policy.maximumDrop * 100

\* regressionFailures
Regresses(q) ==
    LET b == RowsOf(q, q.baseline)
        c == RowsOf(q, q.candidate)
    IN  \/ \E k \in DOMAIN c : c[k].codes \cap q.policy.critical # {}
        \/ Drops(q, Overall(b), Overall(c))
        \/ \E d \in Dimensions : Drops(q, In(d, b), In(d, c))
        \/ \E d \in DOMAIN q.policy.minimum :
              In(d, c) = <<>> \/ MeanOf(In(d, c)) < q.policy.minimum[d] * 100

-----------------------------------------------------------------------------

Digest(q) == [c \in ToSet(Cohorts(q)) |-> work[c]]

\* evaluateVersionComparison
Status(q) ==
    IF q.versions[1] = q.versions[2] \/ ~Distinct(Cohorts(q)) \/ ~Bound(q) THEN "INCOMPARABLE"
    ELSE IF \E c \in ToSet(Cohorts(q)) : work[c].failed THEN "INFRASTRUCTURE_ERROR"
    ELSE IF \/ Covered(q, q.baseline) # Covered(q, q.candidate)
            \/ CoverageBps(q) < q.policy.minimumCoverageBps THEN "INCOMPLETE"
    ELSE IF Varies(q) THEN "UNSTABLE"
    ELSE IF Regresses(q) THEN "REGRESSION" ELSE "PASS"
Evaluated(q) == [status |-> Status(q), input |-> Digest(q)]

\* createVersionComparison and compare: a second answer is only compared with the
\* first, and throws when it differs.
CompareVersions ==
    /\ \A k \in DOMAIN ask.baseline : Binding[ask.baseline[k]].version = ask.versions[1]
    /\ \A k \in DOMAIN ask.candidate : Binding[ask.candidate[k]].version = ask.versions[2]
    /\ comparison' = IF comparison = Nothing THEN Evaluated(ask) ELSE comparison
    /\ UNCHANGED <<ask, work>>

ComparisonNext == \/ CompareVersions
                  \/ \E c \in ToSet(Cohorts(ask)) : FinalizeItem(c) \/ FailItem(c)

ComparisonSpec == ComparisonInit /\ [][ComparisonNext]_comparisonVars

-----------------------------------------------------------------------------
(* Properties. *)

\* A comparison that concludes under a policy of full coverage stands: the campaigns
\* it read are over, so asking again, now or after any later step, gives the stored
\* answer and never the "conflicting immutable version comparison" error.
ConclusionsStand ==
    (comparison # Nothing /\ comparison.status \in Conclusive
        /\ ask.policy.minimumCoverageBps = 10000) =>
    Evaluated(ask) = comparison

\* What a PASS says, by sums and without means: over the scenarios every run of both
\* cohorts had finished, no scorecard of the candidate has a critical finding, and
\* neither the overall score nor a dimension both sides have fell by more than the
\* policy allows.
PassEarned ==
    (comparison # Nothing /\ comparison.status = "PASS") =>
        LET both(cohort) ==
              {<<k, i>> \in (DOMAIN cohort) \X (1..ask.scenarios) :
                  \A c \in ToSet(Cohorts(ask)) : i <= Len(comparison.input[c].cards)}
            of(cohort, x) == comparison.input[cohort[x[1]]].cards[x[2]]
            graded(cohort, d) == {x \in both(cohort) : of(cohort, x).grades[d] # "NOT_APPLICABLE"}
            points(cohort, d) ==
                MapThenSumSet(LAMBDA x : Points[of(cohort, x).grades[d]], graded(cohort, d))
            total(cohort) == MapThenSumSet(LAMBDA x : of(cohort, x).overall, both(cohort))
        IN  /\ both(ask.candidate) # {}
            /\ \A x \in both(ask.candidate) : of(ask.candidate, x).codes \cap ask.policy.critical = {}
            /\ total(ask.baseline) - total(ask.candidate)
                  <= ask.policy.maximumDrop * Cardinality(both(ask.candidate))
            /\ \A d \in Dimensions :
                  Cardinality(graded(ask.baseline, d)) = Cardinality(graded(ask.candidate, d)) =>
                  points(ask.baseline, d) - points(ask.candidate, d)
                    <= ask.policy.maximumDrop * Cardinality(graded(ask.candidate, d))

\* A conclusion that is earned, and stands.
ConclusionsHold == ConclusionsStand /\ PassEarned
=============================================================================
