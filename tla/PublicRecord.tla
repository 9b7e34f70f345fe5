----------------------------- MODULE PublicRecord -----------------------------
(***************************************************************************)
(* What the public reads of one tournament's matches, and the change of a  *)
(* running tournament to bracket revision 2:                               *)
(* src/services/api/src/service.ts (publishMatch, publishVerdict,          *)
(* archiveTournamentMatches) and tournament-operations-live.ts.            *)
(*                                                                         *)
(* The service keeps its maps equal to its tables, so one variable stands  *)
(* for both.  A call runs to its end without an await, but the process may *)
(* end between any two of its writes: todo holds the ones still to come.   *)
(***************************************************************************)
EXTENDS Naturals, Sequences

CONSTANTS Matches,      \* of both revisions, which share none
          BracketOrder, \* the matches of a revision, as buildBracket lists them
          Opening,      \* the matches between two entrants, from the start
          Facts,        \* metadata of a verdict
          MaxEvents,    \* 24
          None

VARIABLES public,    \* api-matches
          log,       \* api-match-events
          verdicts,  \* api-verdicts
          archive,   \* api-tournament-match-archives: the row of revision 1, if any
          revision,  \* tournament-operations: bracketRevision
          over,      \* tournament-operations: COMPLETED or REFUNDED
          settling,  \* the revision in the record a SETTLE holds while Arc works; 0: none
          migrating, \* the build lists this tournament for the migration
          todo       \* the writes a call has still to make

recordVars == <<public, log, verdicts, archive, revision, over, settling, migrating, todo>>

Sides == {"A", "B"}
MatchRows == [state : {"SCHEDULED", "JUDGING", "RETRYABLE"}, winner : {None}, staged : BOOLEAN]
             \cup [state : {"FINALIZED"}, winner : Sides, staged : BOOLEAN]
Verdicts == [winner : Sides, facts : SUBSET Facts]
Terminal == {"FINALIZED", "WINNER_ADVANCED", "TIE"}

ASSUME RecordAssumption ==
    /\ BracketOrder \in [{1, 2} -> Seq(Matches)]
    /\ Opening \subseteq Matches
    /\ MaxEvents \in Nat \ {0}
    /\ None \notin MatchRows \cup Verdicts

\* One iteration of the loops over a bracket, the event after a row, the deletes of
\* an archived match, and the record's own write.
Steps == [do : {"open", "publish", "event", "drop match", "drop events", "drop verdict"},
          match : Matches]
         \cup [do : {"revise"}]

\* Rows of revision 1 that an earlier build published had no stage.
RecordInit ==
    /\ public \in [Matches -> {None} \cup {r \in MatchRows : ~r.staged}]
    /\ \A m \in Matches : public[m] # None => \E i \in DOMAIN BracketOrder[1] : BracketOrder[1][i] = m
    /\ log = [m \in Matches |-> IF public[m] = None THEN <<>> ELSE <<public[m].state>>]
    /\ verdicts = [m \in Matches |-> None]
    /\ archive = {}
    /\ revision = 1 /\ over = FALSE /\ settling = 0 /\ migrating = FALSE
    /\ todo = <<>>

-----------------------------------------------------------------------------
(* Begin: what a call will write. *)

Idle == todo = <<>>
\* Every refresh and every PROGRESS migrates first.
MustMigrate == migrating /\ revision = 1 /\ ~over

OpenBracket(r) ==
    todo' = [i \in DOMAIN BracketOrder[r] |-> [do |-> "open", match |-> BracketOrder[r][i]]]

\* A GET or the end of an action: what Arc says of the tournament is final or not.
Refresh(final) ==
    /\ Idle /\ ~MustMigrate
    /\ over' = (over \/ final)
    /\ OpenBracket(revision)
    /\ UNCHANGED <<public, log, verdicts, archive, revision, settling, migrating>>

PublishMatchProgress ==
    /\ Idle /\ ~MustMigrate
    /\ todo' = [i \in DOMAIN BracketOrder[revision] |->
                   [do |-> "publish", match |-> BracketOrder[revision][i]]]
    /\ UNCHANGED <<public, log, verdicts, archive, revision, over, settling, migrating>>

\* A SETTLE keeps its copy of the record while Arc works, and does not migrate.
SettleBegin ==
    /\ Idle /\ settling = 0
    /\ settling' = revision
    /\ UNCHANGED <<public, log, verdicts, archive, revision, over, migrating, todo>>

SettleEnd ==
    /\ Idle /\ settling # 0
    /\ revision' = settling /\ settling' = 0
    /\ over' = TRUE
    /\ OpenBracket(settling)
    /\ UNCHANGED <<public, log, verdicts, archive, migrating>>

SettleFail ==
    /\ Idle /\ settling # 0
    /\ settling' = 0
    /\ UNCHANGED <<public, log, verdicts, archive, revision, over, migrating, todo>>

\* An enrichment keeps the result and every fact, and adds some.
CanEnrichVerdict(existing, next) ==
    existing.winner = next.winner /\ existing.facts \subseteq next.facts

PublishVerdict(m, v) ==
    /\ Idle /\ public[m] # None
    /\ verdicts[m] # None => CanEnrichVerdict(verdicts[m], v)
    /\ verdicts' = [verdicts EXCEPT ![m] = v]
    /\ UNCHANGED <<public, log, archive, revision, over, settling, migrating, todo>>

\* An earlier archive that is not the same to the second is a conflict: after a
\* crash between the archive and the record's write, at every call from then on.
Archived == [public |-> public, log |-> log, verdicts |-> verdicts]
ArchiveTournamentMatches(sameSecond) ==
    /\ Idle /\ MustMigrate
    /\ archive # {} => sameSecond /\ archive = {Archived}
    /\ archive' = {Archived}
    /\ todo' = [i \in 1..Len(BracketOrder[1]) + 1 |->
                   IF i <= Len(BracketOrder[1])
                   THEN [do |-> "drop match", match |-> BracketOrder[1][i]]
                   ELSE [do |-> "revise"]]
    /\ UNCHANGED <<public, log, verdicts, revision, over, settling, migrating>>

-----------------------------------------------------------------------------
(* The writes. *)

\* A row keeps the stage it has.
Stored(m, row) ==
    [row EXCEPT !.staged = @ \/ (public[m] # None /\ public[m].staged)]

\* Mutant of MatchRefused: a final row may be published again under another state.
MatchRefusedSame(m, row) ==
    public[m] # None /\ public[m].state = row.state /\ public[m] # row
    /\ [public[m] EXCEPT !.staged = TRUE] # row

\* A final row stays as it is, but for the stage an earlier build left out.
MatchRefused(m, row) ==
    /\ public[m] # None /\ public[m].state \in Terminal
    /\ public[m] # row /\ [public[m] EXCEPT !.staged = TRUE] # row

Logged(m, row) == public[m] = None \/ public[m].state # row.state

\* The rows a step may publish: whatever a run of the bracket reports, a later run
\* perhaps less than an earlier one.
Offered(s) ==
    IF s.do = "publish" THEN {r \in MatchRows : r.staged}
    ELSE IF s.match \in Opening /\ public[s.match] = None
         THEN {[state |-> "SCHEDULED", winner |-> None, staged |-> TRUE]} ELSE {}

\* A match with a player yet unknown, one that is no opening match, one there is.
SkipMatch ==
    /\ ~Idle
    /\ todo[1].do = "publish" \/ (todo[1].do = "open" /\ Offered(todo[1]) = {})
    /\ todo' = Tail(todo)
    /\ UNCHANGED <<public, log, verdicts, archive, revision, over, settling, migrating>>

\* A row that is refused throws, and ends the call.
PublishMatch(offered) ==
    /\ ~Idle /\ todo[1].do \in {"open", "publish"}
    /\ offered \in Offered(todo[1])
    /\ LET m == todo[1].match
           row == Stored(m, offered)
       IN IF MatchRefused(m, row) THEN todo' = <<>> /\ UNCHANGED public
          ELSE /\ public' = [public EXCEPT ![m] = row]
               /\ todo' = IF Logged(m, row) THEN [todo EXCEPT ![1].do = "event"] ELSE Tail(todo)
    /\ UNCHANGED <<log, verdicts, archive, revision, over, settling, migrating>>

WriteEvent ==
    /\ ~Idle /\ todo[1].do = "event"
    /\ LET m == todo[1].match
           all == Append(log[m], public[m].state)
       IN log' = [log EXCEPT ![m] = IF Len(all) <= MaxEvents THEN all ELSE Tail(all)]
    /\ todo' = Tail(todo)
    /\ UNCHANGED <<public, verdicts, archive, revision, over, settling, migrating>>

DropMatch ==
    /\ ~Idle /\ todo[1].do = "drop match"
    /\ public' = [public EXCEPT ![todo[1].match] = None]
    /\ todo' = [todo EXCEPT ![1].do = "drop events"]
    /\ UNCHANGED <<log, verdicts, archive, revision, over, settling, migrating>>

DropEvents ==
    /\ ~Idle /\ todo[1].do = "drop events"
    /\ log' = [log EXCEPT ![todo[1].match] = <<>>]
    /\ todo' = [todo EXCEPT ![1].do = "drop verdict"]
    /\ UNCHANGED <<public, verdicts, archive, revision, over, settling, migrating>>

DropVerdict ==
    /\ ~Idle /\ todo[1].do = "drop verdict"
    /\ verdicts' = [verdicts EXCEPT ![todo[1].match] = None]
    /\ todo' = Tail(todo)
    /\ UNCHANGED <<public, log, archive, revision, over, settling, migrating>>

WriteRevision ==
    /\ ~Idle /\ todo[1].do = "revise"
    /\ revision' = 2
    /\ todo' = Tail(todo)
    /\ UNCHANGED <<public, log, verdicts, archive, over, settling, migrating>>

\* The process ends, between two writes or while Arc works.
ProcessCrash ==
    /\ ~Idle \/ settling # 0
    /\ todo' = <<>> /\ settling' = 0
    /\ UNCHANGED <<public, log, verdicts, archive, revision, over, migrating>>

\* A build with the tournament in ROLLING_BYE_MIGRATIONS starts.
Deploy ==
    /\ Idle /\ ~migrating
    /\ migrating' = TRUE /\ settling' = 0
    /\ UNCHANGED <<public, log, verdicts, archive, revision, over, todo>>

RecordNext ==
    \/ \E final \in BOOLEAN : Refresh(final)
    \/ PublishMatchProgress
    \/ SettleBegin \/ SettleEnd \/ SettleFail
    \/ \E m \in Matches, v \in Verdicts : PublishVerdict(m, v)
    \/ \E sameSecond \in BOOLEAN : ArchiveTournamentMatches(sameSecond)
    \/ SkipMatch \/ WriteEvent
    \/ \E offered \in MatchRows : PublishMatch(offered)
    \/ DropMatch \/ DropEvents \/ DropVerdict \/ WriteRevision
    \/ ProcessCrash \/ Deploy

RecordSpec == RecordInit /\ [][RecordNext]_recordVars

-----------------------------------------------------------------------------
(* Properties. *)

Logs == {s \in Seq({"SCHEDULED", "JUDGING", "RETRYABLE", "FINALIZED"}) : Len(s) <= MaxEvents}

RecordTypeOK ==
    /\ public \in [Matches -> MatchRows \cup {None}]
    /\ log \in [Matches -> Logs]
    /\ verdicts \in [Matches -> Verdicts \cup {None}]
    /\ revision \in {1, 2} /\ settling \in 0..2
    /\ over \in BOOLEAN /\ migrating \in BOOLEAN
    /\ todo \in Seq(Steps)

\* A result the public was shown is not taken back: a final match keeps its winner,
\* and a verdict its winner and its facts, until both stand in the archive as they
\* were; and the archive never changes.  Whatever later runs report, whichever copy
\* of the record a call holds, and wherever the process ends.
ResultsKept ==
    /\ archive # {} => archive' = archive
    /\ \A m \in Matches :
          /\ public[m] # None /\ public[m].state = "FINALIZED" =>
                \/ public'[m] # None /\ public'[m].state = "FINALIZED" /\ public'[m].winner = public[m].winner
                \/ \E a \in archive' : a.public[m] = public[m]
          /\ verdicts[m] # None =>
                \/ verdicts'[m] # None /\ CanEnrichVerdict(verdicts[m], verdicts'[m])
                \/ \E a \in archive' : a.verdicts[m] = verdicts[m]
NothingLost == []RecordTypeOK /\ [][ResultsKept]_recordVars
=============================================================================
