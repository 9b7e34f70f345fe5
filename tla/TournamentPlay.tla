---------------------------- MODULE TournamentPlay -----------------------------
(***************************************************************************)
(* The API's tournament operations (tournament-operations-live.ts) and the *)
(* daily worker that drives them (daily-tournament.ts), in one process.    *)
(*                                                                         *)
(* A handler is the worker's tick or an operator's HTTP request.  It is    *)
(* split at its awaits and holds a copy of the stored row meanwhile.       *)
(* The escrow on Arc is external and keeps the guards of TournamentEscrow. *)
(* The orchestrator's run is one step that returns any result the state of *)
(* the verdicts allows.  The one-off bracket migration is in PublicRecord. *)
(***************************************************************************)
EXTENDS Integers, FiniteSets, FiniteSetsExt

CONSTANTS Days,          \* days on which a daily tournament may start, numbers
          Extra,         \* tournaments an operator creates by hand, not days
          ExtraStart,    \* the day those start on
          Lifetime,      \* days from start to expiry, 7
          Worker,        \* the DailyTournamentWorker
          Requests,      \* concurrent HTTP requests of the operator
          MinEntrants, MaxEntrants,
          RetryLimit,    \* automatic provider retries of an attempt, 4
          Horizon,       \* bound: last day of a behaviour
          MaxRequests,   \* bound: HTTP requests of a behaviour
          MaxFaults      \* bound: failed calls, crashes, outlived leases

Tournaments == Days \cup Extra
Handlers == {Worker} \cup Requests

ASSUME TournamentPlayAssumption ==
    /\ Days \subseteq Nat /\ Extra \subseteq Int /\ Days \cap Extra = {} /\ Tournaments # {}
    /\ ExtraStart \in Nat /\ Lifetime \in Nat \ {0}
    /\ Worker \notin Requests
    /\ MinEntrants \in 1..MaxEntrants /\ MaxEntrants \in Nat
    /\ RetryLimit \in Nat /\ Horizon \in Nat
    /\ MaxRequests \in Nat /\ MaxFaults \in Nat

VARIABLES row,       \* 'tournament-operations', the stored records
          lease,     \* 'tournament-operation-leases': tournaments leased
          intents,   \* 'daily-tournament-intents'
          retries,   \* 'daily-tournament-provider-retries', per tournament
          local,     \* what each handler holds between two awaits
          arc,       \* external: the escrow's state and entrant count
          bound,     \* external: Arc entrants the API holds a binding for
          final,     \* external: tournaments whose every verdict is final
          now,       \* the day
          asked,     \* requests so far
          faults     \* faults so far

vars == <<row, lease, intents, retries, local, arc, bound, final, now, asked, faults>>

StartsAt(t) == IF t \in Days THEN t ELSE ExtraStart  \* registration closes then
ExpiresAt(t) == StartsAt(t) + Lifetime

-----------------------------------------------------------------------------

RowState == {"REGISTRATION", "RUNNING", "WAITING_FOR_JUDGE", "SETTLEMENT_PENDING",
             "REFUND_PENDING", "COMPLETED", "REFUNDED", "RECOVERY_REQUIRED"}
\* Mutant of Terminal: a tournament that is to be refunded is over.
TerminalEarly == {"COMPLETED", "REFUNDED", "REFUND_PENDING"}
Terminal == {"COMPLETED", "REFUNDED"}

\* roster counts the frozen entrants, 0 while none are.  evidence is what
\* summarizeTournamentRecovery finds stored for the attempt of the message: the
\* judge transaction's hash, one provider answer of two, or neither.
Evidence == {"HASH", "PARTIAL", "NONE"}
Row == [state : RowState, roster : 0..MaxEntrants, ranking : BOOLEAN,
        evidence : Evidence]
Absent == [state |-> "ABSENT", roster |-> 0, ranking |-> FALSE, evidence |-> "NONE"]
FirstRow == [Absent EXCEPT !.state = "REGISTRATION"]

ArcState == {"ABSENT", "DRAFT", "REGISTRATION_CLOSED", "RUNNING", "SETTLED",
             "CANCELLED_REFUNDABLE"}
Arc == [state : ArcState, entrants : 0..MaxEntrants]

Action == {"PROGRESS", "SETTLE", "EXPIRE", "REFUND"}
Call == {"close", "mark", "settle", "cancel"}
Pc == Call \cup {"idle", "observe", "store", "progress", "roster", "run", "plan",
                 "create", "createRow"}
\* wish is the action to execute after the get, "GET" for none.  acted says
\* that execute runs, or that the refresh under way is the one it returns.
\* today is the worker's nowSeconds, taken once at the start of a tick.
Local == [pc : Pc, t : Tournaments, wish : Action \cup {"GET"}, acted : BOOLEAN,
          row : Row \cup {Absent}, today : 0..Horizon]
Idle == [pc |-> "idle", t |-> CHOOSE t \in Tournaments : TRUE, wish |-> "GET",
         acted |-> FALSE, row |-> Absent, today |-> 0]

TypeOK ==
    /\ row \in [Tournaments -> Row \cup {Absent}]
    /\ lease \subseteq Tournaments
    /\ intents \subseteq Days
    /\ retries \in [Tournaments -> 0..RetryLimit]
    /\ local \in [Handlers -> Local]
    /\ arc \in [Tournaments -> Arc]
    /\ bound \in [Tournaments -> 0..MaxEntrants]
    /\ final \subseteq Tournaments
    /\ now \in 0..Horizon /\ asked \in 0..MaxRequests /\ faults \in 0..MaxFaults

Init ==
    /\ row = [t \in Tournaments |-> Absent]
    /\ lease = {} /\ intents = {}
    /\ retries = [t \in Tournaments |-> 0]
    /\ local = [h \in Handlers |-> Idle]
    /\ arc = [t \in Tournaments |-> [state |-> "ABSENT", entrants |-> 0]]
    /\ bound = [t \in Tournaments |-> 0]
    /\ final = {}
    /\ now = 0 /\ asked = 0 /\ faults = 0

-----------------------------------------------------------------------------
(* The escrow: the state a transaction of the operator leads to.            *)

Undecided == {"DRAFT", "REGISTRATION_CLOSED", "RUNNING"}
Receipt(t, call) ==
    LET a == arc[t]
    IN  CASE call = "close" /\ a.state = "DRAFT" /\ now >= StartsAt(t)
             -> "REGISTRATION_CLOSED"
          [] /\ call = "mark" /\ a.state = "REGISTRATION_CLOSED"
             /\ now >= StartsAt(t) /\ a.entrants >= MinEntrants -> "RUNNING"
          [] call = "settle" /\ a.state = "RUNNING" -> "SETTLED"
          [] /\ call = "cancel" /\ a.state \in Undecided
             /\ \/ now >= ExpiresAt(t)
                \/ a.entrants < MinEntrants /\ now >= StartsAt(t)
             -> "CANCELLED_REFUNDABLE"
          [] OTHER -> "REVERTED"

\* A player registers, with an agent binding in the API or directly on Arc.
Register(t, binding) ==
    /\ arc[t].state = "DRAFT" /\ now < StartsAt(t)
    /\ arc[t].entrants < MaxEntrants
    /\ arc' = [arc EXCEPT ![t].entrants = @ + 1]
    /\ bound' = [bound EXCEPT ![t] = IF binding THEN @ + 1 ELSE @]
    /\ UNCHANGED <<row, lease, intents, retries, local, final, now, asked, faults>>

\* Every match of a running tournament has a finalized verdict.
VerdictsFinal(t) ==
    /\ row[t].roster > 0 /\ arc[t].state = "RUNNING" /\ t \notin final
    /\ final' = final \cup {t}
    /\ UNCHANGED <<row, lease, intents, retries, local, arc, bound, now, asked, faults>>

Tick ==
    /\ now < Horizon
    /\ now' = now + 1
    /\ UNCHANGED <<row, lease, intents, retries, local, arc, bound, final, asked, faults>>

-----------------------------------------------------------------------------
(* Rows. *)

As(r, state) == [r EXCEPT !.state = state, !.evidence = "NONE"]
ApplyArcTerminal(r, a) ==
    IF a.state = "SETTLED" THEN As(r, "COMPLETED")
    ELSE IF a.state = "CANCELLED_REFUNDABLE" THEN As(r, "REFUNDED")
    ELSE IF /\ a.state = "RUNNING" /\ ~r.ranking
            /\ r.state \notin {"WAITING_FOR_JUDGE", "RECOVERY_REQUIRED"}
         THEN As(r, "RUNNING") ELSE r

\* What the orchestrator may answer, as rows.  With every verdict final only
\* expiry keeps it from the ranking.
Answers(t, r) ==
    LET ranked == [As(r, "SETTLEMENT_PENDING") EXCEPT !.ranking = TRUE]
        stopped == As(r, IF now >= ExpiresAt(t) THEN "REFUND_PENDING"
                         ELSE "RECOVERY_REQUIRED")
        recovery(e) == [r EXCEPT !.state = "RECOVERY_REQUIRED", !.evidence = e]
    IN  IF t \in final
        THEN {ranked} \cup (IF now >= ExpiresAt(t) THEN {stopped} ELSE {})
        ELSE {As(r, "WAITING_FOR_JUDGE"), stopped}
             \cup {recovery(e) : e \in Evidence}

NextActions(r) ==
    CASE r.state = "SETTLEMENT_PENDING" -> {"SETTLE", "EXPIRE"}
      [] r.state = "REFUND_PENDING" -> {"REFUND"}
      [] r.state \in Terminal -> {}
      [] OTHER -> {"PROGRESS", "EXPIRE"}

-----------------------------------------------------------------------------
(* One handler. *)

Environment == <<bound, final, now>>
At(h, pc) == local[h].pc = pc
Goto(h, l) == local' = [local EXCEPT ![h] = l]

\* A call threw: execute's finally releases the lease, which is the process's
\* own whichever of its handlers claimed it.
Throw(h) == /\ Goto(h, Idle)
            /\ lease' = IF local[h].acted THEN lease \ {local[h].t} ELSE lease

\* execute reads the stored row r and claims the lease without an await between.
\* SETTLE without a ranking throws at once.
First(wish) == CASE wish = "PROGRESS" -> "progress" [] wish = "SETTLE" -> "settle"
                 [] OTHER -> "cancel"
Execute(h, t, wish, r) ==
    IF t \in lease \/ (wish = "SETTLE" /\ ~r.ranking)
    THEN Goto(h, Idle) /\ UNCHANGED lease
    ELSE /\ lease' = lease \cup {t}
         /\ Goto(h, [local[h] EXCEPT !.pc = First(wish), !.wish = wish, !.row = r,
                                     !.acted = TRUE])

\* refresh: a snapshot of Arc ...
Observe(h) ==
    /\ At(h, "observe")
    /\ Goto(h, [local[h] EXCEPT !.pc = "store",
                                !.row = ApplyArcTerminal(@, arc[local[h].t])])
    /\ UNCHANGED <<row, lease, intents, retries, arc, asked, faults>>
    /\ UNCHANGED Environment

\* Mutant of ActionFor: recovery never expires.
ActionForUnexpired(r, t, today) ==
    CASE r.state = "SETTLEMENT_PENDING" -> "SETTLE"
      [] r.state = "REFUND_PENDING" -> "REFUND"
      [] r.state \in {"REGISTRATION", "RUNNING", "WAITING_FOR_JUDGE"} -> "PROGRESS"
      [] OTHER -> "GET"

\* actionFor, and for a row in recovery the two claims that allow another try.
ActionFor(r, t, today) ==
    CASE r.state = "SETTLEMENT_PENDING" -> "SETTLE"
      [] r.state = "REFUND_PENDING" -> "REFUND"
      [] r.state \notin {"SETTLEMENT_PENDING", "REFUND_PENDING"} /\ today >= ExpiresAt(t)
         -> "EXPIRE"
      [] today < ExpiresAt(t) /\ r.state \in {"REGISTRATION", "RUNNING", "WAITING_FOR_JUDGE"}
         -> "PROGRESS"
      [] OTHER -> IF r.evidence = "HASH" \/ (r.evidence = "PARTIAL" /\ retries[t] < RetryLimit)
                  THEN "PROGRESS" ELSE "GET"

\* ... and the copy goes back over the stored row.  The worker decides what to
\* do with the snapshot, an operator's request goes on if its action is allowed.
Store(h) ==
    LET l == local[h]
        wish == IF h = Worker THEN ActionFor(l.row, l.t, l.today) ELSE l.wish
        goes == /\ ~l.acted /\ l.row.state \notin Terminal /\ wish # "GET"
                /\ IF h = Worker THEN l.today >= StartsAt(l.t)
                   ELSE wish \in NextActions(l.row)
    IN  /\ At(h, "store")
        /\ row' = [row EXCEPT ![l.t] = l.row]
        /\ IF goes THEN Execute(h, l.t, wish, l.row)
           ELSE /\ Goto(h, IF h = Worker /\ l.row.state \in Terminal
                           THEN [Idle EXCEPT !.pc = "plan", !.today = l.today] ELSE Idle)
                /\ UNCHANGED lease
        /\ retries' = IF /\ h = Worker /\ goes /\ wish = "PROGRESS"
                        /\ l.row.state = "RECOVERY_REQUIRED" /\ l.row.evidence = "PARTIAL"
                      THEN [retries EXCEPT ![l.t] = @ + 1] ELSE retries
        /\ UNCHANGED <<intents, arc, asked, faults>> /\ UNCHANGED Environment

\* execute stores the row and returns the promise of a refresh: the finally
\* releases the lease before that refresh has written.
Save(h, r) == /\ row' = [row EXCEPT ![local[h].t] = r]
              /\ lease' = lease \ {local[h].t}
              /\ Goto(h, [local[h] EXCEPT !.pc = "observe", !.row = r])

\* What progress does with the state of Arc it saw, closed to registration.
Route(h, state) ==
    LET l == local[h]
        short == arc[l.t].entrants < MinEntrants
        save == CASE state = "REGISTRATION_CLOSED" /\ short
                     -> {[l.row EXCEPT !.state = "REFUND_PENDING"]}
                  [] state = "REGISTRATION_CLOSED" /\ ~short /\ now < StartsAt(l.t)
                     -> {[l.row EXCEPT !.state = "REGISTRATION"]}
                  [] state = "REGISTRATION_CLOSED" /\ ~short /\ now >= StartsAt(l.t) -> {}
                  [] state = "RUNNING" -> {}
                  [] OTHER -> {ApplyArcTerminal(l.row, [arc[l.t] EXCEPT !.state = state])}
    IN  IF save = {}
        THEN /\ Goto(h, [l EXCEPT !.pc = IF state = "RUNNING" THEN "roster" ELSE "mark"])
             /\ UNCHANGED <<row, lease>>
        ELSE \E r \in save : Save(h, r)

Progress(h) ==
    LET l == local[h]
    IN  /\ At(h, "progress")
        /\ IF arc[l.t].state = "DRAFT" /\ now >= StartsAt(l.t)
           THEN Goto(h, [l EXCEPT !.pc = "close"]) /\ UNCHANGED <<row, lease>>
           ELSE Route(h, arc[l.t].state)
        /\ UNCHANGED <<intents, retries, arc, asked, faults>> /\ UNCHANGED Environment

\* A transaction: simulated, sent and awaited.  It reverts when the state has
\* moved on.  A receipt that does not come throws although Arc has changed.
Send(h) ==
    LET l == local[h]
        state == Receipt(l.t, l.pc)
    IN  /\ l.pc \in Call
        /\ IF state = "REVERTED"
           THEN Throw(h) /\ UNCHANGED <<row, arc, faults>>
           ELSE /\ arc' = [arc EXCEPT ![l.t].state = state]
                /\ \/ /\ \/ l.pc = "close" /\ Route(h, state)
                         \/ /\ l.pc = "mark" /\ Goto(h, [l EXCEPT !.pc = "roster"])
                            /\ UNCHANGED <<row, lease>>
                         \/ /\ l.pc \in {"settle", "cancel"}
                            /\ Save(h, ApplyArcTerminal(l.row, [arc[l.t] EXCEPT !.state = state]))
                      /\ UNCHANGED faults
                   \/ /\ faults < MaxFaults /\ faults' = faults + 1
                      /\ Throw(h) /\ UNCHANGED row
        /\ UNCHANGED <<intents, retries, asked>> /\ UNCHANGED Environment

\* Mutant of Roster: the entrants bound so far will do.
RosterAsBound(h) ==
    LET l == local[h]
        frozen == [l.row EXCEPT !.roster = bound[l.t]]
    IN  /\ At(h, "roster")
        /\ row' = [row EXCEPT ![l.t] = frozen]
        /\ Goto(h, [l EXCEPT !.pc = "run", !.row = frozen])
        /\ UNCHANGED <<lease, intents, retries, arc, asked, faults>>
        /\ UNCHANGED Environment

\* The roster and the bracket's seed are frozen once and stored before the run.
\* An entrant without a binding in the API stops it here.
Roster(h) ==
    LET l == local[h]
        frozen == [l.row EXCEPT !.roster = bound[l.t]]
        complete == bound[l.t] = arc[l.t].entrants /\ bound[l.t] >= MinEntrants
    IN  /\ At(h, "roster")
        /\ CASE l.row.roster > 0 ->
                  Goto(h, [l EXCEPT !.pc = "run"]) /\ UNCHANGED <<row, lease>>
             [] l.row.roster = 0 /\ complete ->
                  /\ row' = [row EXCEPT ![l.t] = frozen]
                  /\ Goto(h, [l EXCEPT !.pc = "run", !.row = frozen])
                  /\ UNCHANGED lease
             [] OTHER -> Throw(h) /\ UNCHANGED row
        /\ UNCHANGED <<intents, retries, arc, asked, faults>> /\ UNCHANGED Environment

Run(h) ==
    /\ At(h, "run")
    /\ \E r \in Answers(local[h].t, local[h].row) : Save(h, r)
    /\ UNCHANGED <<intents, retries, arc, asked, faults>> /\ UNCHANGED Environment

\* create: Arc first (again is fine, the policy is the same), then the row.
Create(h) ==
    LET t == local[h].t
    IN  /\ At(h, "create")
        /\ arc' = IF arc[t].state = "ABSENT" THEN [arc EXCEPT ![t].state = "DRAFT"] ELSE arc
        /\ Goto(h, [local[h] EXCEPT !.pc = "createRow"])
        /\ UNCHANGED <<row, lease, intents, retries, asked, faults>>
        /\ UNCHANGED Environment
CreateRow(h) ==
    /\ At(h, "createRow")
    /\ row' = [row EXCEPT ![local[h].t] = FirstRow]
    /\ Goto(h, Idle)
    /\ UNCHANGED <<lease, intents, retries, arc, asked, faults>> /\ UNCHANGED Environment

-----------------------------------------------------------------------------
(* The worker's tick, and an operator's requests. *)

\* Get tournament t, or create it.
Visit(t, today) ==
    Goto(Worker, [Idle EXCEPT !.t = t, !.row = row[t], !.today = today,
                              !.pc = IF row[t] = Absent THEN "create" ELSE "observe"])

Wake ==
    /\ At(Worker, "idle")
    /\ IF intents = {} THEN Goto(Worker, [Idle EXCEPT !.pc = "plan", !.today = now])
       ELSE Visit(Max(intents), now)
    /\ UNCHANGED <<row, lease, intents, retries, arc, asked, faults>>
    /\ UNCHANGED Environment

\* The next day's tournament, once every listed one is terminal.
Plan ==
    LET t == local[Worker].today + 1
        listed == [u \in Tournaments |-> IF row[u] = Absent THEN Absent
                                         ELSE ApplyArcTerminal(row[u], arc[u])]
    IN  /\ At(Worker, "plan")
        /\ row' = listed
        /\ IF t \in Days /\ \A u \in Tournaments :
                                 listed[u] = Absent \/ listed[u].state \in Terminal
           THEN intents' = intents \cup {t} /\ Visit(t, local[Worker].today)
           ELSE Goto(Worker, Idle) /\ UNCHANGED intents
        /\ UNCHANGED <<lease, retries, arc, asked, faults>> /\ UNCHANGED Environment

\* The operator asks for a tournament, or for one to be executed, or created.
Ask(h, t, wish) ==
    /\ At(h, "idle") /\ asked < MaxRequests /\ asked' = asked + 1
    /\ row[t] # Absent
    /\ Goto(h, [Idle EXCEPT !.t = t, !.row = row[t], !.wish = wish, !.pc = "observe"])
    /\ UNCHANGED <<row, lease, intents, retries, arc, faults>> /\ UNCHANGED Environment
AskCreate(h, t) ==
    /\ At(h, "idle") /\ asked < MaxRequests /\ asked' = asked + 1
    /\ row[t] = Absent /\ now < StartsAt(t)
    /\ Goto(h, [Idle EXCEPT !.t = t, !.pc = "create"])
    /\ UNCHANGED <<row, lease, intents, retries, arc, faults>> /\ UNCHANGED Environment

-----------------------------------------------------------------------------
(* Faults: a call of a handler throws, the process ends (a new one of the   *)
(* same process id releases its leases, another leaves them), a lease ends  *)
(* after ten minutes with its holder still running.                         *)

Fault == faults < MaxFaults /\ faults' = faults + 1
Fail(h) == /\ Fault /\ local[h].pc \notin {"idle", "plan", "store"}
           /\ Throw(h)
           /\ UNCHANGED <<row, intents, retries, arc, asked>> /\ UNCHANGED Environment
Crash == /\ Fault
         /\ local' = [h \in Handlers |-> Idle]
         /\ lease' \in {{}, lease}
         /\ UNCHANGED <<row, intents, retries, arc, asked>> /\ UNCHANGED Environment
Lapse(t) == /\ t \in lease
            /\ lease' = lease \ {t}
            /\ IF \E h \in Handlers : local[h].acted /\ local[h].t = t
               THEN Fault ELSE UNCHANGED faults
            /\ UNCHANGED <<row, intents, retries, local, arc, asked>>
            /\ UNCHANGED Environment

Step(h) == \/ Observe(h) \/ Store(h) \/ Progress(h) \/ Send(h)
           \/ Roster(h) \/ Run(h) \/ Create(h) \/ CreateRow(h)

Next ==
    \/ \E t \in Tournaments, binding \in BOOLEAN : Register(t, binding)
    \/ \E t \in Tournaments : VerdictsFinal(t)
    \/ Tick
    \/ \E h \in Handlers : Step(h)
    \/ Wake \/ Plan
    \/ \E h \in Requests, t \in Tournaments, wish \in Action \cup {"GET"} : Ask(h, t, wish)
    \/ \E h \in Requests, t \in Extra : AskCreate(h, t)
    \/ \E h \in Handlers : Fail(h)
    \/ Crash
    \/ \E t \in Tournaments : Lapse(t)

Spec == Init /\ [][Next]_vars

\* Time passes, the process runs the handlers it has, the worker's timer starts
\* the next tick and a lease ends by its clock.  Nobody has to register, no
\* verdict has to come and no operator has to ask.
Fairness ==
    /\ WF_vars(Tick) /\ WF_vars(Wake) /\ WF_vars(Plan)
    /\ \A h \in Handlers : WF_vars(Step(h))
    /\ \A t \in Tournaments : WF_vars(Lapse(t))

FairSpec == Spec /\ Fairness

-----------------------------------------------------------------------------
(* Properties. *)

\* A stored row says COMPLETED only of a tournament Arc has settled and REFUNDED
\* only of one whose refunds Arc has opened, whichever stale copy was stored.
TerminalTruthful ==
    \A t \in Tournaments :
        /\ row[t].state = "COMPLETED" => arc[t].state = "SETTLED"
        /\ row[t].state = "REFUNDED" => arc[t].state = "CANCELLED_REFUNDABLE"

\* The roster the bracket is built from is the whole roster of Arc, however many
\* handlers froze or overwrote it.
RosterIsArcs ==
    \A t \in Tournaments : row[t].roster > 0 => row[t].roster = arc[t].entrants

\* Arc holds one undecided daily tournament at a time, although the intent, the
\* escrow's tournament and the row are written one after the other.
OneDailyAtATime ==
    Cardinality({t \in Days : arc[t].state \in Undecided}) <= 1

\* No prize is paid of a tournament without a final verdict for every match.
PaidOnVerdicts == \A t \in Tournaments : arc[t].state = "SETTLED" => t \in final

\* A prize is paid for a whole bracket and for a decided one, and a row that says
\* how a tournament ended says how it ended on Arc.
PrizesEarned == TypeOK /\ RosterIsArcs /\ PaidOnVerdicts /\ TerminalTruthful

\* Every daily tournament on Arc comes to a stored end that lasts: it is settled
\* or refunded, through failed calls, crashes, outlived leases and requests
\* that write a stale row back.
DailyEnds ==
    \A t \in Days : <>[](arc[t].state = "ABSENT" \/ row[t].state \in Terminal)
=============================================================================
