------------------------- MODULE PairRoomCoordinator -------------------------
(***************************************************************************)
(* The API's pair-room requests: create, join and the four actions of      *)
(* PairRoomCoordinator (src/services/api/src/pair-rooms.ts).  A handler    *)
(* keeps the row it read when it started, and writes its own copy back.    *)
(***************************************************************************)
EXTENDS PairStore

CONSTANT Handlers          \* requests served at the same time

VARIABLE req               \* each handler's request

Idle == [at |-> "idle"]
Request(at, who, kind, copy) ==
    [at |-> at, who |-> who, kind |-> kind, copy |-> copy]

RequestStops == {"create", "createApproved", "created", "createRead",
                 "join", "joinChecked", "joinApproved", "joined", "joinRead",
                 "act", "acted", "cancelled"}
Requests == [at : RequestStops,
             who : Principals, kind : UserKinds \cup {"CREATE", "JOIN"},
             copy : Row]

Begin(h, r) == req[h] = Idle /\ req' = [req EXCEPT ![h] = r]
At(h, at) == req[h] # Idle /\ req[h].at = at
Goes(h, at) == req' = [req EXCEPT ![h].at = at]
Keeps(h, at, copy) == req' = [req EXCEPT ![h].at = at, ![h].copy = copy]
Returns(h) == req' = [req EXCEPT ![h] = Idle]

\* The handler writes its copy of the row over whatever is stored.
Puts(copy) == row' = copy

RestFixed == UNCHANGED <<chain, now, settleIntent, refundIntent, progress,
                         lease, pool, judge, faults>>

-----------------------------------------------------------------------------
(* create *)

\* A room that is past PENDING is returned as it is.
StartCreate(h) ==
    /\ row.state \in {"NONE", "PENDING"}
    /\ Begin(h, Request("create", Creator, "CREATE", row))
    /\ RestFixed /\ UNCHANGED <<row, joinIntent, circle>>

\* The clock of the model starts when a new intent fixes the two deadlines.
MayCreate(h) ==
    /\ row.state = "NONE" => now = 0
    /\ req[h].copy.state = "NONE" => usdc[Creator] >= Stake

\* putIfAbsent: the intent that counts is the stored one.
PersistIntent(h) ==
    LET intent == IF row.state = "NONE" THEN [NoRow EXCEPT !.state = "PENDING"]
                                        ELSE row
    IN  /\ At(h, "create")
        /\ MayCreate(h)
        /\ Puts(intent)
        /\ IF intent.createTx
           THEN Keeps(h, "createRead", intent) /\ UNCHANGED circle
           ELSE /\ Keeps(h, "createApproved", intent)
                /\ circle' = Submitted({<<"APPROVE", Creator>>})
        /\ RestFixed /\ UNCHANGED joinIntent

SubmitCreate(h) ==
    /\ At(h, "createApproved")
    /\ Completed("APPROVE", Creator)
    /\ circle' = Submitted({<<"CREATE", Creator>>})
    /\ Goes(h, "created")
    /\ RestFixed /\ UNCHANGED <<row, joinIntent>>

\* The transaction hash is stored before Arc is read back.
RecordCreateTx(h) ==
    LET copy == [req[h].copy EXCEPT !.createTx = TRUE]
    IN  /\ At(h, "created")
        /\ Completed("CREATE", Creator)
        /\ Puts(copy)
        /\ Keeps(h, "createRead", copy)
        /\ RestFixed /\ UNCHANGED <<joinIntent, circle>>

ConfirmCreate(h) ==
    /\ At(h, "createRead")
    /\ IF onArc.state = "OPEN"
       THEN Puts([req[h].copy EXCEPT !.state = "OPEN"])
       ELSE UNCHANGED row
    /\ Returns(h)
    /\ RestFixed /\ UNCHANGED <<joinIntent, circle>>

-----------------------------------------------------------------------------
(* join *)

StartJoin(h, p) ==
    /\ row.state = "OPEN" \/ (row.state = "JOINING" /\ row.challenger = p)
    /\ Begin(h, Request("join", p, "JOIN", row))
    /\ RestFixed /\ UNCHANGED <<row, joinIntent, circle>>

JoinedOnArcBy(p) == onArc.state = "JOINED" /\ onArc.challenger = p

\* The join was confirmed on Arc before: only the record is behind.
MayRecover(h) == JoinedOnArcBy(req[h].who) /\ req[h].copy.joinTx

RecoverJoin(h) ==
    /\ At(h, "join") /\ MayRecover(h)
    /\ Puts([req[h].copy EXCEPT !.state = "JOINED", !.stage = "QUEUED"])
    /\ Returns(h)
    /\ RestFixed /\ UNCHANGED <<joinIntent, circle>>

\* Arc takes the join, or took it before its hash was stored.
MayJoin(h) ==
    \/ onArc.state = "OPEN" /\ now < onArc.joinDeadline
    \/ /\ req[h].copy.state = "JOINING" /\ ~req[h].copy.joinTx
       /\ JoinedOnArcBy(req[h].who)

CheckJoin(h) ==
    /\ At(h, "join") /\ ~MayRecover(h) /\ MayJoin(h)
    /\ Goes(h, "joinChecked")
    /\ RestFixed /\ UNCHANGED <<row, joinIntent, circle>>

\* Mutant of MayReserve: the stored reservation is not compared.
MayReserveAny(h) == req[h].copy.state = "OPEN" => usdc[req[h].who] >= Stake

MayReserve(h) ==
    /\ req[h].copy.state = "OPEN" => usdc[req[h].who] >= Stake
    /\ joinIntent \in {None, req[h].who}

\* putIfAbsent of the reservation, then the row becomes JOINING; only the
\* challenger that holds the reservation goes on.
ReserveJoin(h) ==
    LET p == req[h].who
        copy == req[h].copy
        pending == IF copy.state = "JOINING" THEN copy
                   ELSE [copy EXCEPT !.state = "JOINING", !.challenger = p]
    IN  /\ At(h, "joinChecked") /\ MayReserve(h)
        /\ joinIntent' = p
        /\ IF copy.state = "OPEN" THEN Puts(pending) ELSE UNCHANGED row
        /\ circle' = Submitted({<<"APPROVE", p>>})
        /\ Keeps(h, "joinApproved", pending)
        /\ RestFixed

SubmitJoin(h) ==
    /\ At(h, "joinApproved")
    /\ Completed("APPROVE", req[h].who)
    /\ circle' = Submitted({<<"JOIN", req[h].who>>})
    /\ Goes(h, "joined")
    /\ RestFixed /\ UNCHANGED <<row, joinIntent>>

RecordJoinTx(h) ==
    LET copy == [req[h].copy EXCEPT !.joinTx = TRUE]
    IN  /\ At(h, "joined")
        /\ Completed("JOIN", req[h].who)
        /\ Puts(copy)
        /\ Keeps(h, "joinRead", copy)
        /\ RestFixed /\ UNCHANGED <<joinIntent, circle>>

ConfirmJoin(h) ==
    /\ At(h, "joinRead")
    /\ IF JoinedOnArcBy(req[h].who)
       THEN Puts([req[h].copy EXCEPT !.state = "JOINED", !.stage = "QUEUED"])
       ELSE UNCHANGED row
    /\ Returns(h)
    /\ RestFixed /\ UNCHANGED <<joinIntent, circle>>

-----------------------------------------------------------------------------
(* action *)

\* What the record must say before the request goes on.
Allowed(kind, p) ==
    /\ Visible
    /\ kind # "EXPIRE" => p \in {Creator, row.challenger}
    /\ kind = "CANCEL" => p = Creator /\ row.state \in {"OPEN", "JOINING"}
    /\ kind = "REQUEST_CANCEL" => /\ row.state = "JOINED"
                                  /\ row.stage \in {"NONE", "QUEUED"}

StartAction(h, p, kind) ==
    /\ Allowed(kind, p)
    /\ Begin(h, Request("act", p, kind, row))
    /\ RestFixed /\ UNCHANGED <<row, joinIntent, circle>>

\* What Arc must say before the wallet is asked.
MayAct(h) ==
    /\ req[h].kind = "CANCEL" => onArc.state = "OPEN"
    /\ req[h].kind = "WITHDRAW" => creditOf[RoomId][req[h].who] > 0

SubmitAction(h) ==
    /\ At(h, "act") /\ MayAct(h)
    /\ circle' = Submitted({<<req[h].kind, req[h].who>>})
    /\ Goes(h, "acted")
    /\ RestFixed /\ UNCHANGED <<row, joinIntent>>

\* Mutant of RecordAction: a completed request to cancel is taken for a refund.
RecordActionEarly(h) ==
    LET copy == IF req[h].kind = "REQUEST_CANCEL"
                THEN [req[h].copy EXCEPT !.state = "REFUNDABLE"]
                ELSE req[h].copy
    IN  /\ At(h, "acted")
        /\ Completed(req[h].kind, req[h].who)
        /\ Puts(copy)
        /\ Returns(h)
        /\ RestFixed /\ UNCHANGED <<joinIntent, circle>>

\* The record takes a terminal state Arc shows; every other field is the copy's.
\* A cancelled room's creator is paid at once by a nested WITHDRAW action.
RecordAction(h) ==
    LET p == req[h].who
        kind == req[h].kind
        copy == IF onArc.state \in {"SETTLED", "REFUNDABLE"}
                THEN [req[h].copy EXCEPT !.state = onArc.state]
                ELSE req[h].copy
    IN  /\ At(h, "acted")
        /\ Completed(kind, p)
        /\ Puts(copy)
        /\ IF kind = "CANCEL" /\ onArc.state = "REFUNDABLE"
           THEN Goes(h, "cancelled") ELSE Returns(h)
        /\ RestFixed /\ UNCHANGED <<joinIntent, circle>>

PayCancelled(h) ==
    /\ At(h, "cancelled")
    /\ IF creditOf[RoomId][req[h].who] > 0
       THEN req' = [req EXCEPT ![h] =
                      Request("act", req[h].who, "WITHDRAW", row)]
       ELSE Returns(h)
    /\ RestFixed /\ UNCHANGED <<row, joinIntent, circle>>

-----------------------------------------------------------------------------

\* The wallet request a handler waits for.
Awaited(h) == <<IF req[h].at \in {"createApproved", "joinApproved"}
                THEN "APPROVE" ELSE req[h].kind, req[h].who>>

\* A check fails, or the awaited wallet request did: the code throws.
Refused(h) ==
    /\ \/ At(h, "create") /\ ~MayCreate(h)
       \/ At(h, "join") /\ ~MayRecover(h) /\ ~MayJoin(h)
       \/ At(h, "joinChecked") /\ ~MayReserve(h)
       \/ At(h, "act") /\ ~MayAct(h)
       \/ /\ req[h] # Idle
          /\ req[h].at \in {"createApproved", "created", "joinApproved",
                            "joined", "acted"}
          /\ circle[Awaited(h)] = "failed"
    /\ Returns(h)
    /\ RestFixed /\ UNCHANGED <<row, joinIntent, circle>>

\* At any await an answer may be lost: the request ends, and what it wrote and
\* sent remains.
GivesUp(h) ==
    /\ req[h] # Idle
    /\ faults < MaxFaults
    /\ faults' = faults + 1
    /\ Returns(h)
    /\ UNCHANGED <<chain, now, store, circle, pool, judge>>

Serves(h) ==
    \/ PersistIntent(h) \/ SubmitCreate(h) \/ RecordCreateTx(h)
    \/ ConfirmCreate(h)
    \/ RecoverJoin(h) \/ CheckJoin(h) \/ ReserveJoin(h) \/ SubmitJoin(h) \/ RecordJoinTx(h)
    \/ ConfirmJoin(h)
    \/ SubmitAction(h) \/ RecordAction(h) \/ PayCancelled(h)
    \/ Refused(h)

Asks(h) ==
    \/ StartCreate(h)
    \/ \E p \in Challengers : StartJoin(h, p)
    \/ \E action \in Actions : StartAction(h, action[2], action[1])

RequestInit == req = [h \in Handlers |-> Idle]
RequestTypeOK == req \in [Handlers -> Requests \cup {Idle}]

=============================================================================
