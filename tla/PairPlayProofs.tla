---------------------------- MODULE PairPlayProofs ----------------------------
(***************************************************************************)
(* Proofs about a pair room, for any number of handlers, ticks,            *)
(* challengers, scenarios, failures and crashes.  The contract's part      *)
(* rests on the theorems about the escrow itself.                          *)
(***************************************************************************)
EXTENDS PairPlay, FiniteSetTheorems, TLAPS

ArcProofs == INSTANCE PairMatchEscrowProofs WITH
    Rooms <- {RoomId}, Players <- Principals, Versions <- Principals,
    Stakes <- {Stake}, Funds <- Stake, MaxWindow <- ResolveBy

-----------------------------------------------------------------------------
(* The inductive invariant.  Rows are copied and written back late, so what  *)
(* holds of the stored row must hold of every copy of it, and must survive   *)
(* whatever Arc does in between: each part below is a predicate of a copy,   *)
(* the contract room and the stored reservation.                             *)

Terminals == {"SETTLED", "REFUNDABLE"}
Undepositable == {"NONE", "OPEN"}

\* What a row may say, given the contract room and the reservation.
Sound(copy, arc, reserved) ==
    /\ copy.challenger \in {None, reserved}
    /\ copy.joinTx => copy.challenger # None
    /\ copy.state \notin {"NONE", "PENDING"} => arc.state # "NONE"
    /\ copy.state = "JOINED" => /\ arc.state \notin Undepositable
                                /\ arc.challenger = copy.challenger
                                /\ copy.challenger # None
    /\ copy.state \in Terminals => arc.state = copy.state

\* What a request in progress knows: how far its join has come.
Asking(r, arc, reserved) ==
    r # Idle =>
        /\ Sound(r.copy, arc, reserved)
        /\ r.at \in {"join", "joinChecked"} =>
              /\ r.copy.state = "OPEN"
                 \/ (r.copy.state = "JOINING" /\ r.copy.challenger = r.who)
              /\ r.who \in Challengers
        /\ r.at \in {"joinApproved", "joined", "joinRead"} =>
              reserved = r.who /\ r.copy.challenger = r.who /\ r.who # None
        /\ r.at \in {"act", "acted", "cancelled"} => r.kind \in UserKinds

\* What a tick in progress knows: a judged room is a joined one, and an
\* operator transaction or a refund under way has its intent stored.
Doing(x, arc, reserved, settle, refund) ==
    x # Resting =>
        /\ Sound(x.copy, arc, reserved)
        /\ x.at \in {"judge", "poll"} => x.copy.state = "JOINED"
        /\ x.at \in {"settle", "settled"} => settle # NoIntent
        /\ x.at \in {"refund", "refund2", "deliver"} => refund # NoIntent

\* The stored reservation is the only challenger Arc and the wallets know.
Reserved ==
    /\ onArc.challenger \in {None, joinIntent}
    /\ \A p \in Principals : circle[<<"JOIN", p>>] # "none" => joinIntent = p

\* The winner a verdict names.
Named(verdict, arc) == CASE verdict = "A_WIN" -> Creator
                         [] verdict = "B_WIN" -> arc.challenger
                         [] OTHER -> None

\* The settlement intent rests on a final verdict about two paid stakes, and
\* the contract on the settlement intent.
Founded(arc, verdicts, settle) ==
    /\ settle # NoIntent => /\ arc.state \notin Undepositable
                            /\ settle.winner = Named(verdicts[settle.attempt], arc)
    /\ arc.state = "SETTLED" => settle # NoIntent /\ arc.winner = settle.winner

PlayInv ==
    /\ TypeOK
    /\ ArcProofs!IInv
    /\ Sound(row, onArc, joinIntent)
    /\ \A h \in Handlers : Asking(req[h], onArc, joinIntent)
    /\ \A w \in Workers : Doing(work[w], onArc, joinIntent, settleIntent, refundIntent)
    /\ Reserved
    /\ Founded(onArc, judge, settleIntent)
    /\ "settle" \in pool => settleIntent # NoIntent

-----------------------------------------------------------------------------
(* The contract. *)

\* The constants of the room fit the contract's assumptions.
LEMMA EscrowFits ==
    /\ ArcProofs!IsFiniteSet({RoomId}) /\ ArcProofs!IsFiniteSet(Principals)
    /\ Stake \in Nat \ {0}
    /\ JoinBy \in 1..Horizon /\ ResolveBy \in 1..Horizon
<1>1. IsFiniteSet({RoomId})
  BY FS_Singleton
<1>2. IsFiniteSet(Principals)
  BY StoreAssumption, FS_Singleton, FS_Union DEF Principals
<1> QED BY <1>1, <1>2, StoreAssumption DEF ArcProofs!IsFiniteSet, IsFiniteSet, Stake

\* The contract's own invariant is kept by each of its steps.
LEMMA BooksKept ==
    ASSUME ArcProofs!IInv, ArcProofs!Next \/ UNCHANGED <<chain, now>>
    PROVE  ArcProofs!IInv'
<1>1. UNCHANGED <<chain, now>> => UNCHANGED ArcProofs!vars
  BY DEF chain, ArcProofs!vars
<1> QED BY <1>1, EscrowFits, StoreAssumption, ArcProofs!NextIInv

\* What the invariant says of the types on Arc, in this module's words.
LEMMA ArcTyped ==
    ArcProofs!IInv => Arc!TypeOK /\ onArc \in Arc!Room /\ room \in [{RoomId} -> Arc!Room]
BY DEF ArcProofs!IInv, ArcProofs!TypeOK, ArcProofs!Room, ArcProofs!State,
       Arc!TypeOK, Arc!Room, Arc!State, onArc

LEMMA BooksInit == Arc!Init => ArcProofs!IInv
<1>1. Arc!Init => ArcProofs!Init
  BY DEF Arc!Init, ArcProofs!Init, Arc!NoRoom, ArcProofs!NoRoom
<1> QED BY <1>1, EscrowFits, StoreAssumption, ArcProofs!InitIInv

\* What happens on Arc while a copy of the row is out.
Grows(a, b) ==
    /\ a.state # "NONE" => b.state # "NONE"
    /\ a.state \notin Undepositable =>
          b.state \notin Undepositable /\ b.challenger = a.challenger
    /\ a.state \in Terminals => b.state = a.state /\ b.winner = a.winner

\* The deadline passes, and the room is refunded.
LEMMA ExpireStep ==
    ASSUME ArcProofs!IInv, Arc!ExpireRoom(RoomId)
    PROVE  /\ ArcProofs!Next
           /\ Grows(onArc, onArc') /\ onArc'.challenger = onArc.challenger
           /\ onArc'.state = "REFUNDABLE"
<1>1. ArcProofs!ExpireRoom(RoomId)
  BY DEF Arc!ExpireRoom, ArcProofs!ExpireRoom, Arc!OpenRefunds, ArcProofs!OpenRefunds,
         Arc!token, ArcProofs!token
<1>2. ArcProofs!Next
  BY <1>1 DEF ArcProofs!Next
<1> QED BY <1>2, ArcTyped DEF Arc!ExpireRoom, Arc!OpenRefunds, onArc, Arc!Room, Grows,
                               Undepositable, Terminals

\* The operator settles, before the deadline.
LEMMA SettleStep ==
    ASSUME ArcProofs!IInv, NEW p \in Principals, Arc!Settle(Operator, RoomId, p)
    PROVE  /\ ArcProofs!Next
           /\ Grows(onArc, onArc') /\ onArc'.challenger = onArc.challenger
           /\ onArc'.state = "SETTLED" /\ onArc'.winner = p
<1>1. ArcProofs!Settle(Operator, RoomId, p)
  BY DEF Arc!Settle, ArcProofs!Settle, Arc!token, ArcProofs!token
<1>2. ArcProofs!Next
  BY <1>1 DEF ArcProofs!Next
<1> QED BY <1>2, ArcTyped DEF Arc!Settle, onArc, Arc!Room, Grows, Undepositable, Terminals

\* A managed wallet's call is a step of the contract; only a join writes a
\* challenger, and none settles.
LEMMA CallStep ==
    ASSUME ArcProofs!IInv, NEW kind \in Kinds, NEW p \in Principals, Call(kind, p)
    PROVE  /\ ArcProofs!Next
           /\ Grows(onArc, onArc')
           /\ \/ onArc'.challenger \in {onArc.challenger, None}
              \/ kind = "JOIN" /\ onArc'.challenger = p
           /\ onArc'.state = "SETTLED" => onArc.state = "SETTLED"
<1> USE ArcTyped DEF onArc, Arc!Room, Grows, Undepositable, Terminals, Arc!token, ArcProofs!token
<1>1. CASE Arc!Approve(p, Stake)
  <2>1. ArcProofs!Approve(p, Stake)
    BY <1>1 DEF Arc!Approve, ArcProofs!Approve
  <2> QED BY <1>1, <2>1, EscrowFits DEF ArcProofs!Next, Arc!Approve
<1>2. CASE Arc!CreateRoom(p, RoomId, p, Stake, JoinBy, ResolveBy)
  <2>1. ArcProofs!CreateRoom(p, RoomId, p, Stake, JoinBy, ResolveBy)
    BY <1>2 DEF Arc!CreateRoom, ArcProofs!CreateRoom, Arc!Deposit, ArcProofs!Deposit
  <2>2. ArcProofs!Next
    BY <2>1, EscrowFits DEF ArcProofs!Next
  <2> QED BY <1>2, <2>2 DEF Arc!CreateRoom
<1>3. CASE kind = "JOIN" /\ Arc!JoinRoom(p, RoomId, p)
  <2>1. ArcProofs!JoinRoom(p, RoomId, p)
    BY <1>3 DEF Arc!JoinRoom, ArcProofs!JoinRoom, Arc!Deposit, ArcProofs!Deposit
  <2>2. ArcProofs!Next
    BY <2>1 DEF ArcProofs!Next
  <2> QED BY <1>3, <2>2 DEF Arc!JoinRoom
<1>4. CASE Arc!CancelRoom(p, RoomId)
  <2>1. ArcProofs!CancelRoom(p, RoomId)
    BY <1>4 DEF Arc!CancelRoom, ArcProofs!CancelRoom, Arc!OpenRefunds, ArcProofs!OpenRefunds
  <2>2. ArcProofs!Next
    BY <2>1 DEF ArcProofs!Next
  <2> QED BY <1>4, <2>2 DEF Arc!CancelRoom, Arc!OpenRefunds
<1>5. CASE Arc!RequestCancel(p, RoomId)
  <2>1. ArcProofs!RequestCancel(p, RoomId)
    BY <1>5 DEF Arc!RequestCancel, ArcProofs!RequestCancel, Arc!OpenRefunds, ArcProofs!OpenRefunds
  <2>2. ArcProofs!Next
    BY <2>1 DEF ArcProofs!Next
  <2> DEFINE flagged == [room[RoomId] EXCEPT !.cancelRequested = @ \cup {p}]
  <2>3. /\ room[RoomId].state = "JOINED"
        /\ \/ room' = [room EXCEPT ![RoomId] = [flagged EXCEPT !.state = "REFUNDABLE"]]
           \/ room' = [room EXCEPT ![RoomId] = flagged]
    BY <1>5 DEF Arc!RequestCancel, Arc!OpenRefunds
  <2>4. CASE room' = [room EXCEPT ![RoomId] = [flagged EXCEPT !.state = "REFUNDABLE"]]
    BY <2>2, <2>3, <2>4
  <2>5. CASE room' = [room EXCEPT ![RoomId] = flagged]
    BY <2>2, <2>3, <2>5
  <2> QED BY <2>3, <2>4, <2>5
<1>6. CASE Arc!ExpireRoom(RoomId)
  <2>1. ArcProofs!Next
    BY <1>6, ExpireStep
  <2> QED BY <1>6, <2>1 DEF Arc!ExpireRoom, Arc!OpenRefunds
<1>7. CASE Arc!Withdraw(p, RoomId)
  <2>1. ArcProofs!Withdraw(p, RoomId)
    BY <1>7 DEF Arc!Withdraw, ArcProofs!Withdraw
  <2>2. ArcProofs!Next
    BY <2>1 DEF ArcProofs!Next
  <2> QED BY <1>7, <2>2 DEF Arc!Withdraw
<1> QED BY <1>1, <1>2, <1>3, <1>4, <1>5, <1>6, <1>7 DEF Call

-----------------------------------------------------------------------------
(* What is known of a copy survives what others do. *)

\* A reservation, once stored, stays.
Holds(i, j) == i = None \/ j = i

LEMMA SoundStays ==
    ASSUME NEW copy, NEW a, NEW b, NEW i, NEW j,
           Sound(copy, a, i), Grows(a, b), Holds(i, j)
    PROVE  Sound(copy, b, j)
BY DEF Sound, Grows, Holds, Undepositable, Terminals

LEMMA AskingStays ==
    ASSUME NEW r, NEW a, NEW b, NEW i, NEW j,
           Asking(r, a, i), Grows(a, b), Holds(i, j)
    PROVE  Asking(r, b, j)
<1>1. r # Idle => Sound(r.copy, b, j)
  BY SoundStays DEF Asking
<1> QED BY <1>1 DEF Asking, Holds

LEMMA DoingStays ==
    ASSUME NEW x, NEW a, NEW b, NEW i, NEW j, NEW s, NEW t, NEW f, NEW g,
           Doing(x, a, i, s, f), Grows(a, b), Holds(i, j),
           s # NoIntent => t # NoIntent, f # NoIntent => g # NoIntent
    PROVE  Doing(x, b, j, t, g)
<1>1. x # Resting => Sound(x.copy, b, j)
  BY SoundStays DEF Doing
<1> QED BY <1>1 DEF Doing

LEMMA GrowsNot == ASSUME NEW a PROVE Grows(a, a)
BY DEF Grows

\* Submitting requests leaves the map of requests one, and only touches its own.
LEMMA SubmittedKeeps ==
    ASSUME TypeOK, NEW ks, circle' = Submitted(ks)
    PROVE  /\ circle' \in [Keys -> {"none", "sent", "done", "failed"}]
           /\ \A k \in Keys : k \notin ks => circle'[k] = circle[k]
BY DEF TypeOK, StoreTypeOK, Submitted

-----------------------------------------------------------------------------
(* A handler's step: it moves its own request, writes a sound row, and joins *)
(* only for the challenger that is reserved.                                 *)

LEMMA HandlerKeeps ==
    ASSUME PlayInv, NEW h \in Handlers, NEW r \in Requests \cup {Idle},
           req' = [req EXCEPT ![h] = r], Asking(r, onArc, joinIntent'),
           row' \in Row, Sound(row', onArc, joinIntent'),
           joinIntent' \in Challengers \cup {None}, Holds(joinIntent, joinIntent'),
           circle' \in [Keys -> {"none", "sent", "done", "failed"}],
           \A p \in Principals : circle'[<<"JOIN", p>>] = circle[<<"JOIN", p>>]
                                 \/ joinIntent' = p,
           RestFixed, UNCHANGED work
    PROVE  PlayInv'
<1> USE DEF RestFixed, chain
<1>1. onArc' = onArc
  BY DEF onArc
<1>2. TypeOK'
  BY DEF PlayInv, TypeOK, StoreTypeOK, RequestTypeOK, WorkTypeOK, Arc!TypeOK
<1>3. ArcProofs!IInv'
  BY BooksKept DEF PlayInv
<1>4. \A g \in Handlers : Asking(req[g], onArc, joinIntent)'
  <2> SUFFICES ASSUME NEW g \in Handlers PROVE Asking(req'[g], onArc, joinIntent')
    BY <1>1
  <2>1. CASE g = h
    BY <2>1 DEF PlayInv, TypeOK, RequestTypeOK
  <2>2. CASE g # h
    <3>1. req'[g] = req[g] /\ Asking(req[g], onArc, joinIntent)
      BY <2>2 DEF PlayInv, TypeOK, RequestTypeOK
    <3> QED BY <3>1, AskingStays, GrowsNot
  <2> QED BY <2>1, <2>2
<1>5. \A w \in Workers : Doing(work[w], onArc, joinIntent, settleIntent, refundIntent)'
  <2> SUFFICES ASSUME NEW w \in Workers
               PROVE  Doing(work[w], onArc, joinIntent', settleIntent, refundIntent)
    BY <1>1
  <2>1. Doing(work[w], onArc, joinIntent, settleIntent, refundIntent)
    BY DEF PlayInv
  <2> QED BY <2>1, DoingStays, GrowsNot
<1>6. Reserved'
  BY <1>1, StoreAssumption DEF PlayInv, Reserved, Holds
<1> QED BY <1>1, <1>2, <1>3, <1>4, <1>5, <1>6 DEF PlayInv

-----------------------------------------------------------------------------
(* A worker's step: it moves its own tick, writes a sound row, keeps every   *)
(* intent that is stored, and joins for nobody.                              *)

LEMMA WorkerKeeps ==
    ASSUME PlayInv, NEW w \in Workers, NEW x \in Works \cup {Resting},
           work' = [work EXCEPT ![w] = x],
           Doing(x, onArc', joinIntent, settleIntent', refundIntent'),
           row' \in Row, Sound(row', onArc', joinIntent),
           progress' \in Progress,
           lease' \in [owner : Workers \cup {None}, until : Nat],
           settleIntent' \in SettleIntent \cup {NoIntent},
           refundIntent' \in RefundIntent \cup {NoIntent},
           settleIntent # NoIntent => settleIntent' = settleIntent,
           refundIntent # NoIntent => refundIntent' # NoIntent,
           judge' \in [Attempts -> {"idle", "pending", "A_WIN", "B_WIN", "TIE", "NO_CONSENSUS"}],
           Founded(onArc', judge', settleIntent'),
           circle' \in [Keys -> {"none", "sent", "done", "failed"}],
           \A p \in Principals : circle'[<<"JOIN", p>>] = circle[<<"JOIN", p>>],
           pool' \subseteq {"expire", "settle"}, "settle" \in pool' => settleIntent' # NoIntent,
           faults' \in 0..MaxFaults,
           Grows(onArc, onArc'), onArc'.challenger = onArc.challenger,
           ArcProofs!IInv', UNCHANGED <<joinIntent, req>>
    PROVE  PlayInv'
<1>1. TypeOK'
  <2>1. Arc!TypeOK'
    BY DEF ArcProofs!IInv, ArcProofs!TypeOK, ArcProofs!Room, ArcProofs!State,
           Arc!TypeOK, Arc!Room, Arc!State
  <2>2. StoreTypeOK'
    BY <2>1 DEF PlayInv, TypeOK, StoreTypeOK
  <2>3. WorkTypeOK'
    BY DEF PlayInv, TypeOK, WorkTypeOK
  <2> QED BY <2>2, <2>3 DEF PlayInv, TypeOK, RequestTypeOK
<1>2. Holds(joinIntent, joinIntent)
  BY DEF Holds
<1>3. \A h \in Handlers : Asking(req[h], onArc, joinIntent)'
  <2> SUFFICES ASSUME NEW h \in Handlers PROVE Asking(req[h], onArc', joinIntent)
    OBVIOUS
  <2>1. Asking(req[h], onArc, joinIntent)
    BY DEF PlayInv
  <2> QED BY <2>1, <1>2, AskingStays
<1>4. \A v \in Workers : Doing(work[v], onArc, joinIntent, settleIntent, refundIntent)'
  <2> SUFFICES ASSUME NEW v \in Workers
               PROVE  Doing(work'[v], onArc', joinIntent, settleIntent', refundIntent')
    OBVIOUS
  <2>1. CASE v = w
    BY <2>1 DEF PlayInv, TypeOK, WorkTypeOK
  <2>2. CASE v # w
    <3>1. work'[v] = work[v] /\ Doing(work[v], onArc, joinIntent, settleIntent, refundIntent)
      BY <2>2 DEF PlayInv, TypeOK, WorkTypeOK
    <3> QED BY <3>1, <1>2, DoingStays
  <2> QED BY <2>1, <2>2
<1>5. Reserved'
  BY DEF PlayInv, Reserved
<1> QED BY <1>1, <1>3, <1>4, <1>5 DEF PlayInv

\* The same, of a step that leaves Arc and the operator's transactions alone.
LEMMA QuietWorkerKeeps ==
    ASSUME PlayInv, NEW w \in Workers, NEW x \in Works \cup {Resting},
           work' = [work EXCEPT ![w] = x],
           Doing(x, onArc, joinIntent, settleIntent', refundIntent'),
           row' \in Row, Sound(row', onArc, joinIntent),
           progress' \in Progress,
           lease' \in [owner : Workers \cup {None}, until : Nat],
           settleIntent' = settleIntent,
           refundIntent' \in RefundIntent \cup {NoIntent},
           refundIntent # NoIntent => refundIntent' # NoIntent,
           judge' \in [Attempts -> {"idle", "pending", "A_WIN", "B_WIN", "TIE", "NO_CONSENSUS"}],
           \A a \in Attempts : judge[a] \notin {"idle", "pending"} => judge'[a] = judge[a],
           circle' \in [Keys -> {"none", "sent", "done", "failed"}],
           \A p \in Principals : circle'[<<"JOIN", p>>] = circle[<<"JOIN", p>>],
           OutsideFixed, UNCHANGED req
    PROVE  PlayInv'
<1> USE DEF OutsideFixed, HandlersFixed, chain
<1>1. onArc' = onArc
  BY DEF onArc
<1>2. ArcProofs!IInv'
  BY BooksKept DEF PlayInv
<1>3. Founded(onArc', judge', settleIntent')
  <2>1. CASE settleIntent = NoIntent
    BY <1>1, <2>1 DEF PlayInv, Founded
  <2>2. CASE settleIntent # NoIntent
    <3>1. /\ settleIntent.winner \in Principals /\ settleIntent.attempt \in Attempts
          /\ settleIntent.winner = Named(judge[settleIntent.attempt], onArc)
      BY <2>2 DEF PlayInv, TypeOK, StoreTypeOK, SettleIntent, Founded
    <3>2. judge[settleIntent.attempt] \in {"A_WIN", "B_WIN"}
      BY <3>1, StoreAssumption DEF Named
    <3>3. judge'[settleIntent.attempt] = judge[settleIntent.attempt]
      BY <3>1, <3>2
    <3> QED BY <1>1, <2>2, <3>3 DEF PlayInv, Founded
  <2> QED BY <2>1, <2>2
<1>4. Grows(onArc, onArc') /\ onArc'.challenger = onArc.challenger
  BY <1>1, GrowsNot
<1>5. /\ pool' \subseteq {"expire", "settle"} /\ faults' \in 0..MaxFaults
      /\ "settle" \in pool' => settleIntent' # NoIntent
      /\ settleIntent' \in SettleIntent \cup {NoIntent}
  BY DEF PlayInv, TypeOK, StoreTypeOK
<1> QED BY <1>1, <1>2, <1>3, <1>4, <1>5, WorkerKeeps

\* The same again, of a step that changes no intent, judgment or request.
LEMMA UnjudgedKeeps ==
    ASSUME PlayInv, NEW w \in Workers, NEW x \in Works \cup {Resting},
           work' = [work EXCEPT ![w] = x],
           Doing(x, onArc, joinIntent, settleIntent, refundIntent),
           row' \in Row, Sound(row', onArc, joinIntent),
           progress' \in Progress,
           lease' \in [owner : Workers \cup {None}, until : Nat],
           Unjudged, OutsideFixed, UNCHANGED req
    PROVE  PlayInv'
BY QuietWorkerKeeps DEF Unjudged, PlayInv, TypeOK, StoreTypeOK

-----------------------------------------------------------------------------
(* The handlers, one by one. *)

LEMMA Typed ==
    ASSUME PlayInv
    PROVE  /\ row \in Row /\ joinIntent \in Challengers \cup {None}
           /\ req \in [Handlers -> Requests \cup {Idle}]
           /\ work \in [Workers -> Works \cup {Resting}]
           /\ progress \in Progress /\ now \in Nat
           /\ lease \in [owner : Workers \cup {None}, until : Nat]
           /\ circle \in [Keys -> {"none", "sent", "done", "failed"}]
           /\ Sound(row, onArc, joinIntent)
           /\ None \notin Principals /\ Challengers \subseteq Principals
BY StoreAssumption DEF PlayInv, TypeOK, StoreTypeOK, RequestTypeOK, WorkTypeOK, Arc!TypeOK,
                       Principals

LEMMA AsksKeeps ==
    ASSUME PlayInv, NEW h \in Handlers, AskStep(h)
    PROVE  PlayInv'
<1> USE Typed DEF RestFixed
<1>1. ASSUME NEW r \in Requests, Begin(h, r), RestFixed, UNCHANGED <<row, joinIntent, circle>>,
             UNCHANGED work, Asking(r, onArc, joinIntent)
      PROVE  PlayInv'
  BY <1>1, HandlerKeeps DEF Begin, Holds
<1>2. CASE StartCreate(h)
  <2> DEFINE r == Request("create", Creator, "CREATE", row)
  <2>1. r \in Requests /\ Asking(r, onArc, joinIntent)
    BY DEF Request, Requests, RequestStops, Asking, Principals, Idle
  <2> QED BY <2>1, <1>1, <1>2 DEF StartCreate, AskStep
<1>3. ASSUME NEW p \in Challengers, StartJoin(h, p) PROVE PlayInv'
  <2> DEFINE r == Request("join", p, "JOIN", row)
  <2>1. r \in Requests /\ Asking(r, onArc, joinIntent)
    BY <1>3 DEF Request, Requests, RequestStops, Asking, Idle, StartJoin
  <2> QED BY <2>1, <1>1, <1>3 DEF StartJoin, AskStep
<1>4. ASSUME NEW action \in Actions, StartAction(h, action[2], action[1]) PROVE PlayInv'
  <2> DEFINE r == Request("act", action[2], action[1], row)
  <2>1. action[1] \in UserKinds /\ action[2] \in Principals
    BY StoreAssumption
  <2>2. r \in Requests /\ Asking(r, onArc, joinIntent)
    BY <2>1 DEF Request, Requests, RequestStops, Asking, Idle
  <2> QED BY <2>2, <1>1, <1>4 DEF StartAction, AskStep
<1> QED BY <1>2, <1>3, <1>4 DEF AskStep, Asks

\* A request in progress.
LEMMA Served ==
    ASSUME PlayInv, NEW h \in Handlers, NEW at, At(h, at)
    PROVE  /\ req[h] \in Requests /\ req[h] # Idle /\ req[h].at = at
           /\ req[h].copy \in Row /\ req[h].who \in Principals
           /\ Asking(req[h], onArc, joinIntent) /\ Sound(req[h].copy, onArc, joinIntent)
<1>1. Asking(req[h], onArc, joinIntent)
  BY DEF PlayInv
<1>2. req[h] \in Requests /\ req[h] # Idle /\ req[h].at = at
  BY Typed DEF At
<1> QED BY <1>1, <1>2 DEF Asking, Requests

\* It goes to its next await, there with another copy of the row or the same.
LEMMA Onward ==
    ASSUME PlayInv, NEW h \in Handlers, NEW at, At(h, at),
           NEW next \in RequestStops, NEW copy \in Row,
           Keeps(h, next, copy) \/ (Goes(h, next) /\ copy = req[h].copy)
    PROVE  \E r \in Requests :
              /\ req' = [req EXCEPT ![h] = r]
              /\ r.at = next /\ r.copy = copy /\ r.who = req[h].who /\ r.kind = req[h].kind
<1>1. req[h] \in Requests
  BY Served
<1>2. CASE Keeps(h, next, copy)
  <2> DEFINE r == [req[h] EXCEPT !.at = next, !.copy = copy]
  <2>1. /\ r \in Requests /\ r.at = next /\ r.copy = copy
        /\ r.who = req[h].who /\ r.kind = req[h].kind
    BY <1>1 DEF Requests
  <2>2. req' = [req EXCEPT ![h] = r]
    BY <1>2 DEF Keeps
  <2> HIDE DEF r
  <2> QED BY <2>1, <2>2
<1>3. CASE Goes(h, next) /\ copy = req[h].copy
  <2> DEFINE r == [req[h] EXCEPT !.at = next]
  <2>1. /\ r \in Requests /\ r.at = next /\ r.copy = copy
        /\ r.who = req[h].who /\ r.kind = req[h].kind
    BY <1>1, <1>3 DEF Requests
  <2>2. req' = [req EXCEPT ![h] = r]
    BY <1>3 DEF Goes
  <2> HIDE DEF r
  <2> QED BY <2>1, <2>2
<1> QED BY <1>2, <1>3

\* Sound looks at three fields of a row.
LEMMA SoundFields ==
    ASSUME NEW c, NEW d, NEW arc, NEW i, Sound(c, arc, i),
           d.state = c.state, d.challenger = c.challenger, d.joinTx = c.joinTx
    PROVE  Sound(d, arc, i)
BY DEF Sound

\* A handler that writes nothing and asks for nothing.
LEMMA MoveOn ==
    ASSUME PlayInv, NEW h \in Handlers, NEW r \in Requests \cup {Idle},
           req' = [req EXCEPT ![h] = r], Asking(r, onArc, joinIntent),
           RestFixed, UNCHANGED <<row, joinIntent, circle>>, UNCHANGED work
    PROVE  PlayInv'
BY Typed, HandlerKeeps DEF Holds

\* A handler that writes the row and nothing else.
LEMMA WriteRow ==
    ASSUME PlayInv, NEW h \in Handlers, NEW r \in Requests \cup {Idle}, NEW copy \in Row,
           req' = [req EXCEPT ![h] = r], Asking(r, onArc, joinIntent),
           row' = copy, Sound(copy, onArc, joinIntent),
           RestFixed, UNCHANGED <<joinIntent, circle>>, UNCHANGED work
    PROVE  PlayInv'
BY Typed, HandlerKeeps DEF Holds

\* A handler that asks a wallet for something other than a join.
LEMMA AskWallet ==
    ASSUME PlayInv, NEW h \in Handlers, NEW r \in Requests \cup {Idle}, NEW copy \in Row,
           NEW kind, NEW q, kind # "JOIN", circle' = Submitted({<<kind, q>>}),
           req' = [req EXCEPT ![h] = r], Asking(r, onArc, joinIntent),
           row' = copy, Sound(copy, onArc, joinIntent),
           RestFixed, UNCHANGED joinIntent, UNCHANGED work
    PROVE  PlayInv'
<1>1. ASSUME NEW p \in Principals PROVE circle'[<<"JOIN", p>>] = circle[<<"JOIN", p>>]
  <2>1. <<"JOIN", p>> \in Keys /\ <<"JOIN", p>> \notin {<<kind, q>>}
    BY DEF Keys, Kinds
  <2> QED BY <2>1, SubmittedKeeps DEF PlayInv
<1> QED BY <1>1, Typed, SubmittedKeeps, HandlerKeeps DEF Holds, PlayInv

\* A handler that ends.
LEMMA IdleAsks == Asking(Idle, onArc, joinIntent)
BY DEF Asking

LEMMA PersistKeeps ==
    ASSUME PlayInv, NEW h \in Handlers, UNCHANGED work, PersistIntent(h)
    PROVE  PlayInv'
<1> DEFINE fresh == IF row.state = "NONE" THEN [NoRow EXCEPT !.state = "PENDING"] ELSE row
<1>1. fresh \in Row /\ Sound(fresh, onArc, joinIntent)
  <2>1. CASE row.state = "NONE"
    <3> DEFINE pending == [NoRow EXCEPT !.state = "PENDING"]
    <3>1. NoRow \in Row /\ NoRow.challenger = None /\ ~NoRow.joinTx
      BY StoreAssumption DEF NoRow, Row, Stages, Failures
    <3>2. /\ pending \in Row /\ pending.state = "PENDING"
          /\ pending.challenger = None /\ ~pending.joinTx
      BY <3>1 DEF Row
    <3> HIDE DEF pending
    <3>3. Sound(pending, onArc, joinIntent)
      BY <3>2 DEF Sound, Terminals
    <3> QED BY <2>1, <3>2, <3>3 DEF pending
  <2>2. CASE row.state # "NONE"
    BY <2>2, Typed
  <2> QED BY <2>1, <2>2
<1>2. /\ At(h, "create") /\ RestFixed /\ row' = fresh /\ joinIntent' = joinIntent
      /\ \/ Keeps(h, "createRead", fresh) /\ circle' = circle
         \/ Keeps(h, "createApproved", fresh) /\ circle' = Submitted({<<"APPROVE", Creator>>})
  BY DEF PersistIntent, Puts
<1> HIDE DEF fresh
<1>3. CASE Keeps(h, "createRead", fresh) /\ circle' = circle
  <2>1. PICK r \in Requests : req' = [req EXCEPT ![h] = r] /\ r.at = "createRead" /\ r.copy = fresh
    BY <1>1, <1>2, <1>3, Onward DEF RequestStops
  <2>2. Asking(r, onArc, joinIntent)
    BY <1>1, <2>1 DEF Asking
  <2> QED BY <1>1, <1>2, <1>3, <2>1, <2>2, WriteRow
<1>4. CASE Keeps(h, "createApproved", fresh) /\ circle' = Submitted({<<"APPROVE", Creator>>})
  <2>1. PICK r \in Requests : req' = [req EXCEPT ![h] = r] /\ r.at = "createApproved" /\ r.copy = fresh
    BY <1>1, <1>2, <1>4, Onward DEF RequestStops
  <2>2. Asking(r, onArc, joinIntent)
    BY <1>1, <2>1 DEF Asking
  <2> QED BY <1>1, <1>2, <1>4, <2>1, <2>2, AskWallet
<1> QED BY <1>2, <1>3, <1>4

LEMMA CreateKeeps ==
    ASSUME PlayInv, NEW h \in Handlers, UNCHANGED work,
           SubmitCreate(h) \/ RecordCreateTx(h) \/ ConfirmCreate(h)
    PROVE  PlayInv'
<1>1. CASE SubmitCreate(h)
  <2>1. /\ At(h, "createApproved") /\ Goes(h, "created") /\ RestFixed
        /\ row' = row /\ joinIntent' = joinIntent
        /\ circle' = Submitted({<<"CREATE", Creator>>})
    BY <1>1 DEF SubmitCreate
  <2>2. PICK r \in Requests : req' = [req EXCEPT ![h] = r] /\ r.at = "created" /\ r.copy = req[h].copy
    BY <2>1, Served, Onward DEF RequestStops
  <2>3. Asking(r, onArc, joinIntent)
    BY <2>1, <2>2, Served DEF Asking
  <2> QED BY <2>1, <2>2, <2>3, Typed, AskWallet
<1>2. CASE RecordCreateTx(h)
  <2> DEFINE copy == [req[h].copy EXCEPT !.createTx = TRUE]
  <2>1. /\ At(h, "created") /\ Keeps(h, "createRead", copy) /\ row' = copy
        /\ RestFixed /\ joinIntent' = joinIntent /\ circle' = circle
    BY <1>2 DEF RecordCreateTx, Puts
  <2>2. /\ copy \in Row /\ copy.state = req[h].copy.state
        /\ copy.challenger = req[h].copy.challenger /\ copy.joinTx = req[h].copy.joinTx
    BY <2>1, Served DEF Row
  <2> HIDE DEF copy
  <2>3. Sound(copy, onArc, joinIntent)
    BY <2>1, <2>2, Served, SoundFields
  <2>4. PICK r \in Requests : req' = [req EXCEPT ![h] = r] /\ r.at = "createRead" /\ r.copy = copy
    BY <2>1, <2>2, Onward DEF RequestStops
  <2>5. Asking(r, onArc, joinIntent)
    BY <2>3, <2>4 DEF Asking
  <2> QED BY <2>1, <2>2, <2>3, <2>4, <2>5, WriteRow
<1>3. CASE ConfirmCreate(h)
  <2> DEFINE copy == [req[h].copy EXCEPT !.state = "OPEN"]
  <2>1. /\ At(h, "createRead") /\ req' = [req EXCEPT ![h] = Idle]
        /\ row' = IF onArc.state = "OPEN" THEN copy ELSE row
    BY <1>3 DEF ConfirmCreate, Returns, Puts
  <2>2. /\ copy \in Row /\ copy.state = "OPEN"
        /\ copy.challenger = req[h].copy.challenger /\ copy.joinTx = req[h].copy.joinTx
    BY <2>1, Served DEF Row
  <2> HIDE DEF copy
  <2>3. onArc.state = "OPEN" => Sound(copy, onArc, joinIntent)
    BY <2>1, <2>2, Served DEF Sound, Terminals
  <2>4. row' \in Row /\ Sound(row', onArc, joinIntent)
    BY <2>1, <2>2, <2>3, Typed
  <2> QED BY <1>3, <2>1, <2>4, IdleAsks, WriteRow DEF ConfirmCreate
<1> QED BY <1>1, <1>2, <1>3

LEMMA JoinBegins ==
    ASSUME PlayInv, NEW h \in Handlers, UNCHANGED work,
           RecoverJoin(h) \/ CheckJoin(h) \/ ReserveJoin(h)
    PROVE  PlayInv'
<1>1. CASE RecoverJoin(h)
  <2> DEFINE copy == [req[h].copy EXCEPT !.state = "JOINED", !.stage = "QUEUED"]
  <2>1. /\ At(h, "join") /\ JoinedOnArcBy(req[h].who) /\ req[h].copy.joinTx
        /\ row' = copy /\ req' = [req EXCEPT ![h] = Idle]
        /\ RestFixed /\ joinIntent' = joinIntent /\ circle' = circle
    BY <1>1 DEF RecoverJoin, MayRecover, Puts, Returns
  <2>2. /\ copy \in Row /\ copy.state = "JOINED"
        /\ copy.challenger = req[h].copy.challenger /\ copy.joinTx = req[h].copy.joinTx
    BY <2>1, Served DEF Row, Stages
  <2> HIDE DEF copy
  <2>3. onArc.challenger = joinIntent
    BY <2>1, Served, Typed DEF JoinedOnArcBy, PlayInv, Reserved
  <2>4. Sound(copy, onArc, joinIntent)
    BY <2>1, <2>2, <2>3, Served DEF Sound, JoinedOnArcBy, Undepositable, Terminals
  <2> QED BY <2>1, <2>2, <2>4, IdleAsks, WriteRow
<1>2. CASE CheckJoin(h)
  <2>1. /\ At(h, "join") /\ Goes(h, "joinChecked") /\ row' = row
        /\ RestFixed /\ joinIntent' = joinIntent /\ circle' = circle
    BY <1>2 DEF CheckJoin
  <2>2. PICK r \in Requests : /\ req' = [req EXCEPT ![h] = r] /\ r.at = "joinChecked"
                              /\ r.copy = req[h].copy /\ r.who = req[h].who
    BY <2>1, Served, Onward DEF RequestStops
  <2>3. Asking(r, onArc, joinIntent)
    BY <2>1, <2>2, Served DEF Asking
  <2> QED BY <2>1, <2>2, <2>3, MoveOn
<1>3. CASE ReserveJoin(h)
  <2> DEFINE p == req[h].who
             copy == req[h].copy
             taken == [copy EXCEPT !.state = "JOINING", !.challenger = p]
             pending == IF copy.state = "JOINING" THEN copy ELSE taken
  <2>1. /\ At(h, "joinChecked") /\ joinIntent \in {None, p} /\ joinIntent' = p
        /\ row' = IF copy.state = "OPEN" THEN pending ELSE row
        /\ circle' = Submitted({<<"APPROVE", p>>})
        /\ Keeps(h, "joinApproved", pending) /\ RestFixed
    BY <1>3 DEF ReserveJoin, MayReserve, Puts
  <2>2. /\ p \in Challengers /\ copy \in Row /\ Sound(copy, onArc, joinIntent)
        /\ copy.state = "OPEN" \/ (copy.state = "JOINING" /\ copy.challenger = p)
    BY <2>1, Served DEF Asking
  <2>3. /\ taken \in Row /\ taken.state = "JOINING" /\ taken.challenger = p
        /\ taken.joinTx = copy.joinTx
    BY <2>2 DEF Row
  <2>4. /\ pending \in Row /\ pending.challenger = p /\ pending.state = "JOINING"
        /\ pending.joinTx = copy.joinTx
    BY <2>2, <2>3
  <2> HIDE DEF taken, pending, copy
  <2>5. Sound(pending, onArc, p)
    BY <2>2, <2>4, Typed DEF Sound, Terminals
  <2>6. Sound(row, onArc, joinIntent')
    BY <2>1, Typed, SoundStays, GrowsNot DEF Holds
  <2>7. PICK r \in Requests : /\ req' = [req EXCEPT ![h] = r] /\ r.at = "joinApproved"
                              /\ r.copy = pending /\ r.who = p
    BY <2>1, <2>4, Onward DEF RequestStops
  <2>8. Asking(r, onArc, joinIntent')
    BY <2>1, <2>2, <2>4, <2>5, <2>7, Typed DEF Asking
  <2>9. row' \in Row /\ Sound(row', onArc, joinIntent')
    BY <2>1, <2>4, <2>5, <2>6, Typed
  <2>10. circle' \in [Keys -> {"none", "sent", "done", "failed"}]
    BY <2>1, SubmittedKeeps DEF PlayInv
  <2>11. ASSUME NEW q \in Principals PROVE circle'[<<"JOIN", q>>] = circle[<<"JOIN", q>>]
    <3>1. <<"JOIN", q>> \in Keys /\ <<"JOIN", q>> \notin {<<"APPROVE", p>>}
      BY DEF Keys, Kinds
    <3> QED BY <2>1, <3>1, SubmittedKeeps DEF PlayInv
  <2> QED BY <2>1, <2>2, <2>7, <2>8, <2>9, <2>10, <2>11, HandlerKeeps DEF Holds
<1> QED BY <1>1, <1>2, <1>3

LEMMA JoinEnds ==
    ASSUME PlayInv, NEW h \in Handlers, UNCHANGED work,
           SubmitJoin(h) \/ RecordJoinTx(h) \/ ConfirmJoin(h)
    PROVE  PlayInv'
<1>1. CASE SubmitJoin(h)
  <2> DEFINE p == req[h].who
  <2>1. /\ At(h, "joinApproved") /\ Goes(h, "joined") /\ row' = row /\ RestFixed
        /\ joinIntent' = joinIntent /\ circle' = Submitted({<<"JOIN", p>>})
    BY <1>1 DEF SubmitJoin
  <2>2. PICK r \in Requests : /\ req' = [req EXCEPT ![h] = r] /\ r.at = "joined"
                              /\ r.copy = req[h].copy /\ r.who = p
    BY <2>1, Served, Onward DEF RequestStops
  <2>3. Asking(r, onArc, joinIntent) /\ joinIntent = p
    BY <2>1, <2>2, Served DEF Asking
  <2>4. circle' \in [Keys -> {"none", "sent", "done", "failed"}]
    BY <2>1, SubmittedKeeps DEF PlayInv
  <2>5. ASSUME NEW q \in Principals, q # p PROVE circle'[<<"JOIN", q>>] = circle[<<"JOIN", q>>]
    <3>1. <<"JOIN", q>> \in Keys /\ <<"JOIN", q>> \notin {<<"JOIN", p>>}
      BY <2>5 DEF Keys, Kinds
    <3> QED BY <2>1, <3>1, SubmittedKeeps DEF PlayInv
  <2> QED BY <2>1, <2>2, <2>3, <2>4, <2>5, Typed, HandlerKeeps DEF Holds
<1>2. CASE RecordJoinTx(h)
  <2> DEFINE copy == [req[h].copy EXCEPT !.joinTx = TRUE]
  <2>1. /\ At(h, "joined") /\ Keeps(h, "joinRead", copy) /\ row' = copy
        /\ RestFixed /\ joinIntent' = joinIntent /\ circle' = circle
    BY <1>2 DEF RecordJoinTx, Puts
  <2>2. /\ copy \in Row /\ copy.state = req[h].copy.state
        /\ copy.challenger = req[h].copy.challenger
    BY <2>1, Served DEF Row
  <2> HIDE DEF copy
  <2>3. copy.challenger = req[h].who /\ copy.challenger # None /\ joinIntent = req[h].who
    BY <2>1, <2>2, Served DEF Asking
  <2>4. Sound(copy, onArc, joinIntent)
    BY <2>1, <2>2, <2>3, Served DEF Sound
  <2>5. PICK r \in Requests : /\ req' = [req EXCEPT ![h] = r] /\ r.at = "joinRead"
                              /\ r.copy = copy /\ r.who = req[h].who
    BY <2>1, <2>2, Onward DEF RequestStops
  <2>6. Asking(r, onArc, joinIntent)
    BY <2>3, <2>4, <2>5 DEF Asking
  <2> QED BY <2>1, <2>2, <2>4, <2>5, <2>6, WriteRow
<1>3. CASE ConfirmJoin(h)
  <2> DEFINE copy == [req[h].copy EXCEPT !.state = "JOINED", !.stage = "QUEUED"]
  <2>1. /\ At(h, "joinRead") /\ req' = [req EXCEPT ![h] = Idle]
        /\ row' = IF JoinedOnArcBy(req[h].who) THEN copy ELSE row
        /\ RestFixed /\ joinIntent' = joinIntent /\ circle' = circle
    BY <1>3 DEF ConfirmJoin, Returns, Puts
  <2>2. /\ copy \in Row /\ copy.state = "JOINED"
        /\ copy.challenger = req[h].copy.challenger /\ copy.joinTx = req[h].copy.joinTx
    BY <2>1, Served DEF Row, Stages
  <2> HIDE DEF copy
  <2>3. JoinedOnArcBy(req[h].who) => Sound(copy, onArc, joinIntent)
    BY <2>1, <2>2, Served DEF Asking, Sound, JoinedOnArcBy, Undepositable, Terminals
  <2>4. row' \in Row /\ Sound(row', onArc, joinIntent)
    BY <2>1, <2>2, <2>3, Typed
  <2> QED BY <2>1, <2>4, IdleAsks, WriteRow
<1> QED BY <1>1, <1>2, <1>3

LEMMA ActionKeeps ==
    ASSUME PlayInv, NEW h \in Handlers, UNCHANGED work,
           SubmitAction(h) \/ RecordAction(h) \/ PayCancelled(h)
    PROVE  PlayInv'
<1>1. CASE SubmitAction(h)
  <2>1. /\ At(h, "act") /\ Goes(h, "acted") /\ row' = row /\ RestFixed
        /\ joinIntent' = joinIntent /\ circle' = Submitted({<<req[h].kind, req[h].who>>})
    BY <1>1 DEF SubmitAction
  <2>2. req[h].kind \in UserKinds /\ req[h].kind # "JOIN"
    BY <2>1, Served DEF Asking, UserKinds
  <2>3. PICK r \in Requests : /\ req' = [req EXCEPT ![h] = r] /\ r.at = "acted"
                              /\ r.copy = req[h].copy /\ r.kind = req[h].kind
    BY <2>1, Served, Onward DEF RequestStops
  <2>4. Asking(r, onArc, joinIntent)
    BY <2>1, <2>2, <2>3, Served DEF Asking
  <2> QED BY <2>1, <2>2, <2>3, <2>4, Typed, AskWallet
<1>2. CASE RecordAction(h)
  <2> DEFINE ended == [req[h].copy EXCEPT !.state = onArc.state]
             copy == IF onArc.state \in Terminals THEN ended ELSE req[h].copy
  <2>1. /\ At(h, "acted") /\ row' = copy
        /\ Goes(h, "cancelled") \/ req' = [req EXCEPT ![h] = Idle]
        /\ RestFixed /\ joinIntent' = joinIntent /\ circle' = circle
    BY <1>2 DEF RecordAction, Puts, Returns, Terminals
  <2>2. ASSUME onArc.state \in Terminals
        PROVE  /\ ended \in Row /\ ended.state = onArc.state
               /\ ended.challenger = req[h].copy.challenger
               /\ ended.joinTx = req[h].copy.joinTx
    BY <2>1, <2>2, Served DEF Row, Terminals
  <2> HIDE DEF ended
  <2>3. onArc.state \in Terminals => Sound(ended, onArc, joinIntent)
    BY <2>1, <2>2, Served DEF Sound, Terminals
  <2>4. copy \in Row /\ Sound(copy, onArc, joinIntent)
    BY <2>1, <2>2, <2>3, Served
  <2> HIDE DEF copy
  <2>5. CASE Goes(h, "cancelled")
    <3>1. PICK r \in Requests : /\ req' = [req EXCEPT ![h] = r] /\ r.at = "cancelled"
                                /\ r.copy = req[h].copy /\ r.kind = req[h].kind
      BY <2>1, <2>5, Served, Onward DEF RequestStops
    <3>2. Asking(r, onArc, joinIntent)
      BY <2>1, <3>1, Served DEF Asking
    <3> QED BY <2>1, <2>4, <3>1, <3>2, WriteRow
  <2>6. CASE req' = [req EXCEPT ![h] = Idle]
    BY <2>1, <2>4, <2>6, IdleAsks, WriteRow
  <2> QED BY <2>1, <2>5, <2>6
<1>3. CASE PayCancelled(h)
  <2> DEFINE r == Request("act", req[h].who, "WITHDRAW", row)
  <2>1. /\ At(h, "cancelled") /\ row' = row
        /\ req' = [req EXCEPT ![h] = r] \/ req' = [req EXCEPT ![h] = Idle]
        /\ RestFixed /\ joinIntent' = joinIntent /\ circle' = circle
    BY <1>3 DEF PayCancelled, Returns
  <2>2. r \in Requests /\ Asking(r, onArc, joinIntent)
    BY <2>1, Served, Typed DEF Request, Requests, RequestStops, UserKinds, Asking
  <2> HIDE DEF r
  <2> QED BY <2>1, <2>2, IdleAsks, MoveOn
<1> QED BY <1>1, <1>2, <1>3

LEMMA ServesKeeps ==
    ASSUME PlayInv, NEW h \in Handlers, ServeStep(h)
    PROVE  PlayInv'
<1>1. CASE Refused(h)
  BY <1>1, IdleAsks, MoveOn DEF Refused, Returns, ServeStep
<1> QED BY <1>1, PersistKeeps, CreateKeeps, JoinBegins, JoinEnds, ActionKeeps
        DEF ServeStep, Serves

-----------------------------------------------------------------------------
(* Arc, the wallets, and time. *)

\* A step on Arc that settles nothing, and the wallet requests it answers.
LEMMA ArcKeeps ==
    ASSUME PlayInv, ArcProofs!IInv', Grows(onArc, onArc'),
           onArc'.state = "SETTLED" => onArc.state = "SETTLED",
           onArc'.challenger \in {None, joinIntent},
           circle' \in [Keys -> {"none", "sent", "done", "failed"}],
           \A k \in Keys : circle[k] = "none" => circle'[k] = "none",
           pool' \subseteq pool, faults' \in 0..MaxFaults,
           UNCHANGED <<store, judge>>, UNCHANGED <<req, work>>
    PROVE  PlayInv'
<1> USE DEF store, intents
<1>1. TypeOK'
  <2>1. Arc!TypeOK'
    BY DEF ArcProofs!IInv, ArcProofs!TypeOK, ArcProofs!Room, ArcProofs!State,
           Arc!TypeOK, Arc!Room, Arc!State
  <2> QED BY <2>1 DEF PlayInv, TypeOK, StoreTypeOK, RequestTypeOK, WorkTypeOK
<1>2. Holds(joinIntent, joinIntent)
  BY DEF Holds
<1>3. Sound(row, onArc, joinIntent)'
  BY <1>2, Typed, SoundStays
<1>4. ASSUME NEW h \in Handlers PROVE Asking(req[h], onArc', joinIntent)
  BY <1>2, AskingStays DEF PlayInv
<1>5. ASSUME NEW w \in Workers PROVE Doing(work[w], onArc', joinIntent, settleIntent, refundIntent)
  BY <1>2, DoingStays DEF PlayInv
<1>6. Reserved'
  <2>1. \A p \in Principals : <<"JOIN", p>> \in Keys
    BY DEF Keys, Kinds
  <2> QED BY <2>1 DEF PlayInv, Reserved
<1>7. Founded(onArc', judge, settleIntent)
  BY DEF PlayInv, Founded, Grows, Named, Terminals
<1> QED BY <1>1, <1>3, <1>4, <1>5, <1>6, <1>7 DEF PlayInv

LEMMA WalletKeeps ==
    ASSUME PlayInv, NEW kind \in Kinds, NEW p \in Principals, WalletStep(kind, p)
    PROVE  PlayInv'
<1> DEFINE k == <<kind, p>>
<1>0. k \in Keys
  BY DEF Keys
<1>1. CASE Executes(kind, p)
  <2>1. /\ circle[k] = "sent" /\ Call(kind, p) /\ circle' = [circle EXCEPT ![k] = "done"]
        /\ UNCHANGED <<store, judge>> /\ UNCHANGED <<req, work>> /\ pool' = pool /\ faults' = faults
    BY <1>1 DEF Executes, WalletStep
  <2>2. ArcProofs!IInv /\ Reserved /\ faults \in 0..MaxFaults
    BY DEF PlayInv, TypeOK, StoreTypeOK
  <2>3. /\ ArcProofs!Next /\ Grows(onArc, onArc')
        /\ \/ onArc'.challenger \in {onArc.challenger, None}
           \/ kind = "JOIN" /\ onArc'.challenger = p
        /\ onArc'.state = "SETTLED" => onArc.state = "SETTLED"
    BY <2>1, <2>2, CallStep
  <2>4. onArc'.challenger \in {None, joinIntent}
    BY <2>1, <2>2, <2>3 DEF Reserved
  <2>5. /\ circle' \in [Keys -> {"none", "sent", "done", "failed"}]
        /\ \A x \in Keys : circle[x] = "none" => circle'[x] = "none"
    BY <1>0, <2>1, Typed
  <2>6. ArcProofs!IInv'
    BY <2>2, <2>3, BooksKept
  <2> QED BY <2>1, <2>2, <2>3, <2>4, <2>5, <2>6, ArcKeeps
<1>2. CASE Fails(kind, p)
  <2>1. /\ circle[k] = "sent" /\ circle' = [circle EXCEPT ![k] = "failed"]
        /\ UNCHANGED <<store, judge>> /\ UNCHANGED <<req, work>> /\ pool' = pool
        /\ UNCHANGED <<chain, now>> /\ faults' \in 0..MaxFaults
    BY <1>2, StoreAssumption DEF Fails, WalletStep, PlayInv, TypeOK, StoreTypeOK
  <2>2. ArcProofs!IInv' /\ onArc' = onArc
    BY <2>1, BooksKept DEF PlayInv, chain, onArc
  <2>3. /\ circle' \in [Keys -> {"none", "sent", "done", "failed"}]
        /\ \A x \in Keys : circle[x] = "none" => circle'[x] = "none"
    BY <1>0, <2>1, Typed
  <2> QED BY <2>1, <2>2, <2>3, GrowsNot, ArcKeeps DEF PlayInv, Reserved
<1> QED BY <1>1, <1>2 DEF WalletStep

LEMMA TimeKeeps == ASSUME PlayInv, TimeStep PROVE PlayInv'
<1>1. Arc!Tick /\ UNCHANGED <<store, judge>> /\ UNCHANGED <<req, work>> /\ pool' = pool
      /\ circle' = circle /\ faults' = faults
  BY DEF TimeStep, Passes
<1>2. ArcProofs!Next /\ onArc' = onArc
  BY <1>1 DEF ArcProofs!Next, ArcProofs!Tick, Arc!Tick, Arc!token, ArcProofs!token, onArc
<1>3. ArcProofs!IInv'
  BY <1>2, BooksKept DEF PlayInv
<1>4. faults \in 0..MaxFaults
  BY DEF PlayInv, TypeOK, StoreTypeOK
<1> QED BY <1>1, <1>2, <1>3, <1>4, Typed, GrowsNot, ArcKeeps DEF PlayInv, Reserved

\* An operator transaction that its sender no longer waits for.
LEMMA LandKeeps == ASSUME PlayInv, LandStep PROVE PlayInv'
<1>1. UNCHANGED <<store, judge>> /\ UNCHANGED <<req, work>> /\ circle' = circle /\ faults' = faults
  BY DEF LandStep, Lands
<1>2. ArcProofs!IInv /\ Reserved /\ faults \in 0..MaxFaults
  BY DEF PlayInv, TypeOK, StoreTypeOK
<1>3. CASE Arc!ExpireRoom(RoomId) /\ pool' = pool \ {"expire"}
  <2>1. /\ ArcProofs!Next /\ Grows(onArc, onArc') /\ onArc'.challenger = onArc.challenger
        /\ onArc'.state = "REFUNDABLE"
    BY <1>2, <1>3, ExpireStep
  <2>2. ArcProofs!IInv'
    BY <1>2, <2>1, BooksKept
  <2> QED BY <1>1, <1>2, <1>3, <2>1, <2>2, Typed, ArcKeeps DEF Reserved
<1>4. CASE "settle" \in pool /\ Arc!Settle(Operator, RoomId, settleIntent.winner)
           /\ pool' = pool \ {"settle"}
  <2>1. settleIntent # NoIntent /\ settleIntent.winner \in Principals
    BY <1>4 DEF PlayInv, TypeOK, StoreTypeOK, SettleIntent
  <2>2. /\ ArcProofs!Next /\ Grows(onArc, onArc') /\ onArc'.challenger = onArc.challenger
        /\ onArc'.state = "SETTLED" /\ onArc'.winner = settleIntent.winner
    BY <1>2, <1>4, <2>1, SettleStep
  <2>3. ArcProofs!IInv'
    BY <1>2, <2>2, BooksKept
  <2>4. Holds(joinIntent, joinIntent)
    BY DEF Holds
  <2>5. TypeOK'
    <3>1. Arc!TypeOK'
      BY <2>3 DEF ArcProofs!IInv, ArcProofs!TypeOK, ArcProofs!Room, ArcProofs!State,
             Arc!TypeOK, Arc!Room, Arc!State
    <3> QED BY <1>1, <1>4, <3>1
            DEF PlayInv, TypeOK, StoreTypeOK, RequestTypeOK, WorkTypeOK, store, intents
  <2>6. Sound(row, onArc', joinIntent)
    BY <2>2, <2>4, Typed, SoundStays
  <2>7. ASSUME NEW h \in Handlers PROVE Asking(req[h], onArc', joinIntent)
    BY <2>2, <2>4, AskingStays DEF PlayInv
  <2>8. ASSUME NEW w \in Workers PROVE Doing(work[w], onArc', joinIntent, settleIntent, refundIntent)
    BY <2>2, <2>4, DoingStays DEF PlayInv
  <2>9. Founded(onArc', judge, settleIntent)
    BY <2>1, <2>2 DEF PlayInv, Founded, Grows, Named, Undepositable
  <2> QED BY <1>1, <1>2, <1>4, <2>1, <2>2, <2>3, <2>5, <2>6, <2>7, <2>8, <2>9
          DEF PlayInv, Reserved, store, intents
<1> QED BY <1>3, <1>4 DEF LandStep, Lands

-----------------------------------------------------------------------------
(* The worker: what the ends of a tick write. *)

LEMMA Busied ==
    ASSUME PlayInv, NEW w \in Workers, work[w] # Resting
    PROVE  /\ work[w] \in Works /\ work[w].copy \in Row /\ work[w].seen \in Progress
           /\ Doing(work[w], onArc, joinIntent, settleIntent, refundIntent)
           /\ Sound(work[w].copy, onArc, joinIntent)
<1>1. Doing(work[w], onArc, joinIntent, settleIntent, refundIntent)
  BY DEF PlayInv
<1>2. work[w] \in Works
  BY Typed
<1> QED BY <1>1, <1>2 DEF Doing, Works

LEMMA Stepped ==
    ASSUME PlayInv, NEW w \in Workers, work[w] # Resting, NEW next \in TickStops, Moves(w, next)
    PROVE  \E x \in Works : /\ work' = [work EXCEPT ![w] = x]
                            /\ x.at = next /\ x.copy = work[w].copy
<1> DEFINE x == [work[w] EXCEPT !.at = next]
<1>1. x \in Works /\ x.at = next /\ x.copy = work[w].copy
  BY Busied DEF Works
<1>2. work' = [work EXCEPT ![w] = x]
  BY DEF Moves
<1> HIDE DEF x
<1> QED BY <1>1, <1>2

LEMMA Rested ==
    ASSUME PlayInv, NEW w \in Workers, Rests(w)
    PROVE  /\ work' = [work EXCEPT ![w] = Resting]
           /\ lease' \in [owner : Workers \cup {None}, until : Nat]
           /\ \A arc, i, s, f : Doing(Resting, arc, i, s, f)
BY Typed DEF Rests, Released, NoLease, Doing

LEMMA Product == ASSUME NEW a \in Nat, NEW b \in Nat PROVE a * b \in Nat
OBVIOUS

LEMMA Deferred ==
    ASSUME PlayInv, NEW w \in Workers, NEW code \in Failures, Defers(w, code)
    PROVE  /\ Rests(w) /\ progress' \in Progress
           /\ row' \in Row /\ Sound(row', onArc, joinIntent)
<1> DEFINE n == Least(progress.arcFailures + 1, RetryBudget + 1)
           times == Least(RetryBudget, n)
           next == now + RetryDelay * times
<1>1. progress.arcFailures \in Nat
  BY Typed DEF Progress
<1>2. n \in Nat
  BY <1>1, WorkerAssumption DEF Least
<1>3. next \in Nat
  <2> HIDE DEF n
  <2>1. times \in Nat
    BY <1>2, WorkerAssumption DEF Least
  <2> HIDE DEF times
  <2>2. RetryDelay * times \in Nat
    BY <2>1, WorkerAssumption, Product
  <2> QED BY <2>2, Typed
<1>4. /\ progress' = [progress EXCEPT
            !.phase = IF n >= RetryBudget THEN "RECOVERY_REQUIRED" ELSE "ARC_SETTLEMENT",
            !.arcFailures = n, !.nextAt = next]
      /\ row' = [row EXCEPT !.stage = "RETRYING", !.failure = code, !.attempts = n]
      /\ Rests(w)
  BY DEF Defers
<1> HIDE DEF n, next
<1>5. progress' \in Progress
  BY <1>2, <1>3, <1>4, Typed DEF Progress
<1>6. /\ row' \in Row /\ row'.state = row.state /\ row'.challenger = row.challenger
      /\ row'.joinTx = row.joinTx
  BY <1>2, <1>4, Typed DEF Row, Stages
<1> QED BY <1>4, <1>5, <1>6, Typed, SoundFields

LEMMA CompletesTyped ==
    ASSUME PlayInv, NEW tx \in 0..Scenarios, Completes(tx)
    PROVE  progress' \in Progress
BY Typed DEF Completes, Progress

\* A copy to which Arc's decision is written.
LEMMA Ended ==
    ASSUME NEW c \in Row, NEW state \in Terminals, NEW failure \in Failures,
           NEW arc, NEW i, Sound(c, arc, i), arc.state = state
    PROVE  /\ Terminal(c, state, failure) \in Row
           /\ Sound(Terminal(c, state, failure), arc, i)
<1> DEFINE d == Terminal(c, state, failure)
<1>1. /\ d \in Row /\ d.state = state /\ d.challenger = c.challenger /\ d.joinTx = c.joinTx
  BY DEF Terminal, Row, Stages, Terminals
<1> HIDE DEF d
<1>2. Sound(d, arc, i)
  BY <1>1 DEF Sound, Terminals
<1> QED BY <1>1, <1>2 DEF d

\* The transaction a row names does not matter to it.
LEMMA NamedRow ==
    ASSUME NEW c \in Row, NEW arc, NEW i, Sound(c, arc, i), NEW tx \in 0..Scenarios
    PROVE  /\ [c EXCEPT !.verdictTx = tx] \in Row
           /\ Sound([c EXCEPT !.verdictTx = tx], arc, i)
           /\ [c EXCEPT !.verdictTx = tx, !.verdictAttempt = tx] \in Row
           /\ Sound([c EXCEPT !.verdictTx = tx, !.verdictAttempt = tx], arc, i)
<1> DEFINE d == [c EXCEPT !.verdictTx = tx]
           e == [c EXCEPT !.verdictTx = tx, !.verdictAttempt = tx]
<1>1. d \in Row /\ d.state = c.state /\ d.challenger = c.challenger /\ d.joinTx = c.joinTx
  BY DEF Row
<1>2. e \in Row /\ e.state = c.state /\ e.challenger = c.challenger /\ e.joinTx = c.joinTx
  BY DEF Row
<1> HIDE DEF d, e
<1>3. Sound(d, arc, i) /\ Sound(e, arc, i)
  BY <1>1, <1>2, SoundFields
<1> QED BY <1>1, <1>2, <1>3 DEF d, e

LEMMA Refunded ==
    ASSUME PlayInv, NEW w \in Workers, work[w] # Resting, NEW failure \in Failures,
           NEW tx \in 0..Scenarios, onArc.state = "REFUNDABLE", RecordsRefund(w, failure, tx)
    PROVE  /\ Rests(w) /\ progress' \in Progress
           /\ row' \in Row /\ Sound(row', onArc, joinIntent)
<1> DEFINE done == Terminal(work[w].copy, "REFUNDABLE", failure)
           named == IF tx = 0 THEN done.verdictTx ELSE tx
<1>1. done \in Row /\ Sound(done, onArc, joinIntent)
  BY Busied, Ended DEF Terminals
<1>2. row' = [done EXCEPT !.verdictTx = named] /\ Completes(tx) /\ Rests(w)
  BY DEF RecordsRefund
<1> HIDE DEF done
<1>3. named \in 0..Scenarios
  BY <1>1 DEF Row
<1> HIDE DEF named
<1> QED BY <1>1, <1>2, <1>3, NamedRow, CompletesTyped

\* A tick that ends with the row and the progress written.
LEMMA EndsTick ==
    ASSUME PlayInv, NEW w \in Workers, Rests(w),
           row' \in Row, Sound(row', onArc, joinIntent), progress' \in Progress,
           Unjudged, OutsideFixed, UNCHANGED req
    PROVE  PlayInv'
BY Rested, UnjudgedKeeps

-----------------------------------------------------------------------------
(* The worker, one action at a time. *)

LEMMA ClaimKeeps ==
    ASSUME PlayInv, NEW w \in Workers, UNCHANGED req, Claim(w)
    PROVE  PlayInv'
<1> DEFINE x == Working("look", row, progress)
<1>1. /\ work' = [work EXCEPT ![w] = x] /\ row' = row /\ progress' = progress
      /\ lease' = [owner |-> w, until |-> Least(now + LeaseTime, Horizon)]
      /\ Unjudged /\ OutsideFixed
  BY DEF Claim
<1>2. x \in Works /\ Doing(x, onArc, joinIntent, settleIntent, refundIntent)
  BY Typed DEF Working, Works, TickStops, Doing
<1>3. lease' \in [owner : Workers \cup {None}, until : Nat]
  <2>1. Least(now + LeaseTime, Horizon) \in Nat
    BY Typed, WorkerAssumption, StoreAssumption DEF Least
  <2> QED BY <1>1, <2>1
<1> HIDE DEF x
<1> QED BY <1>1, <1>2, <1>3, Typed, UnjudgedKeeps

\* A look that finds Arc decided.
LEMMA RecordKeeps ==
    ASSUME PlayInv, NEW w \in Workers, UNCHANGED req, RecordSettled(w) \/ RecordRefunded(w)
    PROVE  PlayInv'
<1>1. CASE RecordSettled(w)
  <2> DEFINE done == Terminal(work[w].copy, "SETTLED", "NONE")
             a == settleIntent.attempt
  <2>1. /\ work[w] # Resting /\ onArc.state = "SETTLED" /\ Rests(w) /\ Unjudged /\ OutsideFixed
        /\ row' = IF settleIntent = NoIntent THEN done
                  ELSE [done EXCEPT !.verdictTx = a, !.verdictAttempt = a]
        /\ Completes(IF settleIntent = NoIntent THEN 0 ELSE a)
    BY <1>1 DEF RecordSettled, Looks, Busy
  <2>2. done \in Row /\ Sound(done, onArc, joinIntent)
    BY <2>1, Busied, Ended DEF Terminals, Failures
  <2>3. settleIntent # NoIntent => a \in 0..Scenarios
    BY DEF PlayInv, TypeOK, StoreTypeOK, SettleIntent, Attempts
  <2> HIDE DEF done, a
  <2>4. row' \in Row /\ Sound(row', onArc, joinIntent)
    BY <2>1, <2>2, <2>3, NamedRow
  <2>5. (IF settleIntent = NoIntent THEN 0 ELSE a) \in 0..Scenarios
    BY <2>3, StoreAssumption
  <2>6. progress' \in Progress
    BY <2>1, <2>5, CompletesTyped
  <2> QED BY <2>1, <2>4, <2>6, EndsTick
<1>2. CASE RecordRefunded(w)
  <2> DEFINE failure == IF refundIntent = NoIntent THEN "NONE" ELSE refundIntent.failure
  <2>1. /\ work[w] # Resting /\ onArc.state = "REFUNDABLE" /\ Unjudged /\ OutsideFixed
        /\ RecordsRefund(w, failure, 0)
    BY <1>2 DEF RecordRefunded, Looks, Busy
  <2>2. failure \in Failures /\ 0 \in 0..Scenarios
    BY StoreAssumption DEF PlayInv, TypeOK, StoreTypeOK, RefundIntent, Failures
  <2> HIDE DEF failure
  <2>3. Rests(w) /\ progress' \in Progress /\ row' \in Row /\ Sound(row', onArc, joinIntent)
    BY <2>1, <2>2, Refunded
  <2> QED BY <2>1, <2>3, EndsTick
<1> QED BY <1>1, <1>2

\* A tick that goes on to another await with its copy of the row, and stores
\* nothing.
LEMMA StepsOn ==
    ASSUME PlayInv, NEW w \in Workers, work[w] # Resting, NEW next \in TickStops, Moves(w, next),
           next \notin {"judge", "poll", "settle", "settled", "refund", "refund2", "deliver"},
           row' = row, progress' = progress, lease' = lease,
           Unjudged, OutsideFixed, UNCHANGED req
    PROVE  PlayInv'
<1>1. PICK x \in Works : /\ work' = [work EXCEPT ![w] = x]
                         /\ x.at = next /\ x.copy = work[w].copy
  BY Stepped
<1>2. Doing(x, onArc, joinIntent, settleIntent, refundIntent)
  BY <1>1, Busied DEF Doing
<1> QED BY <1>1, <1>2, Typed, UnjudgedKeeps

LEMMA FollowKeeps ==
    ASSUME PlayInv, NEW w \in Workers, UNCHANGED req, FollowJoin(w)
    PROVE  PlayInv'
<1> DEFINE copy == work[w].copy
           joined == [copy EXCEPT !.state = "JOINED", !.stage = "QUEUED",
                                  !.failure = "NONE", !.attempts = 0]
<1>1. /\ work[w] # Resting /\ Bound(copy) /\ copy.state = "JOINING"
      /\ progress' = progress /\ Unjudged /\ OutsideFixed
      /\ \/ Moves(w, "expire") /\ row' = row /\ lease' = lease
         \/ /\ row' = IF onArc.state = "JOINED" /\ copy.joinTx THEN joined ELSE row
            /\ Rests(w)
  BY DEF FollowJoin, Looks, Busy, Undecided
<1>2. CASE Moves(w, "expire") /\ row' = row /\ lease' = lease
  BY <1>1, <1>2, StepsOn DEF TickStops
<1>3. CASE /\ row' = IF onArc.state = "JOINED" /\ copy.joinTx THEN joined ELSE row
           /\ Rests(w)
  <2>1. copy \in Row /\ Sound(copy, onArc, joinIntent)
    BY <1>1, Busied
  <2>2. /\ joined \in Row /\ joined.state = "JOINED"
        /\ joined.challenger = copy.challenger /\ joined.joinTx = copy.joinTx
    BY <2>1 DEF Row, Stages, Failures
  <2>3. onArc.state = "JOINED" => copy.challenger = onArc.challenger
    BY <1>1 DEF Bound
  <2> HIDE DEF joined
  <2>4. onArc.state = "JOINED" /\ copy.joinTx => Sound(joined, onArc, joinIntent)
    BY <2>1, <2>2, <2>3 DEF Sound, Undepositable, Terminals
  <2>5. row' \in Row /\ Sound(row', onArc, joinIntent)
    BY <1>3, <2>2, <2>4, Typed
  <2> QED BY <1>1, <1>3, <2>5, Typed, EndsTick
<1> QED BY <1>1, <1>2, <1>3

\* A look that ends the tick, or goes on to the expiry of the room.
LEMMA LookKeeps ==
    ASSUME PlayInv, NEW w \in Workers, UNCHANGED req,
           Disagree(w) \/ ExpireDue(w) \/ WaitForChallenger(w) \/ Waits(w)
    PROVE  PlayInv'
<1>1. CASE Disagree(w)
  <2>1. Defers(w, "ARC_ERROR") /\ "ARC_ERROR" \in Failures /\ Unjudged /\ OutsideFixed
    BY <1>1 DEF Disagree, Looks, Failures
  <2> QED BY <2>1, Deferred, EndsTick
<1>2. CASE ExpireDue(w)
  BY <1>2, StepsOn DEF ExpireDue, Looks, Busy, TickStops
<1>3. CASE WaitForChallenger(w)
  BY <1>3, Typed, EndsTick DEF WaitForChallenger, Looks
<1>4. CASE Waits(w)
  <2>1. /\ work[w] # Resting /\ Rests(w) /\ progress' = progress /\ Unjudged /\ OutsideFixed
        /\ \/ row' = row
           \/ \E code \in ErrorCodes : row' = [work[w].copy EXCEPT !.failure = code]
    BY <1>4 DEF Waits, Evaluating, Playing, Looks, Busy
  <2>2. ASSUME NEW code \in ErrorCodes, row' = [work[w].copy EXCEPT !.failure = code]
        PROVE  row' \in Row /\ Sound(row', onArc, joinIntent)
    <3>1. work[w].copy \in Row /\ Sound(work[w].copy, onArc, joinIntent) /\ code \in Failures
      BY <2>1, Busied, StoreAssumption
    <3>2. /\ row' \in Row /\ row'.state = work[w].copy.state
          /\ row'.challenger = work[w].copy.challenger /\ row'.joinTx = work[w].copy.joinTx
      BY <2>2, <3>1 DEF Row
    <3> QED BY <3>1, <3>2, SoundFields
  <2> QED BY <2>1, <2>2, Typed, EndsTick
<1> QED BY <1>1, <1>2, <1>3, <1>4

-----------------------------------------------------------------------------
(* Refunds. *)

LEMMA NoJoinAsked ==
    ASSUME PlayInv, NEW kind, kind # "JOIN", NEW ps, circle' = Submitted({kind} \X ps)
    PROVE  /\ circle' \in [Keys -> {"none", "sent", "done", "failed"}]
           /\ \A p \in Principals : circle'[<<"JOIN", p>>] = circle[<<"JOIN", p>>]
<1>1. ASSUME NEW p \in Principals PROVE circle'[<<"JOIN", p>>] = circle[<<"JOIN", p>>]
  <2>1. <<"JOIN", p>> \in Keys /\ <<"JOIN", p>> \notin {kind} \X ps
    BY DEF Keys, Kinds
  <2> QED BY <2>1, SubmittedKeeps DEF PlayInv
<1> QED BY <1>1, SubmittedKeeps DEF PlayInv

LEMMA OneAsked == ASSUME NEW kind, NEW p PROVE {<<kind, p>>} = {kind} \X {p}
OBVIOUS

LEMMA RefundStarted ==
    ASSUME PlayInv, NEW w \in Workers, work[w] # Resting, NEW intent \in RefundIntent,
           StartsRefund(w, intent)
    PROVE  /\ row' \in Row /\ Sound(row', onArc, joinIntent) /\ lease' = lease
           /\ circle' \in [Keys -> {"none", "sent", "done", "failed"}]
           /\ \A p \in Principals : circle'[<<"JOIN", p>>] = circle[<<"JOIN", p>>]
           /\ \E x \in Works : /\ work' = [work EXCEPT ![w] = x]
                               /\ x.at = "refund" /\ x.copy = work[w].copy
<1> DEFINE copy == work[w].copy
           tx == IF intent.verdictTx = 0 THEN copy.verdictTx ELSE intent.verdictTx
<1>1. copy \in Row /\ Sound(copy, onArc, joinIntent)
  BY Busied
<1>2. tx \in 0..Scenarios /\ intent.failure \in Failures
  BY <1>1 DEF RefundIntent, Row
<1>3. /\ row' = [copy EXCEPT !.stage = "REFUNDING", !.failure = intent.failure, !.verdictTx = tx]
      /\ circle' = Submitted({<<"AUTO_CANCEL", Creator>>})
      /\ Moves(w, "refund") /\ lease' = lease
  BY DEF StartsRefund
<1> HIDE DEF tx
<1>4. /\ row' \in Row /\ row'.state = copy.state
      /\ row'.challenger = copy.challenger /\ row'.joinTx = copy.joinTx
  BY <1>1, <1>2, <1>3 DEF Row, Stages
<1>5. Sound(row', onArc, joinIntent)
  BY <1>1, <1>4, SoundFields
<1>6. \E x \in Works : /\ work' = [work EXCEPT ![w] = x]
                       /\ x.at = "refund" /\ x.copy = work[w].copy
  BY <1>3, Stepped DEF TickStops
<1>7. circle' = Submitted({"AUTO_CANCEL"} \X {Creator})
  BY <1>3, OneAsked
<1> QED BY <1>3, <1>4, <1>5, <1>6, <1>7, NoJoinAsked

\* A judgment that another poll may not contradict.
JudgeKept ==
    /\ judge' \in [Attempts -> {"idle", "pending", "A_WIN", "B_WIN", "TIE", "NO_CONSENSUS"}]
    /\ \A a \in Attempts : judge[a] \notin {"idle", "pending"} => judge'[a] = judge[a]

LEMMA QueueKeeps ==
    ASSUME PlayInv, NEW w \in Workers, work[w] # Resting, UNCHANGED req,
           NEW failure \in Failures, NEW tx \in 0..Scenarios, QueuesRefund(w, failure, tx),
           settleIntent' = settleIntent, JudgeKept, OutsideFixed
    PROVE  PlayInv'
<1> DEFINE intent == [failure |-> failure, verdictTx |-> tx]
           named == IF tx = 0 THEN progress.verdictTx ELSE tx
<1>1. intent \in RefundIntent /\ intent # NoIntent /\ named \in 0..Scenarios
  BY Typed DEF RefundIntent, NoIntent, Progress
<1>2. CASE /\ refundIntent' = intent /\ StartsRefund(w, intent)
           /\ progress' = [progress EXCEPT !.phase = "ARC_SETTLEMENT", !.nextAt = 0,
                                           !.verdictTx = named]
  <2> HIDE DEF intent, named
  <2>1. progress' \in Progress
    BY <1>1, <1>2, Typed DEF Progress
  <2>2. PICK x \in Works : /\ work' = [work EXCEPT ![w] = x]
                           /\ x.at = "refund" /\ x.copy = work[w].copy
    BY <1>1, <1>2, RefundStarted
  <2>3. Doing(x, onArc, joinIntent, settleIntent', refundIntent')
    BY <1>1, <1>2, <2>2, Busied DEF Doing
  <2>4. /\ row' \in Row /\ Sound(row', onArc, joinIntent) /\ lease' = lease
        /\ circle' \in [Keys -> {"none", "sent", "done", "failed"}]
        /\ \A p \in Principals : circle'[<<"JOIN", p>>] = circle[<<"JOIN", p>>]
    BY <1>1, <1>2, RefundStarted
  <2> QED BY <1>1, <1>2, <2>1, <2>2, <2>3, <2>4, Typed, QuietWorkerKeeps DEF JudgeKept
<1>3. CASE Defers(w, "ARC_ERROR") /\ refundIntent' = refundIntent /\ circle' = circle
  <2>1. /\ Rests(w) /\ progress' \in Progress /\ row' \in Row /\ Sound(row', onArc, joinIntent)
    BY <1>3, Deferred DEF Failures
  <2>2. refundIntent \in RefundIntent \cup {NoIntent}
    BY DEF PlayInv, TypeOK, StoreTypeOK
  <2> QED BY <1>3, <2>1, <2>2, Rested, Typed, QuietWorkerKeeps DEF JudgeKept
<1> QED BY <1>2, <1>3 DEF QueuesRefund

LEMMA RetryKeeps ==
    ASSUME PlayInv, NEW w \in Workers, UNCHANGED req, RetryRefund(w)
    PROVE  PlayInv'
<1>1. /\ work[w] # Resting /\ refundIntent # NoIntent
      /\ progress' = progress /\ OutsideFixed
      /\ settleIntent' = settleIntent /\ refundIntent' = refundIntent /\ judge' = judge
      /\ \/ StartsRefund(w, refundIntent)
         \/ Rests(w) /\ row' = row /\ circle' = circle
  BY DEF RetryRefund, Playing, Looks, Busy
<1>2. refundIntent \in RefundIntent /\ JudgeKept
  BY <1>1 DEF PlayInv, TypeOK, StoreTypeOK, JudgeKept
<1>3. CASE StartsRefund(w, refundIntent)
  <2>1. PICK x \in Works : /\ work' = [work EXCEPT ![w] = x]
                           /\ x.at = "refund" /\ x.copy = work[w].copy
    BY <1>1, <1>2, <1>3, RefundStarted
  <2>2. Doing(x, onArc, joinIntent, settleIntent', refundIntent')
    BY <1>1, <2>1, Busied DEF Doing
  <2>3. /\ row' \in Row /\ Sound(row', onArc, joinIntent) /\ lease' = lease
        /\ circle' \in [Keys -> {"none", "sent", "done", "failed"}]
        /\ \A p \in Principals : circle'[<<"JOIN", p>>] = circle[<<"JOIN", p>>]
    BY <1>1, <1>2, <1>3, RefundStarted
  <2> QED BY <1>1, <1>2, <2>1, <2>2, <2>3, Typed, QuietWorkerKeeps DEF JudgeKept
<1>4. CASE Rests(w) /\ row' = row /\ circle' = circle
  BY <1>1, <1>4, Typed, EndsTick DEF Unjudged
<1> QED BY <1>1, <1>3, <1>4

LEMMA RecordedKeeps ==
    ASSUME PlayInv, NEW w \in Workers, UNCHANGED req, RefundRecordedFailure(w)
    PROVE  PlayInv'
<1> DEFINE copy == work[w].copy
<1>1. /\ work[w] # Resting /\ QueuesRefund(w, copy.failure, copy.verdictTx) /\ OutsideFixed
      /\ settleIntent' = settleIntent /\ judge' = judge
  BY DEF RefundRecordedFailure, Playing, Looks, Busy
<1>2. copy \in Row
  BY <1>1, Busied
<1>3. copy.failure \in Failures /\ copy.verdictTx \in 0..Scenarios
  BY <1>2 DEF Row
<1>4. JudgeKept
  BY <1>1 DEF PlayInv, TypeOK, StoreTypeOK, JudgeKept
<1> QED BY <1>1, <1>3, <1>4, QueueKeeps

-----------------------------------------------------------------------------
(* Judging and settling. *)

\* A joined room that is looked at before its deadline is joined on the copy.
LEMMA StartJudgingKeeps ==
    ASSUME PlayInv, NEW w \in Workers, UNCHANGED req, StartJudging(w)
    PROVE  PlayInv'
<1> DEFINE copy == work[w].copy
           next == IF judge[Attempt(copy)] = "idle" THEN "judge" ELSE "poll"
           x == Working(next, copy, progress)
<1>1. /\ work[w] # Resting /\ copy.state = "JOINED" /\ OutsideFixed /\ Unjudged
      /\ row' = [copy EXCEPT !.stage = "RUNNING_AGENTS", !.failure = "NONE"]
      /\ work' = [work EXCEPT ![w] = x]
      /\ progress' = progress /\ lease' = lease
  BY Typed DEF StartJudging, Evaluating, Playing, Looks, Busy
<1>2. copy \in Row /\ Sound(copy, onArc, joinIntent)
  BY <1>1, Busied
<1>3. /\ row' \in Row /\ row'.state = copy.state
      /\ row'.challenger = copy.challenger /\ row'.joinTx = copy.joinTx
  BY <1>1, <1>2 DEF Row, Stages, Failures
<1>4. Sound(row', onArc, joinIntent)
  BY <1>2, <1>3, SoundFields
<1>5. x \in Works /\ x.at \in {"judge", "poll"} /\ x.copy = copy
  BY <1>2, Typed DEF Working, Works, TickStops
<1> HIDE DEF x
<1>6. Doing(x, onArc, joinIntent, settleIntent, refundIntent)
  BY <1>1, <1>2, <1>5 DEF Doing
<1> QED BY <1>1, <1>3, <1>4, <1>5, <1>6, Typed, UnjudgedKeeps

\* The step from the stored settlement intent to the operator's transaction.
LEMMA SettlingStarted ==
    ASSUME PlayInv, NEW w \in Workers, work[w] # Resting, NEW intent \in SettleIntent,
           StartsSettling(w, intent)
    PROVE  /\ row' \in Row /\ Sound(row', onArc, joinIntent) /\ lease' = lease
           /\ \E x \in Works : /\ work' = [work EXCEPT ![w] = x]
                               /\ x.at = "settle" /\ x.copy = work[w].copy
<1> DEFINE copy == work[w].copy
           a == intent.attempt
<1>1. copy \in Row /\ Sound(copy, onArc, joinIntent)
  BY Busied
<1>2. a \in 0..Scenarios
  BY DEF SettleIntent, Attempts
<1>3. /\ row' = [copy EXCEPT !.stage = "SETTLING", !.failure = "NONE", !.verdictTx = a]
      /\ Moves(w, "settle") /\ lease' = lease
  BY DEF StartsSettling
<1> HIDE DEF a
<1>4. /\ row' \in Row /\ row'.state = copy.state
      /\ row'.challenger = copy.challenger /\ row'.joinTx = copy.joinTx
  BY <1>1, <1>2, <1>3 DEF Row, Stages, Failures
<1>5. Sound(row', onArc, joinIntent)
  BY <1>1, <1>4, SoundFields
<1> QED BY <1>3, <1>4, <1>5, Stepped DEF TickStops

LEMMA ResumeKeeps ==
    ASSUME PlayInv, NEW w \in Workers, UNCHANGED req, ResumeSettling(w)
    PROVE  PlayInv'
<1>1. /\ work[w] # Resting /\ settleIntent # NoIntent /\ StartsSettling(w, settleIntent)
      /\ progress' = progress /\ Unjudged /\ OutsideFixed
  BY DEF ResumeSettling, Evaluating, Playing, Looks, Busy
<1>2. settleIntent \in SettleIntent
  BY <1>1 DEF PlayInv, TypeOK, StoreTypeOK
<1>3. PICK x \in Works : /\ work' = [work EXCEPT ![w] = x]
                         /\ x.at = "settle" /\ x.copy = work[w].copy
  BY <1>1, <1>2, SettlingStarted
<1>4. Doing(x, onArc, joinIntent, settleIntent, refundIntent)
  BY <1>1, <1>3, Busied DEF Doing
<1>5. row' \in Row /\ Sound(row', onArc, joinIntent) /\ lease' = lease
  BY <1>1, <1>2, SettlingStarted
<1> QED BY <1>1, <1>3, <1>4, <1>5, Typed, UnjudgedKeeps

\* A judged tick, and the attempt it judges.
LEMMA InJudgment ==
    ASSUME PlayInv, NEW w \in Workers, Judging(w)
    PROVE  /\ work[w] # Resting /\ work[w].copy \in Row /\ work[w].copy.state = "JOINED"
           /\ work[w].seen \in Progress
           /\ Sound(work[w].copy, onArc, joinIntent)
           /\ Attempt(work[w].copy) \in Attempts /\ Attempt(work[w].copy) \in 0..Scenarios
           /\ OutsideFixed
<1>1. work[w] # Resting /\ work[w].at \in {"judge", "poll"} /\ OutsideFixed
  BY DEF Judging, Busy
<1>2. work[w].copy.attempts \in Nat
  BY <1>1, Busied DEF Row
<1>3. Attempt(work[w].copy) \in Attempts /\ Attempt(work[w].copy) \in 0..Scenarios
  BY <1>2, StoreAssumption DEF Attempt, Attempts, Least
<1> QED BY <1>1, <1>3, Busied DEF Doing

Verdicts == {"pending", "A_WIN", "B_WIN", "TIE", "NO_CONSENSUS"}

\* Reading a verdict keeps every one that was final.
LEMMA VerdictKept ==
    ASSUME PlayInv, NEW w \in Workers, Judging(w), NEW v \in Verdicts, Judges(w, v)
    PROVE  JudgeKept /\ judge'[Attempt(work[w].copy)] = v
<1> DEFINE a == Attempt(work[w].copy)
<1>1. a \in Attempts
  BY InJudgment
<1>2. judge[a] \in {"idle", "pending", v} /\ judge' = [judge EXCEPT ![a] = v]
  BY DEF Judges
<1>3. judge \in [Attempts -> {"idle", "pending", "A_WIN", "B_WIN", "TIE", "NO_CONSENSUS"}]
  BY DEF PlayInv, TypeOK, StoreTypeOK
<1> HIDE DEF a
<1>4. judge'[a] = v /\ JudgeKept
  BY <1>1, <1>2, <1>3 DEF JudgeKept, Verdicts
<1> QED BY <1>4 DEF a

\* The judgment ends in a failure, in no consensus for the last time, or in a tie.
LEMMA JudgedRefund ==
    ASSUME PlayInv, NEW w \in Workers, UNCHANGED req,
           FailEarly(w) \/ FailAfterSubmission(w) \/ Tie(w)
    PROVE  PlayInv'
<1>1. CASE FailEarly(w)
  <2>1. /\ work[w] # Resting /\ OutsideFixed /\ settleIntent' = settleIntent /\ judge' = judge
        /\ \E code \in Immediate : QueuesRefund(w, code, work[w].seen.verdictTx)
    BY <1>1 DEF FailEarly, Busy
  <2>2. work[w].seen.verdictTx \in 0..Scenarios
    BY <2>1, Busied DEF Progress
  <2>3. JudgeKept
    BY <2>1 DEF PlayInv, TypeOK, StoreTypeOK, JudgeKept
  <2> QED BY <2>1, <2>2, <2>3, QueueKeeps DEF Immediate, Failures
<1>2. CASE FailAfterSubmission(w)
  <2> DEFINE a == Attempt(work[w].copy)
  <2>1. /\ Judging(w) /\ settleIntent' = settleIntent
        /\ judge' = [judge EXCEPT ![a] = IF judge[a] = "idle" THEN "pending" ELSE judge[a]]
        /\ \E code \in Immediate \ {"PROVIDER_ERROR"} : QueuesRefund(w, code, a)
    BY <1>2 DEF FailAfterSubmission
  <2>2. a \in Attempts /\ a \in 0..Scenarios /\ work[w] # Resting /\ OutsideFixed
    BY <2>1, InJudgment
  <2>3. judge \in [Attempts -> {"idle", "pending", "A_WIN", "B_WIN", "TIE", "NO_CONSENSUS"}]
    BY DEF PlayInv, TypeOK, StoreTypeOK
  <2> HIDE DEF a
  <2>4. JudgeKept
    BY <2>1, <2>2, <2>3 DEF JudgeKept
  <2> QED BY <2>1, <2>2, <2>4, QueueKeeps DEF Immediate, Failures
<1>3. CASE Tie(w)
  <2>1. /\ Judging(w) /\ Judges(w, "TIE") /\ settleIntent' = settleIntent
        /\ QueuesRefund(w, "NONE", Attempt(work[w].copy))
    BY <1>3 DEF Tie
  <2> QED BY <2>1, InJudgment, VerdictKept, QueueKeeps DEF Verdicts, Failures
<1> QED BY <1>1, <1>2, <1>3

LEMMA PendKeeps ==
    ASSUME PlayInv, NEW w \in Workers, UNCHANGED req, Pend(w)
    PROVE  PlayInv'
<1> DEFINE copy == work[w].copy
           a == Attempt(copy)
<1>1. /\ Judging(w) /\ Judges(w, "pending") /\ Rests(w)
      /\ progress' = [work[w].seen EXCEPT !.phase = "GENLAYER_FINALITY",
                                          !.nextAt = 0, !.verdictTx = a]
      /\ row' = [copy EXCEPT !.stage = "WAITING_VERDICT",
                     !.failure = "VERDICT_PENDING", !.verdictTx = a]
      /\ settleIntent' = settleIntent /\ refundIntent' = refundIntent /\ circle' = circle
  BY DEF Pend
<1>2. /\ copy \in Row /\ work[w].seen \in Progress /\ Sound(copy, onArc, joinIntent)
      /\ a \in 0..Scenarios /\ OutsideFixed
  BY <1>1, InJudgment
<1>3. JudgeKept
  BY <1>1, VerdictKept DEF Verdicts
<1> HIDE DEF a
<1>4. progress' \in Progress
  BY <1>1, <1>2 DEF Progress
<1>5. /\ row' \in Row /\ row'.state = copy.state
      /\ row'.challenger = copy.challenger /\ row'.joinTx = copy.joinTx
  BY <1>1, <1>2 DEF Row, Stages, Failures
<1>6. Sound(row', onArc, joinIntent)
  BY <1>2, <1>5, SoundFields
<1>7. refundIntent \in RefundIntent \cup {NoIntent}
  BY DEF PlayInv, TypeOK, StoreTypeOK
<1> QED BY <1>1, <1>2, <1>3, <1>4, <1>5, <1>6, <1>7, Rested, Typed, QuietWorkerKeeps DEF JudgeKept

LEMMA NoConsensusKeeps ==
    ASSUME PlayInv, NEW w \in Workers, UNCHANGED req, NoConsensus(w)
    PROVE  PlayInv'
<1> DEFINE copy == work[w].copy
           a == Attempt(copy)
           completed == copy.attempts + 1
<1>1. /\ Judging(w) /\ Judges(w, "NO_CONSENSUS") /\ settleIntent' = settleIntent
      /\ \/ /\ progress' = [progress EXCEPT !.phase = "PROVIDER",
                                  !.nextAt = now, !.verdictTx = 0]
            /\ row' = [copy EXCEPT !.stage = "RETRYING",
                          !.failure = "GENLAYER_NO_CONSENSUS",
                          !.attempts = completed, !.verdictTx = a]
            /\ Rests(w) /\ refundIntent' = refundIntent /\ circle' = circle
         \/ QueuesRefund(w, "GENLAYER_NO_CONSENSUS", a)
  BY DEF NoConsensus
<1>2. /\ copy \in Row /\ Sound(copy, onArc, joinIntent) /\ work[w] # Resting
      /\ a \in 0..Scenarios /\ OutsideFixed
  BY <1>1, InJudgment
<1>3. JudgeKept
  BY <1>1, VerdictKept DEF Verdicts
<1>4. CASE QueuesRefund(w, "GENLAYER_NO_CONSENSUS", a)
  BY <1>1, <1>2, <1>3, <1>4, QueueKeeps DEF Failures
<1>5. CASE /\ progress' = [progress EXCEPT !.phase = "PROVIDER",
                                 !.nextAt = now, !.verdictTx = 0]
           /\ row' = [copy EXCEPT !.stage = "RETRYING",
                         !.failure = "GENLAYER_NO_CONSENSUS",
                         !.attempts = completed, !.verdictTx = a]
           /\ Rests(w) /\ refundIntent' = refundIntent /\ circle' = circle
  <2>1. progress' \in Progress
    <3>1. 0 \in 0..Scenarios /\ now \in Nat /\ progress \in Progress
      BY Typed, StoreAssumption
    <3>2. progress' = [progress EXCEPT !.phase = "PROVIDER", !.nextAt = now, !.verdictTx = 0]
      BY <1>5
    <3> QED BY <3>1, <3>2 DEF Progress
  <2>2. completed \in Nat
    BY <1>2 DEF Row
  <2> HIDE DEF a, completed
  <2>3. /\ row' \in Row /\ row'.state = copy.state
        /\ row'.challenger = copy.challenger /\ row'.joinTx = copy.joinTx
    BY <1>2, <1>5, <2>2 DEF Row, Stages, Failures
  <2>4. Sound(row', onArc, joinIntent)
    BY <1>2, <2>3, SoundFields
  <2>5. refundIntent \in RefundIntent \cup {NoIntent}
    BY DEF PlayInv, TypeOK, StoreTypeOK
  <2> QED BY <1>1, <1>2, <1>3, <1>5, <2>1, <2>3, <2>4, <2>5, Rested, Typed, QuietWorkerKeeps
          DEF JudgeKept
<1> QED BY <1>1, <1>4, <1>5

\* A win is settled for the player it names; the first such intent stands.
LEMMA WinKeeps ==
    ASSUME PlayInv, NEW w \in Workers, UNCHANGED req, Win(w)
    PROVE  PlayInv'
<1> DEFINE copy == work[w].copy
           a == Attempt(copy)
<1>1. /\ Judging(w)
      /\ refundIntent' = refundIntent /\ circle' = circle
      /\ StartsSettling(w, settleIntent')
      /\ progress' = [work[w].seen EXCEPT !.phase = "ARC_SETTLEMENT", !.nextAt = 0,
                                         !.verdictTx = settleIntent'.attempt]
      /\ \E v \in {"A_WIN", "B_WIN"} :
            /\ Judges(w, v)
            /\ settleIntent' =
                  IF settleIntent # NoIntent THEN settleIntent
                  ELSE [winner |-> IF v = "A_WIN" THEN Creator ELSE copy.challenger,
                        attempt |-> a]
  BY DEF Win
<1>2. /\ work[w] # Resting /\ copy \in Row /\ copy.state = "JOINED"
      /\ work[w].seen \in Progress /\ Sound(copy, onArc, joinIntent)
      /\ a \in Attempts /\ OutsideFixed
  BY <1>1, InJudgment
<1>3. PICK v \in {"A_WIN", "B_WIN"} :
            /\ Judges(w, v)
            /\ settleIntent' =
                  IF settleIntent # NoIntent THEN settleIntent
                  ELSE [winner |-> IF v = "A_WIN" THEN Creator ELSE copy.challenger,
                        attempt |-> a]
  BY <1>1
<1>4. JudgeKept /\ judge'[a] = v
  BY <1>1, <1>3, VerdictKept DEF Verdicts
<1>5. onArc.state \notin Undepositable /\ onArc.challenger = copy.challenger
  BY <1>2 DEF Sound
<1>6. onArc.challenger \in Challengers /\ copy.challenger \in Principals /\ Creator \in Principals
  BY <1>2, <1>5, StoreAssumption DEF Sound, Row, Principals
<1> HIDE DEF a
<1>7. /\ settleIntent' \in SettleIntent /\ settleIntent' # NoIntent
      /\ settleIntent # NoIntent => settleIntent' = settleIntent
  <2>1. CASE settleIntent # NoIntent
    BY <1>3, <2>1 DEF PlayInv, TypeOK, StoreTypeOK
  <2>2. CASE settleIntent = NoIntent
    <3> DEFINE winner == IF v = "A_WIN" THEN Creator ELSE copy.challenger
               intent == [winner |-> winner, attempt |-> a]
    <3>1. intent \in SettleIntent /\ intent # NoIntent
      BY <1>2, <1>6 DEF SettleIntent, NoIntent
    <3>2. settleIntent' = intent
      BY <1>3, <2>2
    <3> HIDE DEF intent
    <3> QED BY <2>2, <3>1, <3>2
  <2> QED BY <2>1, <2>2
<1>8. Founded(onArc, judge', settleIntent')
  <2>1. CASE settleIntent # NoIntent
    <3>1. /\ settleIntent.winner \in Principals /\ settleIntent.attempt \in Attempts
          /\ settleIntent.winner = Named(judge[settleIntent.attempt], onArc)
      BY <2>1 DEF PlayInv, TypeOK, StoreTypeOK, SettleIntent, Founded
    <3>2. judge[settleIntent.attempt] \in {"A_WIN", "B_WIN"}
      BY <3>1, StoreAssumption DEF Named
    <3>3. judge'[settleIntent.attempt] = judge[settleIntent.attempt]
      BY <1>4, <3>1, <3>2 DEF JudgeKept
    <3> QED BY <1>7, <2>1, <3>3 DEF PlayInv, Founded
  <2>2. CASE settleIntent = NoIntent
    <3> DEFINE winner == IF v = "A_WIN" THEN Creator ELSE copy.challenger
    <3>1. settleIntent' = [winner |-> winner, attempt |-> a]
      BY <1>3, <2>2
    <3>2. settleIntent'.winner = winner /\ settleIntent'.attempt = a
      BY <3>1
    <3>3. onArc.state # "SETTLED"
      BY <2>2 DEF PlayInv, Founded
    <3>4. winner = Named(judge'[settleIntent'.attempt], onArc)
      BY <1>3, <1>4, <1>5, <3>2 DEF Named
    <3> QED BY <1>5, <1>7, <3>2, <3>3, <3>4 DEF Founded
  <2> QED BY <2>1, <2>2
<1>9. /\ row' \in Row /\ Sound(row', onArc, joinIntent) /\ lease' = lease
      /\ \E x \in Works : /\ work' = [work EXCEPT ![w] = x]
                          /\ x.at = "settle" /\ x.copy = copy
  BY <1>1, <1>2, <1>7, SettlingStarted
<1>10. PICK x \in Works : /\ work' = [work EXCEPT ![w] = x]
                          /\ x.at = "settle" /\ x.copy = copy
  BY <1>9
<1>11. Doing(x, onArc, joinIntent, settleIntent', refundIntent')
  BY <1>2, <1>7, <1>10 DEF Doing
<1>12. progress' \in Progress
  <2>1. settleIntent'.attempt \in 0..Scenarios
    BY <1>7 DEF SettleIntent, Attempts
  <2> QED BY <1>1, <1>2, <2>1 DEF Progress
<1>13. /\ onArc' = onArc /\ ArcProofs!IInv' /\ UNCHANGED <<joinIntent, pool, faults>>
  BY <1>2, BooksKept DEF PlayInv, OutsideFixed, HandlersFixed, chain, onArc
<1>14. /\ Grows(onArc, onArc') /\ onArc'.challenger = onArc.challenger
       /\ pool' \subseteq {"expire", "settle"} /\ faults' \in 0..MaxFaults
       /\ refundIntent' \in RefundIntent \cup {NoIntent}
  BY <1>1, <1>13, GrowsNot DEF PlayInv, TypeOK, StoreTypeOK
<1> HIDE DEF copy
<1> QED BY <1>1, <1>4, <1>7, <1>8, <1>9, <1>10, <1>11, <1>12, <1>13, <1>14, Typed, WorkerKeeps
        DEF JudgeKept

-----------------------------------------------------------------------------
(* The operator's transactions. *)

\* A transaction that is mined while its tick waits.
LEMMA OperatorKeeps ==
    ASSUME PlayInv, NEW w \in Workers, UNCHANGED req, work[w] # Resting,
           NEW next \in {"expired", "settled"}, Moves(w, next),
           next = "settled" => settleIntent # NoIntent,
           OperatorFixed, ArcProofs!Next,
           Grows(onArc, onArc'), onArc'.challenger = onArc.challenger,
           onArc'.state = "SETTLED" =>
               settleIntent # NoIntent /\ onArc'.winner = settleIntent.winner
    PROVE  PlayInv'
<1> USE DEF OperatorFixed, HandlersFixed, Unjudged
<1>1. PICK x \in Works : /\ work' = [work EXCEPT ![w] = x]
                         /\ x.at = next /\ x.copy = work[w].copy
  BY Stepped DEF TickStops
<1>2. Holds(joinIntent, joinIntent)
  BY DEF Holds
<1>3. Sound(row, onArc', joinIntent) /\ Sound(work[w].copy, onArc', joinIntent)
  BY <1>2, Typed, Busied, SoundStays
<1>4. Doing(x, onArc', joinIntent, settleIntent', refundIntent')
  BY <1>1, <1>3 DEF Doing
<1>5. Founded(onArc', judge', settleIntent')
  BY DEF PlayInv, Founded, Grows, Named
<1>6. ArcProofs!IInv'
  BY BooksKept DEF PlayInv
<1>7. /\ settleIntent \in SettleIntent \cup {NoIntent}
      /\ refundIntent \in RefundIntent \cup {NoIntent}
      /\ judge \in [Attempts -> {"idle", "pending", "A_WIN", "B_WIN", "TIE", "NO_CONSENSUS"}]
      /\ pool \subseteq {"expire", "settle"} /\ ("settle" \in pool => settleIntent # NoIntent)
      /\ faults \in 0..MaxFaults
  BY DEF PlayInv, TypeOK, StoreTypeOK
<1> QED BY <1>1, <1>3, <1>4, <1>5, <1>6, <1>7, Typed, WorkerKeeps

LEMMA MinedKeeps ==
    ASSUME PlayInv, NEW w \in Workers, UNCHANGED req, Expire(w) \/ Settle(w)
    PROVE  PlayInv'
<1>1. CASE Expire(w)
  <2>1. /\ work[w] # Resting /\ Moves(w, "expired") /\ OperatorFixed
        /\ Arc!ExpireRoom(RoomId) /\ ArcProofs!IInv
    BY <1>1 DEF Expire, Busy, PlayInv
  <2>2. /\ ArcProofs!Next /\ Grows(onArc, onArc') /\ onArc'.challenger = onArc.challenger
        /\ onArc'.state = "REFUNDABLE"
    BY <2>1, ExpireStep
  <2> QED BY <2>1, <2>2, OperatorKeeps
<1>2. CASE Settle(w)
  <2>1. /\ work[w] # Resting /\ work[w].at = "settle" /\ Moves(w, "settled") /\ OperatorFixed
        /\ Arc!Settle(Operator, RoomId, settleIntent.winner) /\ ArcProofs!IInv
    BY <1>2 DEF Settle, Busy, PlayInv
  <2>2. settleIntent # NoIntent
    BY <2>1, Busied DEF Doing
  <2>3. settleIntent.winner \in Principals
    BY <2>2 DEF PlayInv, TypeOK, StoreTypeOK, SettleIntent
  <2>4. /\ ArcProofs!Next /\ Grows(onArc, onArc') /\ onArc'.challenger = onArc.challenger
        /\ onArc'.winner = settleIntent.winner
    BY <2>1, <2>3, SettleStep
  <2> QED BY <2>1, <2>2, <2>4, OperatorKeeps
<1> QED BY <1>1, <1>2

\* What Arc shows afterwards is recorded, or the send is refused.
LEMMA ReadbackKeeps ==
    ASSUME PlayInv, NEW w \in Workers, UNCHANGED req,
           RecordExpired(w) \/ RecordWinner(w) \/ Rejected(w)
    PROVE  PlayInv'
<1>1. CASE RecordExpired(w)
  <2>1. /\ work[w] # Resting /\ onArc.state = "REFUNDABLE" /\ Unjudged /\ OutsideFixed
        /\ RecordsRefund(w, "NONE", 0) /\ "NONE" \in Failures /\ 0 \in 0..Scenarios
    BY <1>1, StoreAssumption DEF RecordExpired, Busy, Failures
  <2>2. Rests(w) /\ progress' \in Progress /\ row' \in Row /\ Sound(row', onArc, joinIntent)
    BY <2>1, Refunded
  <2> QED BY <2>1, <2>2, EndsTick
<1>2. CASE RecordWinner(w)
  <2> DEFINE done == Terminal(work[w].copy, "SETTLED", "NONE")
             a == settleIntent.attempt
  <2>1. /\ work[w] # Resting /\ work[w].at = "settled" /\ onArc.state = "SETTLED"
        /\ Rests(w) /\ Unjudged /\ OutsideFixed
        /\ row' = [done EXCEPT !.verdictTx = a, !.verdictAttempt = a] /\ Completes(a)
    BY <1>2 DEF RecordWinner, Busy
  <2>2. done \in Row /\ Sound(done, onArc, joinIntent)
    BY <2>1, Busied, Ended DEF Terminals, Failures
  <2>3. a \in 0..Scenarios
    BY <2>1, Busied DEF Doing, PlayInv, TypeOK, StoreTypeOK, SettleIntent, Attempts
  <2> HIDE DEF done, a
  <2>4. row' \in Row /\ Sound(row', onArc, joinIntent) /\ progress' \in Progress
    BY <2>1, <2>2, <2>3, NamedRow, CompletesTyped
  <2> QED BY <2>1, <2>4, EndsTick
<1>3. CASE Rejected(w)
  <2>1. Defers(w, "ARC_ERROR") /\ "ARC_ERROR" \in Failures /\ Unjudged /\ OutsideFixed
    BY <1>3 DEF Rejected, Failures
  <2> QED BY <2>1, Deferred, EndsTick
<1> QED BY <1>1, <1>2, <1>3

-----------------------------------------------------------------------------
(* The refund under way. *)

\* The second cancellation and the deliveries are asked for.
LEMMA RefundGoesOn ==
    ASSUME PlayInv, NEW w \in Workers, UNCHANGED req, CancelForChallenger(w) \/ Deliver(w)
    PROVE  PlayInv'
<1>1. \E next \in {"refund2", "deliver"}, kind \in {"AUTO_CANCEL", "AUTO_WITHDRAW"} :
         \E ps : /\ Moves(w, next) /\ circle' = Submitted({kind} \X ps)
               /\ work[w] # Resting /\ work[w].at \in {"refund", "refund2"}
               /\ row' = row /\ progress' = progress /\ lease' = lease /\ RefundFixed
  <2>1. CASE CancelForChallenger(w)
    <3>1. /\ Moves(w, "refund2") /\ work[w] # Resting /\ work[w].at = "refund"
          /\ circle' = Submitted({<<"AUTO_CANCEL", work[w].copy.challenger>>})
          /\ row' = row /\ progress' = progress /\ lease' = lease /\ RefundFixed
      BY <2>1 DEF CancelForChallenger, Busy
    <3>2. circle' = Submitted({"AUTO_CANCEL"} \X {work[w].copy.challenger})
      BY <3>1, OneAsked
    <3> QED BY <3>1, <3>2
  <2>2. CASE Deliver(w)
    BY <2>2 DEF Deliver, Busy
  <2> QED BY <2>1, <2>2
<1>2. PICK next \in {"refund2", "deliver"}, kind \in {"AUTO_CANCEL", "AUTO_WITHDRAW"} :
         \E ps : /\ Moves(w, next) /\ circle' = Submitted({kind} \X ps)
               /\ work[w] # Resting /\ work[w].at \in {"refund", "refund2"}
               /\ row' = row /\ progress' = progress /\ lease' = lease /\ RefundFixed
  BY <1>1
<1>3. /\ work[w] # Resting /\ refundIntent # NoIntent
      /\ settleIntent' = settleIntent /\ refundIntent' = refundIntent /\ judge' = judge
      /\ OutsideFixed
  BY <1>2, Busied DEF Doing, RefundFixed
<1>4. PICK x \in Works : /\ work' = [work EXCEPT ![w] = x]
                         /\ x.at = next /\ x.copy = work[w].copy
  BY <1>2, <1>3, Stepped DEF TickStops
<1>5. Doing(x, onArc, joinIntent, settleIntent', refundIntent')
  BY <1>3, <1>4, Busied DEF Doing
<1>6. /\ circle' \in [Keys -> {"none", "sent", "done", "failed"}]
      /\ \A p \in Principals : circle'[<<"JOIN", p>>] = circle[<<"JOIN", p>>]
  BY <1>2, NoJoinAsked
<1>7. refundIntent \in RefundIntent \cup {NoIntent} /\ JudgeKept
  BY <1>3 DEF PlayInv, TypeOK, StoreTypeOK, JudgeKept
<1> QED BY <1>2, <1>3, <1>4, <1>5, <1>6, <1>7, Typed, QuietWorkerKeeps DEF JudgeKept

\* A refund that is put off writes a typed row and a typed schedule.
LEMMA RefundDeferred ==
    ASSUME PlayInv, NEW w \in Workers, work[w] # Resting,
           work[w].at \in {"refund", "refund2", "deliver"}, DefersRefund(w)
    PROVE  /\ Rests(w) /\ progress' \in Progress /\ Unjudged
           /\ row' \in Row /\ Sound(row', onArc, joinIntent)
<1> DEFINE n == Least(progress.arcFailures + 1, RetryBudget + 1)
           next == now + RefundDelay * n
           copy == work[w].copy
           tx == IF refundIntent.verdictTx = 0 THEN copy.verdictTx ELSE refundIntent.verdictTx
<1>1. progress.arcFailures \in Nat /\ copy \in Row /\ Sound(copy, onArc, joinIntent)
  BY Typed, Busied DEF Progress
<1>2. n \in Nat
  BY <1>1, WorkerAssumption DEF Least
<1>3. next \in Nat
  <2> HIDE DEF n
  <2>1. RefundDelay * n \in Nat
    BY <1>2, WorkerAssumption, Product
  <2> QED BY <2>1, Typed
<1>4. tx \in 0..Scenarios
  <2>1. refundIntent \in RefundIntent
    BY Busied DEF Doing, PlayInv, TypeOK, StoreTypeOK
  <2> QED BY <1>1, <2>1 DEF RefundIntent, Row
<1>5. /\ progress' = [progress EXCEPT !.phase = "ARC_SETTLEMENT",
                                     !.arcFailures = n, !.nextAt = next]
      /\ row' = [copy EXCEPT !.stage = "REFUNDING", !.failure = "ARC_ERROR",
                            !.attempts = n, !.verdictTx = tx]
      /\ Rests(w) /\ Unjudged
  BY DEF DefersRefund, Unjudged
<1> HIDE DEF n, next, tx
<1>6. progress' \in Progress
  BY <1>2, <1>3, <1>5, Typed DEF Progress
<1>7. /\ row' \in Row /\ row'.state = copy.state /\ row'.challenger = copy.challenger
      /\ row'.joinTx = copy.joinTx
  BY <1>1, <1>2, <1>4, <1>5 DEF Row, Stages, Failures
<1> QED BY <1>1, <1>5, <1>6, <1>7, SoundFields

\* The refund is recorded, or put off.
LEMMA RefundEnds ==
    ASSUME PlayInv, NEW w \in Workers, UNCHANGED req, RecordRefund(w) \/ RefundRefused(w)
    PROVE  PlayInv'
<1>1. CASE RecordRefund(w)
  <2>1. /\ work[w] # Resting /\ work[w].at = "deliver" /\ onArc.state = "REFUNDABLE"
        /\ RecordsRefund(w, refundIntent.failure, refundIntent.verdictTx)
        /\ circle' = circle /\ RefundFixed
    BY <1>1 DEF RecordRefund, Busy
  <2>2. refundIntent \in RefundIntent
    BY <2>1, Busied DEF Doing, PlayInv, TypeOK, StoreTypeOK
  <2>3. refundIntent.failure \in Failures /\ refundIntent.verdictTx \in 0..Scenarios
    BY <2>2 DEF RefundIntent
  <2>4. Rests(w) /\ progress' \in Progress /\ row' \in Row /\ Sound(row', onArc, joinIntent)
    BY <2>1, <2>3, Refunded
  <2> QED BY <2>1, <2>4, EndsTick DEF RefundFixed, Unjudged
<1>2. CASE RefundRefused(w)
  BY <1>2, RefundDeferred, EndsTick DEF RefundRefused, Busy
<1> QED BY <1>1, <1>2

-----------------------------------------------------------------------------
(* Failures and crashes. *)

\* A failed call ends the tick; an operator transaction may have been sent.
LEMMA FailKeeps ==
    ASSUME PlayInv, NEW w \in Workers, FailStep(w)
    PROVE  PlayInv'
<1>1. /\ faults < MaxFaults /\ faults' = faults + 1 /\ UNCHANGED <<chain, now>>
      /\ UNCHANGED <<joinIntent, req>>
      /\ work[w] # Resting /\ Unjudged
      /\ \/ /\ \E code \in ErrorCodes : Defers(w, code)
            /\ \E sent \in SUBSET InFlight(w) : pool' = pool \cup sent
         \/ /\ work[w].at \in {"refund", "refund2", "deliver"}
            /\ DefersRefund(w) /\ pool' = pool
  BY DEF FailStep, CallFails, HandlersFixed, DefersRefund, Unjudged
<1>2. Rests(w) /\ progress' \in Progress /\ row' \in Row /\ Sound(row', onArc, joinIntent)
  BY <1>1, Deferred, RefundDeferred, StoreAssumption
<1>3. /\ pool \subseteq {"expire", "settle"} /\ ("settle" \in pool => settleIntent # NoIntent)
      /\ faults \in 0..MaxFaults
      /\ settleIntent \in SettleIntent \cup {NoIntent}
      /\ refundIntent \in RefundIntent \cup {NoIntent}
      /\ judge \in [Attempts -> {"idle", "pending", "A_WIN", "B_WIN", "TIE", "NO_CONSENSUS"}]
  BY DEF PlayInv, TypeOK, StoreTypeOK
<1>4. /\ pool' \subseteq {"expire", "settle"} /\ ("settle" \in pool' => settleIntent # NoIntent)
  BY <1>1, <1>3, Busied DEF InFlight, Busy, Doing
<1>5. faults' \in 0..MaxFaults
  BY <1>1, <1>3, StoreAssumption
<1>6. onArc' = onArc /\ ArcProofs!IInv'
  BY <1>1, BooksKept DEF PlayInv, chain, onArc
<1>7. Founded(onArc, judge, settleIntent)
  BY DEF PlayInv
<1> QED BY <1>1, <1>2, <1>3, <1>4, <1>5, <1>6, <1>7, GrowsNot, Typed, Rested, WorkerKeeps
        DEF Unjudged

\* What one tick may have sent when the server stops has its intent stored.
LEMMA FlightFounded ==
    ASSUME PlayInv, NEW w \in Workers
    PROVE  /\ InFlight(w) \subseteq {"expire", "settle"}
           /\ "settle" \in InFlight(w) => settleIntent # NoIntent
BY Busied DEF InFlight, Busy, Doing

\* What a crash or a lost answer leaves is a state that was one already.
LEMMA LossKeeps ==
    ASSUME PlayInv, UNCHANGED <<chain, now, store, circle, judge>>,
           faults < MaxFaults, faults' = faults + 1,
           pool' \subseteq {"expire", "settle"}, "settle" \in pool' => settleIntent # NoIntent,
           req' \in [Handlers -> Requests \cup {Idle}],
           \A h \in Handlers : req'[h] \in {Idle, req[h]},
           work' \in [Workers -> Works \cup {Resting}],
           \A w \in Workers : work'[w] \in {Resting, work[w]}
    PROVE  PlayInv'
<1> USE DEF store, intents
<1>1. onArc' = onArc /\ ArcProofs!IInv' /\ now' = now
  BY BooksKept DEF PlayInv, chain, onArc
<1>2. faults' \in 0..MaxFaults
  BY StoreAssumption DEF PlayInv, TypeOK, StoreTypeOK
<1>3. TypeOK'
  BY <1>2 DEF PlayInv, TypeOK, StoreTypeOK, RequestTypeOK, WorkTypeOK, chain, Arc!TypeOK
<1>4. ASSUME NEW h \in Handlers PROVE Asking(req'[h], onArc, joinIntent)
  BY IdleAsks DEF PlayInv
<1>5. ASSUME NEW w \in Workers
      PROVE  Doing(work'[w], onArc, joinIntent, settleIntent, refundIntent)
  BY DEF PlayInv, Doing
<1> QED BY <1>1, <1>3, <1>4, <1>5 DEF PlayInv, Reserved

LEMMA GiveUpKeeps ==
    ASSUME PlayInv, NEW h \in Handlers, GiveUpStep(h)
    PROVE  PlayInv'
<1>1. /\ faults < MaxFaults /\ faults' = faults + 1 /\ req' = [req EXCEPT ![h] = Idle]
      /\ UNCHANGED <<chain, now, store, circle, judge>> /\ pool' = pool /\ work' = work
  BY DEF GiveUpStep, GivesUp, Returns
<1>2. /\ req' \in [Handlers -> Requests \cup {Idle}]
      /\ \A g \in Handlers : req'[g] \in {Idle, req[g]}
  BY <1>1, Typed
<1>3. pool \subseteq {"expire", "settle"} /\ ("settle" \in pool => settleIntent # NoIntent)
  BY DEF PlayInv, TypeOK, StoreTypeOK
<1> QED BY <1>1, <1>2, <1>3, Typed, LossKeeps

LEMMA CrashKeeps == ASSUME PlayInv, Crash PROVE PlayInv'
<1>1. /\ faults < MaxFaults /\ faults' = faults + 1
      /\ req' = [h \in Handlers |-> Idle] /\ work' = [w \in Workers |-> Resting]
      /\ UNCHANGED <<chain, now, store, circle, judge>>
  BY DEF Crash
<1>2. PICK sent \in SUBSET UNION {InFlight(w) : w \in Workers} : pool' = pool \cup sent
  BY DEF Crash
<1>3. /\ sent \subseteq {"expire", "settle"}
      /\ "settle" \in sent => settleIntent # NoIntent
  BY FlightFounded
<1>4. pool' \subseteq {"expire", "settle"} /\ ("settle" \in pool' => settleIntent # NoIntent)
  BY <1>2, <1>3 DEF PlayInv, TypeOK, StoreTypeOK
<1> QED BY <1>1, <1>4, LossKeeps

-----------------------------------------------------------------------------
(* The invariant. *)

LEMMA InitPlay == Init => PlayInv
<1> SUFFICES ASSUME Init PROVE PlayInv
  OBVIOUS
<1>1. /\ Arc!Init /\ row = NoRow /\ joinIntent = None /\ settleIntent = NoIntent
      /\ refundIntent = NoIntent /\ progress = NoProgress /\ lease = NoLease
      /\ circle = [k \in Keys |-> "none"] /\ pool = {} /\ faults = 0
      /\ judge = [a \in Attempts |-> "idle"]
      /\ req = [h \in Handlers |-> Idle] /\ work = [w \in Workers |-> Resting]
  BY DEF Init, StoreInit, RequestInit, WorkInit
<1>2. ArcProofs!IInv
  BY <1>1, BooksInit
<1>3. onArc.state = "NONE" /\ onArc.challenger = None
  BY <1>1 DEF Arc!Init, Arc!NoRoom, onArc
<1>4. /\ row \in Row /\ row.state = "NONE" /\ row.challenger = None /\ ~row.joinTx
  BY <1>1, StoreAssumption DEF NoRow, Row, Stages, Failures
<1>5. progress \in Progress /\ lease \in [owner : Workers \cup {None}, until : Nat]
      /\ faults \in 0..MaxFaults
  BY <1>1, StoreAssumption DEF NoProgress, Progress, NoLease
<1>6. TypeOK
  BY <1>1, <1>2, <1>4, <1>5, ArcTyped
     DEF TypeOK, StoreTypeOK, RequestTypeOK, WorkTypeOK
<1>7. Sound(row, onArc, joinIntent) /\ Founded(onArc, judge, settleIntent)
  BY <1>1, <1>3, <1>4 DEF Sound, Terminals, Founded
<1>8. Reserved
  <2>1. \A p \in Principals : <<"JOIN", p>> \in Keys
    BY DEF Keys, Kinds
  <2> QED BY <1>1, <1>3, <2>1 DEF Reserved
<1>9. /\ \A h \in Handlers : Asking(req[h], onArc, joinIntent)
      /\ \A w \in Workers : Doing(work[w], onArc, joinIntent, settleIntent, refundIntent)
  BY <1>1 DEF Asking, Doing
<1> QED BY <1>1, <1>2, <1>6, <1>7, <1>8, <1>9 DEF PlayInv

LEMMA WorkKeeps ==
    ASSUME PlayInv, NEW w \in Workers, WorkStep(w)
    PROVE  PlayInv'
<1>1. Progresses(w) /\ UNCHANGED req
  BY DEF WorkStep
<1> QED BY <1>1, ClaimKeeps, RecordKeeps, FollowKeeps, LookKeeps, RetryKeeps, RecordedKeeps,
           StartJudgingKeeps, ResumeKeeps, JudgedRefund, PendKeeps, NoConsensusKeeps, WinKeeps,
           MinedKeeps, ReadbackKeeps, RefundGoesOn, RefundEnds
        DEF Progresses

LEMMA NextPlay == PlayInv /\ [Next]_vars => PlayInv'
<1> SUFFICES ASSUME PlayInv, [Next]_vars PROVE PlayInv'
  OBVIOUS
<1>1. ASSUME NEW h \in Handlers, AskStep(h) \/ ServeStep(h) \/ GiveUpStep(h) PROVE PlayInv'
  BY <1>1, AsksKeeps, ServesKeeps, GiveUpKeeps
<1>2. ASSUME NEW w \in Workers, WorkStep(w) \/ FailStep(w) PROVE PlayInv'
  BY <1>2, WorkKeeps, FailKeeps
<1>3. CASE LandStep \/ TimeStep \/ Crash
  BY <1>3, LandKeeps, TimeKeeps, CrashKeeps
<1>4. CASE UNCHANGED vars
  <2>1. UNCHANGED <<chain, now>> /\ UNCHANGED store
        /\ UNCHANGED <<circle, pool, judge, faults, req, work>>
    BY <1>4 DEF vars
  <2>2. ArcProofs!IInv' /\ onArc' = onArc
    BY <2>1, BooksKept DEF PlayInv, chain, onArc
  <2>3. TypeOK'
    BY <2>1 DEF PlayInv, TypeOK, StoreTypeOK, RequestTypeOK, WorkTypeOK, chain, store, intents,
                Arc!TypeOK
  <2> QED BY <2>1, <2>2, <2>3 DEF PlayInv, Reserved, store, intents
<1> QED BY <1>1, <1>2, <1>3, <1>4, WalletKeeps DEF Next

\* What holds of every copy and every step holds always.
LEMMA PlayAlways == Spec => []PlayInv
<1>1. Init => PlayInv
  BY InitPlay
<1>2. PlayInv /\ [Next]_vars => PlayInv'
  BY NextPlay
<1> QED BY <1>1, <1>2, PTL DEF Spec

\* Type correctness of the room, its handlers, its ticks and the contract.
THEOREM PairPlayTyped == Spec => []TypeOK
<1>1. PlayInv => TypeOK
  BY DEF PlayInv
<1> QED BY <1>1, PlayAlways, PTL

\* However many challengers, handlers, retries and crashes race, only the
\* challenger whose reservation is stored is ever written to the record, asks
\* its wallet to join, or is the challenger on Arc.
THEOREM ReservedAlways == Spec => []JoinReserved
<1>1. PlayInv => JoinReserved
  <2> SUFFICES ASSUME PlayInv PROVE JoinReserved
    OBVIOUS
  <2>1. \A p \in Challengers : p # None /\ p \in Principals
    BY StoreAssumption DEF Principals
  <2> QED BY <2>1 DEF PlayInv, JoinReserved, Reserved, Sound
<1> QED BY <1>1, PlayAlways, PTL

\* The record never runs ahead of Arc, although every handler and every tick
\* writes back a copy it read earlier.
THEOREM RecordAlwaysBacked == Spec => []RecordBacked
<1>1. PlayInv => RecordBacked
  BY DEF PlayInv, RecordBacked, Sound, Visible, Terminals, Undepositable
<1> QED BY <1>1, PlayAlways, PTL

\* The contract pays a winner only when the stored settlement intent names it
\* and the finalized verdict of that attempt names it too.
THEOREM WinnerAlwaysVerdict == Spec => []WinnerIsVerdict
<1>1. PlayInv => WinnerIsVerdict
  BY DEF PlayInv, WinnerIsVerdict, Founded, Named
<1> QED BY <1>1, PlayAlways, PTL
=============================================================================
