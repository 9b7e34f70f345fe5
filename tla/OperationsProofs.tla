---------------------------- MODULE OperationsProofs ---------------------------
(***************************************************************************)
(* The work behind a tournament, for any calls, signers, processes, days,  *)
(* entrants and faults.  Concurrency: one submission of a signer is sent   *)
(* at a time, and the scheduler counts its slots exactly.  Settlement: a   *)
(* record that says COMPLETE is of a transaction that took effect.         *)
(* Tournament play: prizes are earned, and one daily tournament is open.   *)
(***************************************************************************)
EXTENDS Concurrency, Settlement, TournamentPlay, WellFoundedInduction,
        FiniteSetTheorems, TLAPS

Entered(c) == call[c].pc \in {"sending", "done"}
Queuing(c) == call[c].pc \in {"waiting", "sending"}

-----------------------------------------------------------------------------
(* The inductive invariant of the lanes.                                    *)

\* A call is in a chain of its own key from its submission on.
Chained ==
    \A c \in Calls :
        IF call[c].pc = "idle"
        THEN call[c] = NoCall
        ELSE /\ call[c].lane \in Calls
             /\ KeyOf[call[c].lane] = KeyOf[c]
             /\ call[c].place \in 1..length[call[c].lane]
             /\ call[call[c].lane].pc # "idle"

\* A chain has one call for every place.
Distinct ==
    \A c, d \in Calls :
        /\ call[c].pc # "idle" /\ call[d].pc # "idle"
        /\ call[c].lane = call[d].lane /\ call[c].place = call[d].place
        => c = d

NoGap ==
    \A l \in Calls : \A p \in 1..length[l] :
        \E c \in Calls : call[c].lane = l /\ call[c].place = p

\* Every call before one that has entered is done.
InTurn ==
    \A c, d \in Calls :
        /\ Entered(c) /\ call[d].pc # "idle"
        /\ call[c].lane = call[d].lane /\ call[d].place < call[c].place
        => call[d].pc = "done"

\* A lane is named by a call that was submitted, and belongs to its key.
Named ==
    /\ \A k \in Signers : lanes[k] # NoLane => KeyOf[lanes[k]] = k /\ call[lanes[k]].pc # "idle"
    /\ \A l \in Calls : call[l].pc = "idle" => queued[l] = 0 /\ length[l] = 0

Counted == \A l \in Calls : queued[l] = Cardinality(Pending(l))

\* Whoever has not finished is in the lane that is the key's current one.
Current == \A c \in Calls : Queuing(c) => lanes[KeyOf[c]] = call[c].lane

LaneTypeOK ==
    /\ lanes \in [Signers -> Calls \cup {NoLane}]
    /\ queued \in [Calls -> Nat]
    /\ length \in [Calls -> Nat]
    /\ call \in [Calls -> [pc : CallPc, lane : Calls \cup {NoLane}, place : Nat]]

LaneInv ==
    /\ LaneTypeOK /\ Chained /\ Distinct /\ NoGap /\ InTurn
    /\ Named /\ Counted /\ Current

\* Two calls that are sent for one key are in one chain, where one would have to be
\* done before the other enters.
LEMMA OneSenderHolds == LaneInv => OneSender
<1> SUFFICES ASSUME LaneInv, NEW c \in Calls, NEW d \in Calls,
                    call[c].pc = "sending", call[d].pc = "sending", KeyOf[c] = KeyOf[d]
             PROVE  c = d
  BY DEF OneSender
<1>1. call[c].lane = call[d].lane
  BY DEF LaneInv, Current, Queuing
<1>2. call[c].place \in Nat /\ call[d].place \in Nat
  BY DEF LaneInv, LaneTypeOK
<1>3. ~(call[c].place < call[d].place) /\ ~(call[d].place < call[c].place)
  BY <1>1 DEF LaneInv, InTurn, Entered
<1> QED
  BY <1>1, <1>2, <1>3 DEF LaneInv, Distinct

\* The sets that are counted are finite.
LEMMA PendingFinite == ASSUME NEW l PROVE IsFiniteSet(Pending(l))
BY ConcurrencyAssumption, FS_Subset, Pending(l) \subseteq Calls DEF Pending

LEMMA LanesInit == ConcurrencyInit => LaneInv
<1> SUFFICES ASSUME ConcurrencyInit PROVE LaneInv
  OBVIOUS
<1>1. \A l \in Calls : Pending(l) = {}
  BY DEF ConcurrencyInit, Pending, NoCall
<1>2. Counted
  BY <1>1, FS_EmptySet DEF Counted, ConcurrencyInit
<1> QED
  BY <1>2, ConcurrencyAssumption
  DEF ConcurrencyInit, LaneInv, LaneTypeOK, Chained, Distinct, NoGap, InTurn, Named, Current,
      NoCall, CallPc, Entered, Queuing

\* A submission makes the lane if there is none, and takes the next place of it.
LEMMA LanesSubmit == ASSUME NEW c \in Calls, LaneInv, SubmitCall(c) PROVE LaneInv'
<1> USE DEF LaneInv, CallPc, Queuing, Entered
<1>0. PICK l : l = IF lanes[KeyOf[c]] = NoLane THEN c ELSE lanes[KeyOf[c]]
  OBVIOUS
<1>1. /\ KeyOf \in [Calls -> Signers] /\ NoLane \notin Calls /\ IsFiniteSet(Calls)
      /\ LaneTypeOK /\ call[c].pc = "idle" /\ c # NoLane
  BY ConcurrencyAssumption DEF SubmitCall
<1>2. l \in Calls /\ KeyOf[l] = KeyOf[c] /\ (l = c \/ call[l].pc # "idle")
  BY <1>0, <1>1 DEF Named, LaneTypeOK
<1>3. /\ lanes' = [lanes EXCEPT ![KeyOf[c]] = l]
      /\ queued' = [queued EXCEPT ![l] = @ + 1]
      /\ length' = [length EXCEPT ![l] = @ + 1]
      /\ call' = [call EXCEPT ![c] = [pc |-> "waiting", lane |-> l, place |-> length[l] + 1]]
  BY <1>0 DEF SubmitCall
<1>4. LaneTypeOK'
  BY <1>1, <1>2, <1>3 DEF LaneTypeOK
<1>5. \A d \in Calls : d # c => call'[d] = call[d]
  BY <1>1, <1>3 DEF LaneTypeOK
<1>6. call'[c] = [pc |-> "waiting", lane |-> l, place |-> length[l] + 1]
  BY <1>1, <1>3 DEF LaneTypeOK
<1>7. /\ length'[l] = length[l] + 1 /\ length[l] \in Nat
      /\ \A m \in Calls : m # l => length'[m] = length[m]
  BY <1>1, <1>2, <1>3 DEF LaneTypeOK
<1>8. Chained'
  <2> SUFFICES ASSUME NEW d \in Calls
               PROVE  IF call'[d].pc = "idle"
                      THEN call'[d] = NoCall
                      ELSE /\ call'[d].lane \in Calls
                           /\ KeyOf[call'[d].lane] = KeyOf[d]
                           /\ call'[d].place \in 1..length'[call'[d].lane]
                           /\ call'[call'[d].lane].pc # "idle"
    BY DEF Chained
  <2>1. CASE d = c
    BY <2>1, <1>2, <1>5, <1>6, <1>7
  <2>2. CASE d # c /\ call[d].pc = "idle"
    BY <2>2, <1>5 DEF Chained
  <2>3. CASE d # c /\ call[d].pc # "idle"
    <3>1. /\ call[d].lane \in Calls /\ KeyOf[call[d].lane] = KeyOf[d]
          /\ call[d].place \in 1..length[call[d].lane] /\ call[call[d].lane].pc # "idle"
      BY <2>3 DEF Chained
    <3>2. length[call[d].lane] \in Nat /\ length'[call[d].lane] \in Nat
          /\ length[call[d].lane] <= length'[call[d].lane]
      BY <3>1, <1>1, <1>4, <1>7 DEF LaneTypeOK
    <3> QED
      BY <2>3, <3>1, <3>2, <1>5, <1>6
  <2> QED
    BY <2>1, <2>2, <2>3
<1>9. Distinct'
  <2>1. \A d \in Calls : d # c /\ call[d].pc # "idle" /\ call[d].lane = l
                        => call[d].place # length[l] + 1
    BY <1>7 DEF Chained
  <2> QED
    BY <2>1, <1>5, <1>6 DEF Distinct
<1>10. NoGap'
  <2> SUFFICES ASSUME NEW m \in Calls, NEW p \in 1..length'[m]
               PROVE  \E d \in Calls : call'[d].lane = m /\ call'[d].place = p
    BY DEF NoGap
  <2>1. CASE m = l /\ p = length[l] + 1
    BY <2>1, <1>6
  <2>2. CASE p \in 1..length[m]
    <3>1. PICK d \in Calls : call[d].lane = m /\ call[d].place = p
      BY <2>2 DEF NoGap
    <3>2. d # c
      BY <3>1, <1>1 DEF Chained, NoCall
    <3> QED
      BY <3>1, <3>2, <1>5
  <2> QED
    BY <2>1, <2>2, <1>7
<1>11. InTurn'
  <2>1. \A d \in Calls : Entered(d) /\ call[d].lane = l => call[d].place <= length[l]
    BY <1>7 DEF Chained
  <2> QED
    BY <2>1, <1>1, <1>5, <1>6, <1>7 DEF InTurn, LaneTypeOK
<1>12. Named'
  <2>1. \A k \in Signers : lanes'[k] # NoLane =>
           KeyOf[lanes'[k]] = k /\ call'[lanes'[k]].pc # "idle"
    <3> SUFFICES ASSUME NEW k \in Signers, lanes'[k] # NoLane
                 PROVE  KeyOf[lanes'[k]] = k /\ call'[lanes'[k]].pc # "idle"
      OBVIOUS
    <3>1. CASE k = KeyOf[c]
      BY <3>1, <1>1, <1>2, <1>3, <1>5, <1>6 DEF LaneTypeOK
    <3>2. CASE k # KeyOf[c]
      <4>1. lanes'[k] = lanes[k] /\ lanes[k] \in Calls
        BY <3>2, <1>1, <1>3 DEF LaneTypeOK
      <4> QED
        BY <4>1, <1>1, <1>5 DEF Named
    <3> QED
      BY <3>1, <3>2
  <2>2. \A m \in Calls : call'[m].pc = "idle" => queued'[m] = 0 /\ length'[m] = 0
    BY <1>1, <1>2, <1>3, <1>5, <1>6 DEF Named, LaneTypeOK
  <2> QED
    BY <2>1, <2>2 DEF Named
<1>13. Counted'
  <2>1. Pending(l)' = Pending(l) \cup {c} /\ c \notin Pending(l)
    BY <1>1, <1>5, <1>6 DEF Pending
  <2>2. \A m \in Calls : m # l => Pending(m)' = Pending(m)
    BY <1>1, <1>5, <1>6 DEF Pending, Chained, NoCall
  <2>3. Cardinality(Pending(l)') = Cardinality(Pending(l)) + 1
    BY <2>1, PendingFinite, FS_AddElement
  <2> QED
    BY <2>2, <2>3, <1>1, <1>2, <1>3 DEF Counted, LaneTypeOK
<1>14. Current'
  <2> SUFFICES ASSUME NEW d \in Calls, Queuing(d)' PROVE lanes'[KeyOf[d]] = call'[d].lane
    BY DEF Current
  <2>1. CASE d = c
    BY <2>1, <1>1, <1>3, <1>6 DEF LaneTypeOK
  <2>2. CASE d # c
    <3>1. lanes[KeyOf[d]] = call[d].lane /\ call[d].lane \in Calls
      BY <2>2, <1>5 DEF Current, Chained
    <3>2. KeyOf[d] = KeyOf[c] => l = lanes[KeyOf[d]]
      BY <3>1, <1>0, <1>1
    <3> QED
      BY <2>2, <3>1, <3>2, <1>1, <1>3, <1>5 DEF LaneTypeOK
  <2> QED
    BY <2>1, <2>2
<1> QED
  BY <1>4, <1>8, <1>9, <1>10, <1>11, <1>12, <1>13, <1>14

\* Whoever enters comes after a call that is done, before which all are done.
LEMMA LanesEnter == ASSUME NEW c \in Calls, LaneInv, Enter(c) PROVE LaneInv'
<1> USE DEF LaneInv, CallPc, Queuing, Entered
<1>1. /\ LaneTypeOK /\ call[c].pc = "waiting"
      /\ UNCHANGED <<lanes, queued, length>>
      /\ call' = [call EXCEPT ![c].pc = "sending"]
  BY DEF Enter
<1>2. /\ \A d \in Calls : call'[d].lane = call[d].lane /\ call'[d].place = call[d].place
      /\ \A d \in Calls : d # c => call'[d] = call[d]
      /\ call'[c].pc = "sending"
  BY <1>1 DEF LaneTypeOK
<1>3. LaneTypeOK'
  BY <1>1 DEF LaneTypeOK
<1>4. Chained' /\ Distinct' /\ NoGap' /\ Current'
  <2>1. Chained'
    BY <1>1, <1>2 DEF Chained
  <2>2. Distinct'
    BY <1>1, <1>2 DEF Distinct
  <2>3. NoGap'
    BY <1>1, <1>2 DEF NoGap
  <2>4. Current'
    BY <1>1, <1>2 DEF Current
  <2> QED
    BY <2>1, <2>2, <2>3, <2>4
<1>5. InTurn'
  <2> SUFFICES ASSUME NEW d \in Calls, NEW e \in Calls, Entered(d)', call'[e].pc # "idle",
                      call'[d].lane = call'[e].lane, call'[e].place < call'[d].place
               PROVE  call'[e].pc = "done"
    BY DEF InTurn
  <2>0. /\ call[e].pc # "idle" /\ call[d].lane = call[e].lane /\ call[e].place < call[d].place
        /\ call[d].place \in Nat /\ call[e].place \in Nat
    BY <1>1, <1>2 DEF LaneTypeOK
  <2>1. CASE d # c
    BY <2>0, <2>1, <1>1, <1>2 DEF InTurn
  <2>2. CASE d = c
    <3>1. /\ call[c].lane \in Calls /\ call[c].place \in 1..length[call[c].lane]
          /\ call[e].place \in 1..length[call[c].lane]
      BY <2>0, <2>2, <1>1 DEF Chained
    <3>2. call[c].place - 1 \in 1..length[call[c].lane]
      BY <2>0, <2>2, <3>1, <1>1 DEF LaneTypeOK
    <3>3. PICK q \in Calls : call[q].lane = call[c].lane /\ call[q].place = call[c].place - 1
      BY <3>1, <3>2 DEF NoGap
    <3>4. call[q].pc = "done"
      BY <2>0, <2>2, <3>3 DEF Enter, MayEnter
    <3>5. CASE call[e].place = call[q].place
      BY <2>0, <2>2, <3>3, <3>4, <3>5, <1>1, <1>2 DEF Distinct
    <3>6. CASE call[e].place < call[q].place
      BY <2>0, <2>2, <3>3, <3>4, <3>6, <1>1, <1>2 DEF InTurn
    <3> QED
      BY <2>0, <2>2, <3>3, <3>5, <3>6
  <2> QED
    BY <2>1, <2>2
<1>6. Named'
  BY <1>1, <1>2 DEF Named, LaneTypeOK
<1>7. Counted'
  <2>1. \A l \in Calls : Pending(l)' = Pending(l)
    BY <1>1, <1>2 DEF Pending
  <2> QED
    BY <2>1, <1>1 DEF Counted
<1> QED
  BY <1>3, <1>4, <1>5, <1>6, <1>7

\* A call that leaves takes the lane along only when nobody is left in it.
LEMMA LanesLeave == ASSUME NEW c \in Calls, LaneInv, Leave(c) PROVE LaneInv'
<1> USE DEF LaneInv, CallPc, Queuing, Entered
<1>0. PICK l : l = call[c].lane
  OBVIOUS
<1>1. /\ KeyOf \in [Calls -> Signers] /\ NoLane \notin Calls /\ IsFiniteSet(Calls)
      /\ LaneTypeOK /\ call[c].pc = "sending" /\ length' = length
      /\ queued' = [queued EXCEPT ![l] = @ - 1]
      /\ call' = [call EXCEPT ![c].pc = "done"]
      /\ lanes' = [lanes EXCEPT ![KeyOf[c]] = Dropped(l, queued[l] - 1, KeyOf[c])]
  BY <1>0, ConcurrencyAssumption DEF Leave
<1>2. l \in Calls /\ KeyOf[l] = KeyOf[c] /\ lanes[KeyOf[c]] = l /\ KeyOf[c] \in Signers
  BY <1>0, <1>1 DEF Chained, Current
<1>3. /\ \A d \in Calls : call'[d].lane = call[d].lane /\ call'[d].place = call[d].place
      /\ \A d \in Calls : d # c => call'[d] = call[d]
      /\ call'[c].pc = "done"
  BY <1>1 DEF LaneTypeOK
<1>4. Pending(l)' = Pending(l) \ {c} /\ c \in Pending(l)
  BY <1>0, <1>1, <1>3 DEF Pending
<1>5. Cardinality(Pending(l)') = Cardinality(Pending(l)) - 1 /\ IsFiniteSet(Pending(l)')
  BY <1>4, PendingFinite, FS_RemoveElement
<1>6. queued[l] - 1 = Cardinality(Pending(l)') /\ queued[l] - 1 \in Nat
  BY <1>2, <1>5, FS_CardinalityType DEF Counted
<1>7. lanes' = [lanes EXCEPT ![KeyOf[c]] = IF queued[l] - 1 = 0 THEN NoLane ELSE l]
  BY <1>1, <1>2 DEF Dropped
<1>8. LaneTypeOK'
  BY <1>1, <1>2, <1>6, <1>7 DEF LaneTypeOK
<1>9. Chained'
  BY <1>1, <1>3 DEF Chained
<1>10. Distinct'
  BY <1>1, <1>3 DEF Distinct
<1>11. NoGap'
  BY <1>1, <1>3 DEF NoGap
<1>12. InTurn'
  BY <1>1, <1>3 DEF InTurn
<1>13. Named'
  <2>1. \A k \in Signers : lanes'[k] # NoLane => lanes'[k] = lanes[k]
    BY <1>1, <1>2, <1>7 DEF LaneTypeOK
  <2>2. \A m \in Calls : call'[m].pc = "idle" => m # l /\ call[m].pc = "idle"
    BY <1>0, <1>1, <1>3 DEF Chained
  <2> QED
    BY <2>1, <2>2, <1>1, <1>3 DEF Named, LaneTypeOK
<1>14. Counted'
  <2>1. \A m \in Calls : m # l => Pending(m)' = Pending(m)
    BY <1>0, <1>1, <1>3 DEF Pending
  <2> QED
    BY <2>1, <1>1, <1>2, <1>6 DEF Counted, LaneTypeOK
<1>15. Current'
  <2> SUFFICES ASSUME NEW d \in Calls, Queuing(d)' PROVE lanes'[KeyOf[d]] = call'[d].lane
    BY DEF Current
  <2>1. d # c /\ Queuing(d) /\ lanes[KeyOf[d]] = call[d].lane
    BY <1>3 DEF Current
  <2>2. KeyOf[d] = KeyOf[c] => d \in Pending(l)'
    BY <2>1, <1>2, <1>3 DEF Pending
  <2>3. KeyOf[d] = KeyOf[c] => queued[l] - 1 # 0
    BY <2>2, <1>5, <1>6, FS_EmptySet
  <2> QED
    BY <2>1, <2>3, <1>1, <1>2, <1>3, <1>7 DEF LaneTypeOK

<1> QED
  BY <1>8, <1>9, <1>10, <1>11, <1>12, <1>13, <1>14, <1>15

\* The scheduler does not touch the lanes.
LEMMA LanesStep == LaneInv /\ [ConcurrencyNext]_concurrencyVars => LaneInv'
<1> SUFFICES ASSUME LaneInv, [ConcurrencyNext]_concurrencyVars PROVE LaneInv'
  OBVIOUS
<1>1. CASE UNCHANGED laneVars
  BY <1>1 DEF laneVars, LaneInv, LaneTypeOK, Chained, Distinct, NoGap, InTurn, Named, Counted,
     Current, Entered, Queuing, Pending
<1>2. CASE LaneStep
  BY <1>2, LanesSubmit, LanesEnter, LanesLeave DEF LaneStep
<1>3. CASE SlotStep
  BY <1>3, <1>1 DEF SlotStep, Acquire, Release
<1> QED
  BY <1>1, <1>2, <1>3 DEF ConcurrencyNext, concurrencyVars

\* Two transactions of one signer are never sent at the same time, for any number of
\* calls and signers (submit's lanes, concurrency.ts).
THEOREM OneSenderAlways == ConcurrencySpec => []OneSender
<1>1. ConcurrencySpec => []LaneInv
  BY LanesInit, LanesStep, PTL DEF ConcurrencySpec
<1> QED
  BY <1>1, OneSenderHolds, PTL

-----------------------------------------------------------------------------
(* The inductive invariant of the scheduler.                                *)

SlotTypeOK ==
    /\ active \in Nat
    /\ waiters \in Seq(Calls)
    /\ job \in [Calls -> {"idle", "waiting", "running", "done"}]

\* Whoever is in the queue waits, and stands in it once.
QueueSound ==
    /\ \A i \in 1..Len(waiters) : job[waiters[i]] = "waiting"
    /\ \A i, j \in 1..Len(waiters) : waiters[i] = waiters[j] => i = j

SlotInv == SlotTypeOK /\ QueueSound /\ SlotsExact

LEMMA RunningFinite == IsFiniteSet(Running)
BY ConcurrencyAssumption, FS_Subset, Running \subseteq Calls DEF Running

LEMMA SlotsInit == ConcurrencyInit => SlotInv
<1> SUFFICES ASSUME ConcurrencyInit PROVE SlotInv
  OBVIOUS
<1>1. Running = {}
  BY DEF ConcurrencyInit, Running
<1>2. Cardinality(Running) = 0
  BY <1>1, FS_EmptySet
<1> QED
  BY <1>2, ConcurrencyAssumption
  DEF ConcurrencyInit, SlotInv, SlotTypeOK, QueueSound, SlotsExact

\* A call takes a free slot or queues behind a full house.
LEMMA SlotsAcquire == ASSUME NEW c \in Calls, SlotInv, Acquire(c) PROVE SlotInv'
<1> USE DEF SlotInv
<1>1. /\ SlotTypeOK /\ job[c] = "idle" /\ Limit \in Nat
  BY ConcurrencyAssumption DEF Acquire
<1>2. CASE active < Limit
  <2>1. active' = active + 1 /\ job' = [job EXCEPT ![c] = "running"] /\ waiters' = waiters
    BY <1>2 DEF Acquire
  <2>2. Running' = Running \cup {c} /\ c \notin Running
    BY <2>1, <1>1 DEF Running, SlotTypeOK
  <2>3. Cardinality(Running') = Cardinality(Running) + 1
    BY <2>2, RunningFinite, FS_AddElement
  <2>4. waiters = <<>>
    BY <1>1, <1>2 DEF SlotsExact, SlotTypeOK
  <2>5. SlotsExact'
    BY <1>1, <1>2, <2>1, <2>3, <2>4 DEF SlotsExact, SlotTypeOK
  <2>6. SlotTypeOK' /\ QueueSound'
    BY <1>1, <2>1, <2>4 DEF SlotTypeOK, QueueSound
  <2> QED
    BY <2>5, <2>6
<1>3. CASE ~(active < Limit)
  <2>1. active' = active /\ job' = [job EXCEPT ![c] = "waiting"] /\ waiters' = Append(waiters, c)
    BY <1>3 DEF Acquire
  <2>2. Running' = Running
    BY <2>1, <1>1 DEF Running, SlotTypeOK
  <2>3. SlotsExact'
    BY <1>1, <1>3, <2>1, <2>2 DEF SlotsExact, SlotTypeOK
  <2>4. SlotTypeOK'
    BY <1>1, <2>1 DEF SlotTypeOK
  <2>5. /\ Len(waiters') = Len(waiters) + 1 /\ Len(waiters) \in Nat
        /\ \A i \in 1..Len(waiters) : waiters'[i] = waiters[i] /\ waiters[i] \in Calls
        /\ waiters'[Len(waiters) + 1] = c
    BY <1>1, <2>1 DEF SlotTypeOK
  <2>6. \A i \in 1..Len(waiters) : waiters[i] # c
    BY <1>1 DEF QueueSound
  <2>7. QueueSound'
    BY <1>1, <2>1, <2>5, <2>6 DEF QueueSound, SlotTypeOK
  <2> QED
    BY <2>3, <2>4, <2>7
<1> QED
  BY <1>2, <1>3

\* A slot that is handed over changes its holder and not the count.
LEMMA SlotsRelease == ASSUME NEW c \in Calls, SlotInv, Release(c) PROVE SlotInv'
<1> USE DEF SlotInv
<1>1. SlotTypeOK /\ job[c] = "running" /\ Limit \in Nat /\ c \in Running
  BY ConcurrencyAssumption DEF Release, Running
<1>2. CASE waiters = <<>>
  <2>1. active' = active - 1 /\ job' = [job EXCEPT ![c] = "done"] /\ waiters' = waiters
    BY <1>2 DEF Release, HandOver
  <2>2. Running' = Running \ {c}
    BY <2>1, <1>1 DEF Running, SlotTypeOK
  <2>3. Cardinality(Running') = Cardinality(Running) - 1 /\ IsFiniteSet(Running')
    BY <2>2, <1>1, RunningFinite, FS_RemoveElement
  <2>4. active' \in Nat
    BY <2>1, <2>3, FS_CardinalityType DEF SlotsExact
  <2> QED
    BY <1>1, <1>2, <2>1, <2>3, <2>4 DEF SlotTypeOK, QueueSound, SlotsExact
<1>3. CASE waiters # <<>>
  <2>1. PICK h : h = Head(waiters)
    OBVIOUS
  <2>2. /\ active' = active /\ waiters' = Tail(waiters)
        /\ job' = [job EXCEPT ![c] = "done", ![h] = "running"]
    BY <1>3, <2>1 DEF Release, HandOver
  <2>3. h \in Calls /\ h = waiters[1] /\ Len(waiters) \in Nat /\ Len(waiters) > 0
    BY <1>1, <1>3, <2>1 DEF SlotTypeOK
  <2>4. job[h] = "waiting" /\ h # c
    BY <1>1, <2>3 DEF QueueSound
  <2>5. Running' = (Running \ {c}) \cup {h} /\ h \notin Running
    BY <1>1, <2>2, <2>3, <2>4 DEF Running, SlotTypeOK
  <2>6. Cardinality(Running \ {c}) = Cardinality(Running) - 1 /\ IsFiniteSet(Running \ {c})
    BY <1>1, RunningFinite, FS_RemoveElement
  <2>7. Cardinality(Running') = Cardinality(Running \ {c}) + 1
    BY <2>5, <2>6, FS_AddElement
  <2>8. Cardinality(Running') = Cardinality(Running)
    BY <2>6, <2>7, RunningFinite, FS_CardinalityType
  <2>9. SlotsExact'
    BY <1>3, <2>2, <2>8 DEF SlotsExact
  <2>10. SlotTypeOK'
    <3>1. Tail(waiters) \in Seq(Calls)
      BY <1>1, <1>3 DEF SlotTypeOK
    <3> QED
      BY <1>1, <2>2, <3>1 DEF SlotTypeOK
  <2>11. /\ Len(waiters') = Len(waiters) - 1
         /\ \A i \in 1..Len(waiters') :
              i + 1 \in 1..Len(waiters) /\ waiters'[i] = waiters[i + 1] /\ waiters[i + 1] \in Calls
    BY <1>1, <1>3, <2>2, <2>3 DEF SlotTypeOK
  <2>12. \A i \in 1..Len(waiters') : waiters'[i] # h
    BY <2>3, <2>11 DEF QueueSound
  <2>13. QueueSound'
    BY <1>1, <2>2, <2>3, <2>11, <2>12 DEF QueueSound, SlotTypeOK
  <2> QED
    BY <2>9, <2>10, <2>13
<1> QED
  BY <1>2, <1>3

LEMMA SlotsStep == SlotInv /\ [ConcurrencyNext]_concurrencyVars => SlotInv'
<1> SUFFICES ASSUME SlotInv, [ConcurrencyNext]_concurrencyVars PROVE SlotInv'
  OBVIOUS
<1>1. CASE UNCHANGED slotVars
  BY <1>1 DEF slotVars, SlotInv, SlotTypeOK, QueueSound, SlotsExact, Running
<1>2. CASE LaneStep
  BY <1>2, <1>1 DEF LaneStep, SubmitCall, Enter, Leave
<1>3. CASE SlotStep
  BY <1>3, SlotsAcquire, SlotsRelease DEF SlotStep
<1> QED
  BY <1>1, <1>2, <1>3 DEF ConcurrencyNext, concurrencyVars

\* The scheduler's active is the number of operations under way, at most the limit, and
\* nobody waits beside a free slot, for any limit (run, concurrency.ts).
THEOREM SlotsExactAlways == ConcurrencySpec => []SlotsExact
<1>1. ConcurrencySpec => []SlotInv
  BY SlotsInit, SlotsStep, PTL DEF ConcurrencySpec
<1>2. SlotInv => SlotsExact
  BY DEF SlotInv
<1> QED
  BY <1>1, <1>2, PTL

\* Every variable of the two queues keeps its type.
THEOREM ConcurrencyTyped == ConcurrencySpec => []ConcurrencyTypeOK
<1>1. ConcurrencySpec => [](LaneInv /\ SlotInv)
  BY LanesInit, LanesStep, SlotsInit, SlotsStep, PTL DEF ConcurrencySpec
<1>2. LaneInv /\ SlotInv => ConcurrencyTypeOK
  BY DEF LaneInv, LaneTypeOK, SlotInv, SlotTypeOK, ConcurrencyTypeOK
<1> QED
  BY <1>1, <1>2, PTL

\* The transactions of a signer are sent one at a time and the slots are counted
\* exactly, for any numbers of calls, signers and slots (submit and run, concurrency.ts).
THEOREM LanesAlwaysSound == ConcurrencySpec => []LanesSound
<1>1. ConcurrencyTypeOK /\ OneSender /\ SlotsExact => LanesSound
  BY DEF LanesSound
<1> QED
  BY <1>1, ConcurrencyTyped, OneSenderAlways, SlotsExactAlways, PTL

-----------------------------------------------------------------------------
(* Settlement and payouts.  Records are written from copies, and a hash stands for  *)
(* whatever became of its transaction, so the invariant ties every hash, stored or  *)
(* held, to the operation it was sent for, and a success to its effect.             *)

\* What Arc shows of an operation that had its effect.
Shown(op, paid, unpaid, ended) ==
    CASE op = "settle" -> paid
      [] op = "close" -> ended
      [] OTHER -> paid /\ op \notin unpaid

\* A hash is of a transaction for the operation.
SentFor(hash, op, chain) == hash \in 1..Len(chain) /\ chain[hash].op = op

\* A process at work pays only after the settlement, observes the transaction its
\* operation was sent in, confirms a success and sends below the cap.
Subject(w) == IF w.op = "reconcile" THEN "settle" ELSE w.op
Engaged(w, paid, chain) ==
    w.pc # "idle" =>
        /\ \/ w.op = "settle" /\ w.pc = "send"
           \/ w.op = "reconcile" /\ w.pc \in {"observe", "confirm"}
           \/ w.op \in Payees \cup {"close"} /\ paid
        /\ w.pc \in {"observe", "confirm"} =>
              w.record \in Record /\ SentFor(w.record.tx, Subject(w), chain)
        /\ w.pc = "confirm" => chain[w.record.tx].status = "SUCCESS"
        /\ w.pc = "send" /\ w.op # "settle" => w.record.attempts < MaxAttempts

SettlementInv ==
    /\ SettlementTypeOK
    /\ owed # {} => settled
    /\ \A i \in 1..Len(txs) : txs[i].status = "SUCCESS" => Shown(txs[i].op, settled, owed, closed)
    /\ \A op \in Ops : /\ record[op].tx # 0 => SentFor(record[op].tx, op, txs)
                       /\ record[op].state = "COMPLETE" => Shown(op, settled, owed, closed)
    /\ \A p \in Processes : Engaged(worker[p], settled, txs)

\* Hashes keep their transactions, and a success stays one.
Longer(chain, later) ==
    /\ Len(chain) <= Len(later)
    /\ \A i \in 1..Len(chain) : /\ later[i].op = chain[i].op
                                /\ chain[i].status = "SUCCESS" => later[i].status = "SUCCESS"

LEMMA SentForLater ==
  ASSUME NEW a \in Seq(Tx), NEW b \in Seq(Tx), Longer(a, b), NEW h, NEW op, SentFor(h, op, a)
  PROVE  SentFor(h, op, b)
  BY DEF SentFor, Longer

LEMMA EngagedLater ==
  ASSUME NEW a \in Seq(Tx), NEW b \in Seq(Tx), Longer(a, b), NEW w, NEW s, NEW t, s => t, Engaged(w, s, a)
  PROVE  Engaged(w, t, b)
  BY DEF SentFor, Longer, Engaged

LEMMA Appended ==
  ASSUME NEW a \in Seq(Tx), NEW x \in Tx
  PROVE  Append(a, x) \in Seq(Tx) /\ Longer(a, Append(a, x))
  BY DEF Longer

LEMMA RecordPut ==
  ASSUME NEW r \in Record \cup {NoRecord}, NEW s \in RecordState
  PROVE  [r EXCEPT !.state = s] \in Record /\ [r EXCEPT !.state = s].tx = r.tx
                                          /\ [r EXCEPT !.state = s].state = s
<1>1. 0 \in Hash /\ 0 \in 0..MaxAttempts
  BY SettlementAssumption DEF Hash
<1> QED
  BY <1>1 DEF Record, NoRecord

\* A step of one process that keeps the chain's successes, and writes what Arc shows.
LEMMA ProcessKeeps ==
  ASSUME SettlementInv, NEW p \in Processes, NEW op \in Ops, NEW r \in Record \cup {NoRecord},
         NEW w \in Process,
         worker' = [worker EXCEPT ![p] = w],
         record' = record \/ record' = [record EXCEPT ![op] = r],
         r.tx # 0 => SentFor(r.tx, op, txs'),
         r.state = "COMPLETE" => Shown(op, settled, owed, closed),
         Engaged(w, settled, txs'),
         held' \in [Locks -> Processes \cup {Nobody}],
         txs' = txs \/ (Len(txs) < MaxSends /\ \E x \in Tx : x.status = "PENDING" /\ txs' = Append(txs, x)),
         UNCHANGED <<settled, owed, closed>>, failures' \in 0..MaxFailures
  PROVE  SettlementInv'
<1>1. txs \in Seq(Tx) /\ txs' \in Seq(Tx) /\ Len(txs') <= MaxSends /\ Longer(txs, txs')
  <2>1. CASE txs' = txs
    BY <2>1 DEF SettlementInv, SettlementTypeOK, Longer
  <2>2. CASE Len(txs) < MaxSends /\ \E x \in Tx : txs' = Append(txs, x)
    BY <2>2, Appended, SettlementAssumption DEF SettlementInv, SettlementTypeOK
  <2> QED
    BY <2>1, <2>2
<1>2. record' \in [Ops -> Record \cup {NoRecord}] /\ worker' \in [Processes -> Process]
  BY DEF SettlementInv, SettlementTypeOK
<1>3. SettlementTypeOK'
  BY <1>1, <1>2 DEF SettlementInv, SettlementTypeOK
<1>4. \A i \in 1..Len(txs') : txs'[i].status = "SUCCESS" => Shown(txs'[i].op, settled', owed', closed')
  <2>1. CASE txs' = txs
    BY <2>1 DEF SettlementInv
  <2>2. ASSUME NEW x \in Tx, x.status = "PENDING", txs' = Append(txs, x)
        PROVE  \A i \in 1..Len(txs') : txs'[i].status = "SUCCESS" => i \in 1..Len(txs) /\ txs'[i] = txs[i]
    BY <1>1, <2>2
  <2>3. CASE \E x \in Tx : x.status = "PENDING" /\ txs' = Append(txs, x)
    BY <1>1, <2>2, <2>3 DEF SettlementInv
  <2> QED
    BY <2>1, <2>3
<1>5. ASSUME NEW o \in Ops
      PROVE  /\ record'[o].tx # 0 => SentFor(record'[o].tx, o, txs')
             /\ record'[o].state = "COMPLETE" => Shown(o, settled', owed', closed')
  <2>1. CASE record'[o] = record[o]
    BY <1>1, <2>1, SentForLater DEF SettlementInv
  <2>2. CASE o = op /\ record'[o] = r
    BY <2>2
  <2> QED
    BY <2>1, <2>2 DEF SettlementInv, SettlementTypeOK
<1>6. ASSUME NEW q \in Processes PROVE Engaged(worker'[q], settled', txs')
  <2>1. CASE q = p
    BY <2>1 DEF SettlementInv, SettlementTypeOK
  <2>2. CASE q # p
    <3>1. worker'[q] = worker[q]
      BY <2>2 DEF SettlementInv, SettlementTypeOK
    <3> QED
      BY <1>1, <3>1, EngagedLater DEF SettlementInv
  <2> QED
    BY <2>1, <2>2
<1> QED
  BY <1>3, <1>4, <1>5, <1>6 DEF SettlementInv

\* On to the next payee, or to the closing.
LEMMA OnwardGives ==
  ASSUME SettlementInv, NEW p \in Processes, NEW ok \in BOOLEAN, Onward(p, ok),
         worker[p].pc # "idle", worker[p].op \in Payees \cup {"close"}, NEW chain
  PROVE  /\ held' \in [Locks -> Processes \cup {Nobody}]
         /\ \E w \in Process : worker' = [worker EXCEPT ![p] = w] /\ Engaged(w, settled, chain)
<1> DEFINE w == worker[p]
           q == CHOOSE q \in w.left : TRUE
           onto == [w EXCEPT !.pc = "visit", !.op = q, !.left = @ \ {q}, !.clear = @ /\ ok,
                             !.fresh = FALSE, !.record = NoRecord]
           closing == [IdleProcess EXCEPT !.pc = "visit", !.op = "close"]
<1>1. w \in Process /\ settled
  BY SettlementAssumption DEF SettlementInv, SettlementTypeOK, Engaged
<1>2. held' \in [Locks -> Processes \cup {Nobody}]
  BY DEF SettlementInv, SettlementTypeOK, Onward, Unlease
<1>3. IdleProcess \in Process /\ closing \in Process
  BY DEF IdleProcess, Process, ProcessPc, Locks, Ops
<1>4. ASSUME w.left # {} PROVE onto \in Process
  <2>1. q \in w.left /\ q \in Payees
    BY <1>1, <1>4 DEF Process
  <2>2. (w.clear /\ ok) \in BOOLEAN
    OBVIOUS
  <2> QED
    BY <1>1, <2>1, <2>2 DEF Process, ProcessPc, Locks, Ops
<1>5. CASE worker' = [worker EXCEPT ![p] = IdleProcess]
  BY <1>2, <1>3, <1>5 DEF Engaged, IdleProcess
<1>6. CASE worker' = [worker EXCEPT ![p] = closing]
  BY <1>1, <1>2, <1>3, <1>6 DEF Engaged, IdleProcess
<1>7. CASE w.left # {} /\ worker' = [worker EXCEPT ![p] = onto]
  <2>1. onto.pc = "visit" /\ onto.op \in Payees
    BY <1>1, <1>7 DEF Process
  <2> QED
    BY <1>1, <1>2, <1>4, <1>7, <2>1 DEF Engaged
<1> QED
  BY <1>5, <1>6, <1>7 DEF Onward, ProcessGoes

\* A step that writes no record.
LEMMA UnwrittenKeeps ==
  ASSUME SettlementInv, NEW p \in Processes, NEW w \in Process,
         worker' = [worker EXCEPT ![p] = w], Engaged(w, settled, txs'), UNCHANGED record,
         held' \in [Locks -> Processes \cup {Nobody}],
         txs' = txs \/ (Len(txs) < MaxSends /\ \E x \in Tx : x.status = "PENDING" /\ txs' = Append(txs, x)),
         UNCHANGED <<settled, owed, closed>>, failures' \in 0..MaxFailures
  PROVE  SettlementInv'
<1>1. NoRecord.tx = 0 /\ NoRecord.state # "COMPLETE" /\ "close" \in Ops
  BY DEF NoRecord, Ops
<1> QED
  BY <1>1, ProcessKeeps

LEMMA IdleIs ==
  /\ IdleProcess \in Process /\ \A s, chain : Engaged(IdleProcess, s, chain)
  /\ \A p \in Processes, op \in Locks : SettlementInv => Unlease(p, op) \in [Locks -> Processes \cup {Nobody}]
  /\ SettlementInv => failures \in 0..MaxFailures /\ held \in [Locks -> Processes \cup {Nobody}]
  BY DEF IdleProcess, Process, ProcessPc, Locks, Ops, Engaged, Unlease, SettlementInv, SettlementTypeOK

LEMMA SubmitKeeps == ASSUME SettlementInv, NEW p \in Processes, Submit(p) PROVE SettlementInv'
<1> DEFINE w == [IdleProcess EXCEPT !.pc = "send", !.op = "settle"]
           r == [NoRecord EXCEPT !.state = "PERSISTED"]
<1>1. w \in Process /\ Engaged(w, settled, txs')
  BY DEF IdleProcess, Process, ProcessPc, Locks, Ops, Engaged
<1>2. r \in Record /\ r.tx = 0 /\ r.state = "PERSISTED"
  BY RecordPut DEF NoRecord, RecordState
<1>3. "settle" \in Ops /\ "settle" \in Locks
  BY DEF Ops, Locks
<1>4. held' \in [Locks -> Processes \cup {Nobody}]
  BY <1>3 DEF Submit, SettlementInv, SettlementTypeOK
<1> QED
  BY <1>1, <1>2, <1>3, <1>4, IdleIs, ProcessKeeps DEF Submit, Put, ProcessGoes, Chain

LEMMA ReconcileKeeps == ASSUME SettlementInv, NEW p \in Processes, Reconcile(p) PROVE SettlementInv'
<1> DEFINE w == [IdleProcess EXCEPT !.pc = "observe", !.op = "reconcile", !.record = record["settle"]]
<1>1. "settle" \in Ops /\ "reconcile" \in Locks
  BY DEF Ops, Locks
<1>2. record["settle"] \in Record /\ SentFor(record["settle"].tx, "settle", txs)
  BY <1>1 DEF Reconcile, SettlementInv, SettlementTypeOK, NoRecord
<1>3. w \in Process /\ Engaged(w, settled, txs)
  BY <1>1, <1>2 DEF IdleProcess, Process, ProcessPc, Engaged, Subject
<1>4. held' \in [Locks -> Processes \cup {Nobody}]
  BY <1>1 DEF Reconcile, SettlementInv, SettlementTypeOK
<1> QED
  BY <1>3, <1>4, IdleIs, UnwrittenKeeps DEF Reconcile, ProcessGoes, Chain

LEMMA RunPayoutsKeeps == ASSUME SettlementInv, NEW p \in Processes, RunPayouts(p) PROVE SettlementInv'
<1> DEFINE first == CHOOSE q \in Payees : TRUE
           w == [IdleProcess EXCEPT !.pc = "visit", !.op = first, !.left = Payees \ {first}]
<1>1. first \in Payees
  BY SettlementAssumption
<1>2. w \in Process /\ Engaged(w, settled, txs)
  BY <1>1 DEF IdleProcess, Process, ProcessPc, Locks, Ops, Engaged, RunPayouts
<1> QED
  BY <1>2, IdleIs, UnwrittenKeeps DEF RunPayouts, ProcessGoes, Chain

\* The two ways on that write nothing.
LEMMA RestsKeeps ==
  ASSUME SettlementInv, NEW p \in Processes, ProcessGoes(p, IdleProcess),
         held' \in [Locks -> Processes \cup {Nobody}], UNCHANGED <<record, txs, settled, owed, closed>>,
         failures' \in 0..MaxFailures
  PROVE  SettlementInv'
  BY IdleIs, UnwrittenKeeps DEF ProcessGoes

LEMMA OnwardKeeps ==
  ASSUME SettlementInv, NEW p \in Processes, NEW ok \in BOOLEAN, Onward(p, ok),
         worker[p].pc # "idle", worker[p].op \in Payees \cup {"close"},
         UNCHANGED <<record, txs, settled, owed, closed>>, failures' \in 0..MaxFailures
  PROVE  SettlementInv'
<1>1. PICK w \in Process : worker' = [worker EXCEPT ![p] = w] /\ Engaged(w, settled, txs')
  BY OnwardGives
<1>2. held' \in [Locks -> Processes \cup {Nobody}]
  BY OnwardGives
<1> QED
  BY <1>1, <1>2, UnwrittenKeeps

LEMMA OnwardPutKeeps ==
  ASSUME SettlementInv, NEW p \in Processes, NEW ok \in BOOLEAN, Onward(p, ok),
         worker[p].pc # "idle", worker[p].op \in Payees \cup {"close"},
         NEW op \in Ops, NEW r \in Record \cup {NoRecord}, Put(op, r),
         r.tx # 0 => SentFor(r.tx, op, txs'),
         r.state = "COMPLETE" => Shown(op, settled, owed, closed),
         txs' = txs \/ (Len(txs) < MaxSends /\ \E x \in Tx : x.status = "PENDING" /\ txs' = Append(txs, x)),
         UNCHANGED <<settled, owed, closed>>, failures' \in 0..MaxFailures
  PROVE  SettlementInv'
<1>1. PICK w \in Process : worker' = [worker EXCEPT ![p] = w] /\ Engaged(w, settled, txs')
  BY OnwardGives
<1>2. held' \in [Locks -> Processes \cup {Nobody}]
  BY OnwardGives
<1> QED
  BY <1>1, <1>2, ProcessKeeps DEF Put

\* A visit is to a payee or to the closing.
LEMMA VisitPayeeKeeps == ASSUME SettlementInv, NEW p \in Processes, VisitPayee(p) PROVE SettlementInv'
<1> DEFINE v == worker[p]
           r == record[v.op]
<1>1. v \in Process /\ v.pc = "visit" /\ v.op \in Payees \cup {"close"} /\ settled
  BY DEF VisitPayee, ProcessAt, SettlementInv, SettlementTypeOK, Engaged
<1>2. v.op \in Ops /\ v.op \in Locks /\ r \in Record \cup {NoRecord} /\ v.op # "settle" /\ v.op # "reconcile"
  BY <1>1, SettlementAssumption DEF Ops, Locks, SettlementInv, SettlementTypeOK
<1>3. failures' \in 0..MaxFailures /\ UNCHANGED <<txs, settled, owed, closed>>
  BY IdleIs DEF VisitPayee, Chain
<1>4. CASE v.op = "close" /\ owed # {}
  BY <1>1, <1>3, <1>4, IdleIs, RestsKeeps DEF VisitPayee
<1>5. CASE v.op # "close" /\ v.op \notin owed
  <2> DEFINE done == [r EXCEPT !.state = "COMPLETE"]
  <2>1. done \in Record /\ done.tx = r.tx /\ done.state = "COMPLETE"
    BY <1>2, RecordPut DEF RecordState
  <2>2. Shown(v.op, settled, owed, closed)
    BY <1>1, <1>2, <1>5 DEF Shown
  <2>3. r.tx # 0 => SentFor(r.tx, v.op, txs)
    BY <1>2 DEF SettlementInv
  <2>4. Put(v.op, done) /\ Onward(p, TRUE)
    BY <1>5 DEF VisitPayee
  <2> QED
    BY <1>1, <1>2, <1>3, <2>1, <2>2, <2>3, <2>4, OnwardPutKeeps
<1>6. CASE ~(v.op = "close" /\ owed # {}) /\ ~(v.op # "close" /\ v.op \notin owed)
  <2> DEFINE sent == r.state = "SUBMITTED" /\ r.tx # 0
             w == [v EXCEPT !.pc = IF sent THEN "observe" ELSE "send", !.record = r]
  <2>1. Transaction(p)
    BY <1>6 DEF VisitPayee
  <2>2. CASE held[v.op] # Nobody
    BY <1>3, <2>1, <2>2, IdleIs, RestsKeeps DEF Transaction
  <2>3. CASE held[v.op] = Nobody /\ (Onward(p, TRUE) \/ Onward(p, FALSE))
    BY <1>1, <1>3, <2>1, <2>3, OnwardKeeps DEF Transaction
  <2>4. CASE /\ held' = [held EXCEPT ![v.op] = p] /\ ProcessGoes(p, w)
             /\ sent \/ ~(r.attempts >= MaxAttempts)
    <3>1. sent => r \in Record /\ SentFor(r.tx, v.op, txs)
      BY <1>2 DEF NoRecord, SettlementInv
    <3>2. r.attempts \in Nat /\ MaxAttempts \in Nat
      BY <1>2, SettlementAssumption DEF Record, NoRecord
    <3>3. w \in Process
      BY <1>1, <1>2 DEF Process, ProcessPc
    <3>4. Engaged(w, settled, txs)
      BY <1>1, <1>2, <2>4, <3>1, <3>2 DEF Engaged, Subject, Process
    <3>5. held' \in [Locks -> Processes \cup {Nobody}]
      BY <1>2, <2>4, IdleIs
    <3> QED
      BY <1>3, <2>1, <2>4, <3>3, <3>4, <3>5, UnwrittenKeeps DEF ProcessGoes, Transaction
  <2> QED
    BY <2>1, <2>2, <2>3, <2>4 DEF Transaction
<1> QED
  BY <1>4, <1>5, <1>6

LEMMA SendKeeps == ASSUME SettlementInv, NEW p \in Processes, SendTransaction(p) PROVE SettlementInv'
<1> DEFINE v == worker[p]
           count == IF v.op = "settle" THEN 0 ELSE v.record.attempts + 1
           r == [state |-> "SUBMITTED", tx |-> Len(txs) + 1, attempts |-> count]
           x == [op |-> v.op, status |-> "PENDING"]
           w == [v EXCEPT !.pc = "observe", !.fresh = TRUE, !.record = r]
<1>1. v \in Process /\ v.pc = "send" /\ (v.op = "settle" \/ (v.op \in Payees \cup {"close"} /\ settled))
  BY DEF SendTransaction, ProcessAt, SettlementInv, SettlementTypeOK, Engaged
<1>2. v.op \in Ops /\ v.op \in Locks /\ v.op # "reconcile" /\ x \in Tx
  BY <1>1, SettlementAssumption DEF Ops, Locks, Tx
<1>3. txs \in Seq(Tx) /\ Len(txs) < MaxSends /\ txs' = Append(txs, x) /\ MaxSends \in Nat
  BY SettlementAssumption DEF SendTransaction, SettlementInv, SettlementTypeOK
<1>4. count \in 0..MaxAttempts
  <2>1. v.op # "settle" => v.record.attempts < MaxAttempts /\ v.record.attempts \in Nat
    BY <1>1, SettlementAssumption DEF SettlementInv, Engaged, Process, Record, NoRecord
  <2> QED
    BY <2>1, SettlementAssumption
<1>5. r \in Record
  BY <1>3, <1>4 DEF Record, RecordState, Hash
<1>6. SentFor(r.tx, v.op, txs')
  BY <1>3 DEF SentFor
<1>7. Put(v.op, r) /\ UNCHANGED <<settled, owed, closed, failures>>
  BY DEF SendTransaction
<1>8. CASE v.op = "settle"
  <2>1. ProcessGoes(p, IdleProcess) /\ held' = Unlease(p, v.op)
    BY <1>8 DEF SendTransaction
  <2> QED
    BY <1>2, <1>3, <1>5, <1>6, <1>7, <2>1, IdleIs, ProcessKeeps DEF ProcessGoes, Put
<1>9. CASE v.op # "settle"
  <2>1. ProcessGoes(p, w) /\ UNCHANGED held
    BY <1>9 DEF SendTransaction
  <2>2. w \in Process
    BY <1>1, <1>5 DEF Process, ProcessPc
  <2>3. Engaged(w, settled, txs')
    BY <1>1, <1>2, <1>5, <1>6, <1>9 DEF Engaged, Subject, Process
  <2> QED
    BY <1>2, <1>3, <1>5, <1>6, <1>7, <2>1, <2>2, <2>3, IdleIs, ProcessKeeps DEF ProcessGoes, Put
<1> QED
  BY <1>8, <1>9

LEMMA ReceiptKeeps == ASSUME SettlementInv, NEW p \in Processes, ReadReceipt(p) PROVE SettlementInv'
<1> DEFINE v == worker[p]
           status == txs[v.record.tx].status
           settling == v.op = "reconcile"
           op == IF settling THEN "settle" ELSE v.op
           r(state) == [v.record EXCEPT !.state = state]
           w == [v EXCEPT !.pc = "send", !.record.state = "FAILED"]
           confirming == [v EXCEPT !.pc = "confirm"]
<1>1. v \in Process /\ v.pc = "observe" /\ (settling \/ (v.op \in Payees \cup {"close"} /\ settled))
  BY DEF ReadReceipt, ProcessAt, SettlementInv, SettlementTypeOK, Engaged
<1>2. op \in Ops /\ v.op \in Locks /\ v.record \in Record /\ SentFor(v.record.tx, op, txs) /\ op = Subject(v)
  BY <1>1, SettlementAssumption DEF Ops, Locks, SettlementInv, Engaged, Subject
<1>3. failures' \in 0..MaxFailures /\ UNCHANGED <<txs, settled, owed, closed>>
  BY IdleIs DEF ReadReceipt, Chain
<1>4. \A state \in {"PENDING", "SETTLEMENT_REJECTED", "FAILED"} :
         /\ r(state) \in Record /\ SentFor(r(state).tx, op, txs) /\ r(state).state = state
         /\ state # "COMPLETE"
  <2> TAKE state \in {"PENDING", "SETTLEMENT_REJECTED", "FAILED"}
  <2>1. state \in RecordState
    BY DEF RecordState
  <2>2. r(state) \in Record /\ r(state).tx = v.record.tx /\ r(state).state = state
    BY <1>2, <2>1, RecordPut
  <2> QED
    BY <1>2, <2>2
<1>5. CASE UNCHANGED record /\ (ProcessGoes(p, IdleProcess) /\ held' = Unlease(p, v.op))
  BY <1>2, <1>3, <1>5, IdleIs, RestsKeeps
<1>6. CASE ~settling /\ UNCHANGED record /\ Onward(p, FALSE)
  BY <1>1, <1>3, <1>6, OnwardKeeps
<1>7. CASE ~settling /\ (\E state \in {"PENDING", "FAILED"} : Put(op, r(state))) /\ Onward(p, FALSE)
  BY <1>1, <1>2, <1>3, <1>4, <1>7, OnwardPutKeeps
<1>8. CASE /\ \E state \in {"PENDING", "SETTLEMENT_REJECTED"} : Put(op, r(state))
           /\ ProcessGoes(p, IdleProcess) /\ held' = Unlease(p, v.op)
  <2>1. PICK state \in {"PENDING", "SETTLEMENT_REJECTED"} : Put(op, r(state))
    BY <1>8
  <2>2. r(state) \in Record /\ SentFor(r(state).tx, op, txs) /\ r(state).state # "COMPLETE"
    BY <1>4
  <2>3. Unlease(p, v.op) \in [Locks -> Processes \cup {Nobody}]
    BY <1>2, IdleIs
  <2> HIDE DEF r, op
  <2> QED
    BY <1>2, <1>3, <1>8, <2>1, <2>2, <2>3, IdleIs, ProcessKeeps DEF Put, ProcessGoes
<1>9. CASE status = "SUCCESS" /\ ProcessGoes(p, confirming) /\ UNCHANGED <<record, held>>
  <2>1. confirming \in Process
    BY <1>1 DEF Process, ProcessPc
  <2>2. Engaged(confirming, settled, txs)
    BY <1>1, <1>2, <1>9, SettlementAssumption DEF Engaged, Subject, Process
  <2> QED
    BY <1>3, <1>9, <2>1, <2>2, IdleIs, UnwrittenKeeps DEF ProcessGoes
<1>10. CASE /\ ~settling /\ Put(op, r("FAILED")) /\ ~(v.record.attempts >= MaxAttempts)
            /\ ProcessGoes(p, w) /\ UNCHANGED held
  <2>1. v.record.attempts \in Nat /\ MaxAttempts \in Nat
    BY <1>2, SettlementAssumption DEF Record
  <2>2. w = [v EXCEPT !.pc = "send", !.record = r("FAILED")]
    BY <1>1 DEF Process
  <2>3. w \in Process
    BY <1>1, <1>4, <2>2 DEF Process, ProcessPc
  <2>4. w.pc = "send" /\ w.op = v.op /\ w.record.attempts < MaxAttempts
    BY <1>1, <1>2, <1>10, <2>1, <2>2 DEF Process, Record
  <2>5. Engaged(w, settled, txs)
    BY <1>1, <1>10, <2>4 DEF Engaged
  <2> QED
    BY <1>2, <1>3, <1>4, <1>10, <2>3, <2>5, IdleIs, ProcessKeeps DEF ProcessGoes, Put
<1> HIDE DEF r, confirming, w
<1> QED
  BY <1>5, <1>6, <1>7, <1>8, <1>9, <1>10 DEF ReadReceipt, r, w, confirming

LEMMA ConfirmKeeps == ASSUME SettlementInv, NEW p \in Processes, Confirm(p) PROVE SettlementInv'
<1> DEFINE v == worker[p]
           op == IF v.op = "reconcile" THEN "settle" ELSE v.op
           r(state) == [v.record EXCEPT !.state = state]
           applied == v.op = "close" \/ v.op \notin owed
<1>1. v \in Process /\ v.pc = "confirm" /\ (v.op = "reconcile" \/ (v.op \in Payees \cup {"close"} /\ settled))
  BY DEF Confirm, ProcessAt, SettlementInv, SettlementTypeOK, Engaged
<1>2. op \in Ops /\ v.op \in Locks /\ v.record \in Record /\ SentFor(v.record.tx, op, txs)
      /\ txs[v.record.tx].status = "SUCCESS"
  BY <1>1, SettlementAssumption DEF Ops, Locks, SettlementInv, Engaged, Subject
<1>3. failures' \in 0..MaxFailures /\ UNCHANGED <<txs, settled, owed, closed>>
  BY IdleIs DEF Confirm, Chain
<1>4. Shown(op, settled, owed, closed)
  BY <1>2 DEF SettlementInv, SentFor
<1>5. ASSUME NEW state \in {"COMPLETE", "RECOVERY_REQUIRED", "FAILED"}
      PROVE  r(state) \in Record /\ SentFor(r(state).tx, op, txs)
  <2>1. state \in RecordState
    BY DEF RecordState
  <2>2. r(state) \in Record /\ r(state).tx = v.record.tx
    BY <1>2, <2>1, RecordPut
  <2> QED
    BY <1>2, <2>2
<1>6. CASE v.op = "reconcile"
  <2>1. ProcessGoes(p, IdleProcess) /\ held' = Unlease(p, v.op)
    BY <1>6 DEF Confirm
  <2>2. PICK state \in {"COMPLETE", "RECOVERY_REQUIRED", "FAILED"} : Put(op, r(state))
    BY <1>6 DEF Confirm
  <2>3. Unlease(p, v.op) \in [Locks -> Processes \cup {Nobody}]
    BY <1>2, IdleIs
  <2>4. r(state) \in Record /\ SentFor(r(state).tx, op, txs)
    BY <1>5
  <2> HIDE DEF r, op
  <2> QED
    BY <1>2, <1>3, <1>4, <2>1, <2>2, <2>3, <2>4, IdleIs, ProcessKeeps DEF Put, ProcessGoes
<1>7. CASE v.op # "reconcile"
  <2>1. applied \in BOOLEAN /\ Onward(p, applied)
    BY <1>7 DEF Confirm
  <2>2. v.op \in Payees \cup {"close"} /\ v.pc # "idle"
    BY <1>1, <1>7
  <2>3. CASE UNCHANGED record
    BY <1>3, <2>1, <2>2, <2>3, OnwardKeeps
  <2>4. ASSUME NEW state \in {"COMPLETE", "RECOVERY_REQUIRED", "FAILED"}, Put(op, r(state)) PROVE SettlementInv'
    <3>1. r(state) \in Record /\ SentFor(r(state).tx, op, txs)
      BY <1>5
    <3> HIDE DEF r, op, applied
    <3> QED
      BY <1>2, <1>3, <1>4, <2>1, <2>2, <2>4, <3>1, OnwardPutKeeps
  <2> QED
    BY <1>7, <2>3, <2>4 DEF Confirm
<1> QED
  BY <1>6, <1>7

\* An error that is caught.
LEMMA CaughtKeeps ==
  ASSUME SettlementInv, NEW p \in Processes, Caught(p), worker[p].pc \in {"send", "observe", "confirm"},
         txs' = txs \/ (Len(txs) < MaxSends /\ \E x \in Tx : x.status = "PENDING" /\ txs' = Append(txs, x)),
         UNCHANGED <<settled, owed, closed>>, failures' \in 0..MaxFailures
  PROVE  SettlementInv'
<1> DEFINE v == worker[p]
           count == IF v.fresh THEN v.record.attempts ELSE v.record.attempts + 1
           r == [state |-> "FAILED", tx |-> 0, attempts |-> count]
<1>1. v \in Process /\ v.op \in Locks
      /\ (v.op = "settle" \/ v.op = "reconcile" \/ (v.op \in Payees \cup {"close"} /\ settled))
  BY DEF SettlementInv, SettlementTypeOK, Engaged, Ops, Locks
<1>2. CASE v.op \notin {"settle", "reconcile"} /\ (v.fresh \/ v.pc = "send") /\ Put(v.op, r) /\ Onward(p, FALSE)
  <2>1. v.record.attempts \in 0..MaxAttempts /\ (v.pc = "send" => v.record.attempts < MaxAttempts)
    BY <1>1, <1>2, SettlementAssumption DEF SettlementInv, Engaged, Process, Record, NoRecord
  <2>2. count \in 0..MaxAttempts
    BY <1>2, <2>1, SettlementAssumption
  <2>3. r \in Record /\ v.op \in Ops
    BY <1>1, <1>2, <2>2, SettlementAssumption DEF Record, RecordState, Hash, Ops
  <2> QED
    BY <1>1, <1>2, <2>3, OnwardPutKeeps
<1>3. CASE ProcessGoes(p, IdleProcess) /\ held' = Unlease(p, v.op) /\ UNCHANGED record
  BY <1>1, <1>3, IdleIs, UnwrittenKeeps DEF ProcessGoes
<1> QED
  BY <1>2, <1>3 DEF Caught

LEMMA FailedSendKeeps == ASSUME SettlementInv, NEW p \in Processes, FailedSend(p) PROVE SettlementInv'
<1> DEFINE x == [op |-> worker[p].op, status |-> "PENDING"]
<1>1. x \in Tx
  BY SettlementAssumption DEF FailedSend, ProcessAt, SettlementInv, Engaged, Tx, Ops
<1>2. failures' \in 0..MaxFailures
  BY SettlementAssumption DEF FailedSend, Failure, SettlementInv, SettlementTypeOK
<1>3. txs' = txs \/ (Len(txs) < MaxSends /\ txs' = Append(txs, x))
  BY DEF FailedSend
<1> QED
  BY <1>1, <1>2, <1>3, CaughtKeeps DEF FailedSend, ProcessAt

LEMMA FailedReadKeeps == ASSUME SettlementInv, NEW p \in Processes, FailedRead(p) PROVE SettlementInv'
<1>1. failures' \in 0..MaxFailures
  BY SettlementAssumption DEF FailedRead, Failure, SettlementInv, SettlementTypeOK
<1> QED
  BY <1>1, CaughtKeeps DEF FailedRead, Chain

LEMMA ProcessEndsKeeps == ASSUME SettlementInv, NEW p \in Processes, ProcessEnds(p) PROVE SettlementInv'
<1> DEFINE x == [op |-> worker[p].op, status |-> "PENDING"]
<1>1. worker[p].pc = "send" => x \in Tx
  BY SettlementAssumption DEF SettlementInv, Engaged, Tx, Ops
<1>2. failures' \in 0..MaxFailures
  BY SettlementAssumption DEF ProcessEnds, Failure, SettlementInv, SettlementTypeOK
<1>3. txs' = txs \/ (worker[p].pc = "send" /\ Len(txs) < MaxSends /\ txs' = Append(txs, x))
  BY DEF ProcessEnds, ProcessAt
<1> QED
  BY <1>1, <1>2, <1>3, IdleIs, UnwrittenKeeps DEF ProcessEnds, ProcessGoes

LEMMA LeaseEndsKeeps == ASSUME SettlementInv, NEW op \in Locks, LeaseEnds(op) PROVE SettlementInv'
  BY SettlementAssumption DEF LeaseEnds, Failure, Chain, SettlementInv, SettlementTypeOK

LEMMA MineKeeps == ASSUME SettlementInv, NEW i \in 1..Len(txs), Mine(i) PROVE SettlementInv'
<1> DEFINE op == txs[i].op
           status == IF Applies(op) THEN "SUCCESS" ELSE "FAILED"
<1>1. txs \in Seq(Tx) /\ txs[i] \in Tx /\ op \in Ops /\ txs[i].status = "PENDING"
  <2>1. txs \in Seq(Tx) /\ txs[i] \in Tx
    BY DEF SettlementInv, SettlementTypeOK
  <2> QED
    BY <2>1 DEF Tx, Mine
<1>2. /\ txs' \in Seq(Tx) /\ Len(txs') = Len(txs) /\ Longer(txs, txs')
      /\ txs'[i].op = op /\ txs'[i].status = status
      /\ \A j \in 1..Len(txs) : j # i => txs'[j] = txs[j]
  <2>1. [txs[i] EXCEPT !.status = status] \in Tx
    BY <1>1 DEF Tx
  <2>2. txs' = [txs EXCEPT ![i] = [txs[i] EXCEPT !.status = status]]
    BY DEF Mine
  <2> QED
    BY <1>1, <2>1, <2>2 DEF Longer, Tx
<1>3. UNCHANGED <<record, held, worker, failures>>
  BY DEF Mine
<1>4. settled' \in BOOLEAN /\ closed' \in BOOLEAN /\ owed' \subseteq Payees
  BY DEF Mine, SettlementInv, SettlementTypeOK
<1>5. SettlementTypeOK'
  BY <1>2, <1>3, <1>4 DEF SettlementInv, SettlementTypeOK
<1>6. (settled => settled') /\ (closed => closed') /\ (settled => owed' \subseteq owed) /\ (owed' # {} => settled')
  BY DEF Mine, SettlementInv
<1>7. ASSUME NEW o, Shown(o, settled, owed, closed) PROVE Shown(o, settled', owed', closed')
  BY <1>6, <1>7 DEF Shown
<1>8. status = "SUCCESS" => Shown(op, settled', owed', closed')
  <2>1. CASE op = "settle"
    BY <2>1 DEF Shown, Mine
  <2>2. CASE op = "close"
    BY <2>2 DEF Shown, Mine
  <2>3. CASE op # "settle" /\ op # "close"
    BY <2>3 DEF Shown, Mine, Applies, SettlementInv
  <2> QED
    BY <2>1, <2>2, <2>3
<1>9. \A j \in 1..Len(txs') : txs'[j].status = "SUCCESS" => Shown(txs'[j].op, settled', owed', closed')
  BY <1>2, <1>7, <1>8 DEF SettlementInv
<1>10. ASSUME NEW o \in Ops
       PROVE  /\ record'[o].tx # 0 => SentFor(record'[o].tx, o, txs')
              /\ record'[o].state = "COMPLETE" => Shown(o, settled', owed', closed')
  BY <1>1, <1>2, <1>3, <1>7, SentForLater DEF SettlementInv
<1>11. ASSUME NEW q \in Processes PROVE Engaged(worker'[q], settled', txs')
  BY <1>1, <1>2, <1>3, <1>6, EngagedLater DEF SettlementInv
<1> QED
  BY <1>5, <1>6, <1>9, <1>10, <1>11 DEF SettlementInv

LEMMA WithdrawKeeps == ASSUME SettlementInv, NEW q \in Payees, Withdraw(q) PROVE SettlementInv'
<1>1. SettlementTypeOK' /\ UNCHANGED <<record, worker, txs, settled, closed>> /\ owed' \subseteq owed
  BY DEF Withdraw, SettlementInv, SettlementTypeOK
<1>2. ASSUME NEW o, Shown(o, settled, owed, closed) PROVE Shown(o, settled', owed', closed')
  BY <1>1, <1>2 DEF Shown
<1> QED
  BY <1>1, <1>2 DEF SettlementInv

LEMMA SettlementStarts == SettlementInit => SettlementInv
<1> SUFFICES ASSUME SettlementInit PROVE SettlementInv
  OBVIOUS
<1>1. SettlementTypeOK
  <2>1. txs \in Seq(Tx) /\ Len(txs) = 0 /\ MaxSends \in Nat /\ MaxFailures \in Nat
    BY SettlementAssumption DEF SettlementInit
  <2>2. record \in [Ops -> Record \cup {NoRecord}] /\ worker \in [Processes -> Process]
        /\ held \in [Locks -> Processes \cup {Nobody}]
    BY IdleIs DEF SettlementInit
  <2>3. settled \in BOOLEAN /\ owed \subseteq Payees /\ closed \in BOOLEAN
    BY Zenon DEF SettlementInit
  <2>4. failures = 0
    BY Zenon DEF SettlementInit
  <2>5. failures \in 0..MaxFailures
    BY <2>1, <2>4
  <2> QED
    BY <2>1, <2>2, <2>3, <2>5 DEF SettlementTypeOK
<1> QED
  BY <1>1, IdleIs DEF SettlementInit, SettlementInv, NoRecord

LEMMA SettlementStep == ASSUME SettlementInv, [SettlementNext]_settlementVars PROVE SettlementInv'
<1>1. CASE UNCHANGED settlementVars
  BY <1>1 DEF settlementVars, SettlementInv, SettlementTypeOK
<1>2. CASE \E p \in Processes : Work(p)
  BY <1>2, SubmitKeeps, ReconcileKeeps, RunPayoutsKeeps, VisitPayeeKeeps, SendKeeps, ReceiptKeeps, ConfirmKeeps
     DEF Work
<1>3. CASE \E p \in Processes : FailedSend(p) \/ FailedRead(p) \/ ProcessEnds(p)
  BY <1>3, FailedSendKeeps, FailedReadKeeps, ProcessEndsKeeps
<1> QED
  BY <1>1, <1>2, <1>3, MineKeeps, WithdrawKeeps, LeaseEndsKeeps DEF SettlementNext

\* Every variable of the settlement keeps its type.
THEOREM SettlementTyped == SettlementSpec => []SettlementTypeOK
<1>1. SettlementInv => SettlementTypeOK
  BY DEF SettlementInv
<1> QED
  BY <1>1, SettlementStarts, SettlementStep, PTL DEF SettlementSpec

\* COMPLETE is recorded of a settlement, a payout or a closing only if Arc shows its
\* effect, for any processes, payees, caps, lost hashes and outlived leases
\* (processTransaction, reconcile).
THEOREM CompleteAlwaysApplied == SettlementSpec => []CompleteMeansApplied
<1>1. SettlementSpec => []SettlementInv
  BY SettlementStarts, SettlementStep, PTL DEF SettlementSpec
<1>2. SettlementInv => CompleteMeansApplied
  BY SettlementAssumption DEF SettlementInv, CompleteMeansApplied, Shown
<1> QED
  BY <1>1, <1>2, PTL

-----------------------------------------------------------------------------
(* Tournament play.  Any row may be written from a copy read long before, so *)
(* what is known of the stored row is known of every copy, and survives what *)
(* Arc and the judges do: Arc's entrants stop changing, an end is an end.    *)

Decided == {"SETTLED", "CANCELLED_REFUNDABLE"}
Unstarted == {"ABSENT", "DRAFT"}

\* What a row may say of its tournament.
RowTrue(r, a, judged) ==
    /\ r.state = "COMPLETED" => a.state = "SETTLED"
    /\ r.state = "REFUNDED" => a.state = "CANCELLED_REFUNDABLE"
    /\ r.roster > 0 => r.roster = a.entrants /\ a.state \notin Unstarted
    /\ r.ranking => judged

\* What a handler knows between two awaits.
Known(l, arcs, judged) ==
    /\ RowTrue(l.row, arcs[l.t], l.t \in judged)
    /\ l.pc \notin {"idle", "plan", "create", "createRow"} => l.row \in Row
    /\ l.pc = "settle" => l.row.ranking
    /\ l.pc \in {"roster", "run"} => arcs[l.t].state \notin Unstarted

\* What may become of a tournament on Arc.
ArcLater(a, b) ==
    /\ a.state # "DRAFT" => b.entrants = a.entrants
    /\ a.state \in Decided => b.state = a.state
    /\ a.state \notin Unstarted => b.state \notin Unstarted

\* The days the worker may have planned a tournament for: its clock is one behind.
Plannable == Days \cap (0..(Horizon + 1))

RowsInv ==
    /\ TypeOK /\ intents \subseteq Plannable
    /\ \A t \in Tournaments : /\ bound[t] <= arc[t].entrants
                              /\ arc[t].state = "SETTLED" => t \in final
                              /\ RowTrue(row[t], arc[t], t \in final)
    /\ \A h \in Handlers : Known(local[h], arc, final)

LEMMA RowTrueLater ==
  ASSUME NEW r, NEW a \in Arc, NEW b \in Arc, ArcLater(a, b), NEW f, NEW g, f => g, RowTrue(r, a, f)
  PROVE  RowTrue(r, b, g)
  BY DEF RowTrue, ArcLater, Unstarted, Decided, Arc

LEMMA AbsentTrue == \A a, f : RowTrue(Absent, a, f) /\ RowTrue(FirstRow, a, f)
  BY DEF RowTrue, Absent, FirstRow

LEMMA Sizes == 0 \in 0..MaxEntrants /\ MaxEntrants \in Nat /\ MinEntrants \in Nat /\ MinEntrants > 0
  BY TournamentPlayAssumption

LEMMA RowTyped ==
  ASSUME NEW r \in Row \cup {Absent}, NEW s \in RowState, NEW e \in Evidence
  PROVE  /\ [r EXCEPT !.state = s] \in Row /\ [r EXCEPT !.state = s].state = s
         /\ [r EXCEPT !.state = s, !.evidence = e] \in Row
         /\ As(r, s) \in Row
         /\ [As(r, s) EXCEPT !.ranking = TRUE] \in Row
<1>1. r \in [state : RowState \cup {"ABSENT"}, roster : 0..MaxEntrants, ranking : BOOLEAN, evidence : Evidence]
  <2>1. CASE r \in Row
    BY <2>1 DEF Row
  <2>2. CASE r = Absent
    BY <2>2, Sizes DEF Absent, Evidence
  <2> QED
    BY <2>1, <2>2
<1>2. "NONE" \in Evidence
  BY DEF Evidence
<1> QED
  BY <1>1, <1>2 DEF Row, As

LEMMA AsIs ==
  ASSUME NEW r \in Row \cup {Absent}, NEW s \in RowState
  PROVE  As(r, s).state = s /\ As(r, s).roster = r.roster /\ As(r, s).ranking = r.ranking
  BY DEF Row, Absent, As

LEMMA TerminalApplied ==
  ASSUME NEW r \in Row \cup {Absent}, NEW a \in Arc, NEW f, RowTrue(r, a, f)
  PROVE  /\ ApplyArcTerminal(r, a) \in Row \cup {Absent}
         /\ r \in Row => ApplyArcTerminal(r, a) \in Row
         /\ RowTrue(ApplyArcTerminal(r, a), a, f)
<1>1. \A s \in {"COMPLETED", "REFUNDED", "RUNNING"} :
         /\ As(r, s) \in Row /\ As(r, s).state = s /\ As(r, s).roster = r.roster /\ As(r, s).ranking = r.ranking
  <2> TAKE s \in {"COMPLETED", "REFUNDED", "RUNNING"}
  <2>1. s \in RowState /\ "NONE" \in Evidence
    BY DEF RowState, Evidence
  <2> QED
    BY <2>1, RowTyped, AsIs
<1> QED
  BY <1>1 DEF ApplyArcTerminal, RowTrue

\* A step of one handler, and what the others know after it.
LEMMA HandlerKeeps ==
  ASSUME RowsInv, NEW h \in Handlers, NEW l \in Local, local' = [local EXCEPT ![h] = l],
         NEW t \in Tournaments, NEW r \in Row \cup {Absent}, row' = row \/ row' = [row EXCEPT ![t] = r],
         arc' \in [Tournaments -> Arc], \A u \in Tournaments : ArcLater(arc[u], arc'[u]),
         \A u \in Tournaments : arc'[u].entrants = arc[u].entrants,
         \A u \in Tournaments : arc'[u].state = "SETTLED" => u \in final,
         RowTrue(r, arc'[t], t \in final), Known(l, arc', final),
         lease' \subseteq Tournaments, intents' \subseteq Plannable, retries' \in [Tournaments -> 0..RetryLimit],
         asked' \in 0..MaxRequests, faults' \in 0..MaxFaults, UNCHANGED <<bound, final, now>>
  PROVE  RowsInv'
<1>1. TypeOK /\ TypeOK' /\ intents' \subseteq Plannable
  BY DEF RowsInv, TypeOK, Plannable
<1>2. ASSUME NEW u \in Tournaments PROVE RowTrue(row'[u], arc'[u], u \in final')
  <2>1. RowTrue(row[u], arc'[u], u \in final)
    BY <1>1, RowTrueLater DEF RowsInv, TypeOK
  <2> QED
    BY <1>1, <2>1 DEF TypeOK
<1>3. ASSUME NEW g \in Handlers PROVE Known(local'[g], arc', final')
  <2>1. CASE g = h
    BY <1>1, <2>1 DEF TypeOK
  <2>2. CASE g # h
    <3>1. local'[g] = local[g] /\ local[g].t \in Tournaments
      BY <1>1, <2>2 DEF TypeOK, Local
    <3>2. Known(local[g], arc, final) /\ ArcLater(arc[local[g].t], arc'[local[g].t])
      BY <3>1 DEF RowsInv
    <3>3. RowTrue(local[g].row, arc'[local[g].t], local[g].t \in final)
      BY <1>1, <3>1, <3>2, RowTrueLater DEF Known, TypeOK
    <3> QED
      BY <3>1, <3>2, <3>3 DEF Known, ArcLater
  <2> QED
    BY <2>1, <2>2
<1>4. ASSUME NEW u \in Tournaments
      PROVE  bound'[u] <= arc'[u].entrants /\ (arc'[u].state = "SETTLED" => u \in final')
  BY DEF RowsInv
<1> QED
  BY <1>1, <1>2, <1>3, <1>4 DEF RowsInv

\* The parts of a typed handler.
LEMMA Bits ==
  ASSUME RowsInv, NEW h \in Handlers
  PROVE  /\ local[h] \in Local /\ local[h].t \in Tournaments /\ local[h].row \in Row \cup {Absent}
         /\ Known(local[h], arc, final) /\ local[h].today \in 0..Horizon
         /\ \A u \in Tournaments : arc[u] \in Arc /\ row[u] \in Row \cup {Absent} /\ ArcLater(arc[u], arc[u])
         /\ lease \subseteq Tournaments /\ intents \subseteq Plannable /\ retries \in [Tournaments -> 0..RetryLimit]
         /\ asked \in 0..MaxRequests /\ faults \in 0..MaxFaults /\ arc \in [Tournaments -> Arc]
  BY DEF RowsInv, TypeOK, Local, ArcLater

LEMMA AtRest ==
  /\ Idle \in Local /\ Idle.row = Absent /\ Idle.pc = "idle" /\ Idle.acted = FALSE
  /\ \A d \in 0..Horizon : [Idle EXCEPT !.pc = "plan", !.today = d] \in Local
  /\ Idle.t \in Tournaments
<1>1. (CHOOSE t \in Tournaments : TRUE) \in Tournaments
  BY TournamentPlayAssumption
<1>2. 0 \in 0..Horizon
  BY TournamentPlayAssumption
<1> QED
  BY <1>1, <1>2 DEF Idle, Local, Pc

LEMMA IdleKnown ==
  ASSUME NEW a, NEW f, NEW d
  PROVE  Known(Idle, a, f) /\ Known([Idle EXCEPT !.pc = "plan", !.today = d], a, f)
<1>1. LET p == [Idle EXCEPT !.pc = "plan", !.today = d] IN p.pc = "plan" /\ p.row = Absent
  BY DEF Idle
<1> QED
  BY <1>1, AtRest, AbsentTrue DEF Known

\* A step that changes nothing on Arc.
LEMMA OffArcKeeps ==
  ASSUME RowsInv, NEW h \in Handlers, NEW l \in Local, Goto(h, l),
         NEW t \in Tournaments, NEW r \in Row \cup {Absent}, row' = row \/ row' = [row EXCEPT ![t] = r],
         RowTrue(r, arc[t], t \in final), Known(l, arc, final),
         lease' \subseteq Tournaments, intents' \subseteq Plannable, retries' \in [Tournaments -> 0..RetryLimit],
         asked' \in 0..MaxRequests, faults' \in 0..MaxFaults, UNCHANGED <<arc, bound, final, now>>
  PROVE  RowsInv'
<1>1. \A u \in Tournaments : ArcLater(arc[u], arc'[u]) /\ arc'[u].entrants = arc[u].entrants
  BY DEF ArcLater
<1>2. arc' \in [Tournaments -> Arc] /\ \A u \in Tournaments : arc'[u].state = "SETTLED" => u \in final
  BY DEF RowsInv, TypeOK
<1> QED
  BY <1>1, <1>2, HandlerKeeps DEF Goto

LEMMA UnstoredKeeps ==
  ASSUME RowsInv, NEW h \in Handlers, NEW l \in Local, Goto(h, l), Known(l, arc, final),
         lease' \subseteq Tournaments, intents' \subseteq Plannable,
         asked' \in 0..MaxRequests, faults' \in 0..MaxFaults, UNCHANGED <<row, arc, bound, final, now, retries>>
  PROVE  RowsInv'
<1>1. retries' \in [Tournaments -> 0..RetryLimit] /\ Idle.t \in Tournaments
  BY AtRest, Bits
<1> QED
  BY <1>1, AbsentTrue, OffArcKeeps

LEMMA ObserveKeeps == ASSUME RowsInv, NEW h \in Handlers, Observe(h) PROVE RowsInv'
<1> DEFINE v == local[h]
           r == ApplyArcTerminal(v.row, arc[v.t])
           l == [v EXCEPT !.pc = "store", !.row = r]
<1>1. v.row \in Row /\ RowTrue(v.row, arc[v.t], v.t \in final)
  BY Bits DEF Observe, At, Known
<1>2. r \in Row /\ RowTrue(r, arc[v.t], v.t \in final)
  BY <1>1, Bits, TerminalApplied
<1>3. l \in Local /\ l.pc = "store" /\ l.row = r /\ l.t = v.t
  BY <1>2, Bits DEF Local, Pc
<1>4. Known(l, arc, final)
  BY <1>2, <1>3 DEF Known
<1>5. Goto(h, l)
  BY DEF Observe
<1> HIDE DEF l
<1> QED
  BY <1>3, <1>4, <1>5, Bits, UnstoredKeeps DEF Observe, Environment

LEMMA ExecuteGives ==
  ASSUME RowsInv, NEW h \in Handlers, NEW wish \in Action, Execute(h, local[h].t, wish, local[h].row),
         local[h].pc = "store"
  PROVE  /\ lease' \subseteq Tournaments
         /\ \E l \in Local : Goto(h, l) /\ Known(l, arc, final)
<1> DEFINE v == local[h]
           l == [v EXCEPT !.pc = First(wish), !.wish = wish, !.row = v.row, !.acted = TRUE]
<1>1. CASE Goto(h, Idle) /\ UNCHANGED lease
  BY <1>1, Bits, AtRest, IdleKnown
<1>2. CASE ~(wish = "SETTLE" /\ ~v.row.ranking) /\ lease' = lease \cup {v.t} /\ Goto(h, l)
  <2>1. First(wish) \in {"progress", "settle", "cancel"} /\ (First(wish) = "settle" => wish = "SETTLE")
    BY DEF First, Action
  <2>2. l \in Local /\ l.pc = First(wish) /\ l.row = v.row /\ l.t = v.t /\ l.today = v.today
    BY <2>1, Bits DEF Local, Pc, Call
  <2>3. v.row \in Row
    BY Bits DEF Known
  <2>4. Known(l, arc, final)
    BY <1>2, <2>1, <2>2, <2>3, Bits DEF Known
  <2> QED
    BY <1>2, <2>1, <2>2, <2>4, Bits
<1> QED
  BY <1>1, <1>2 DEF Execute

LEMMA StoreKeeps == ASSUME RowsInv, NEW h \in Handlers, Store(h) PROVE RowsInv'
<1> DEFINE v == local[h]
           wish == IF h = Worker THEN ActionFor(v.row, v.t, v.today) ELSE v.wish
           goes == /\ ~v.acted /\ v.row.state \notin Terminal /\ wish # "GET"
                   /\ IF h = Worker THEN v.today >= StartsAt(v.t) ELSE wish \in NextActions(v.row)
           again == /\ h = Worker /\ goes /\ wish = "PROGRESS"
                    /\ v.row.state = "RECOVERY_REQUIRED" /\ v.row.evidence = "PARTIAL"
<1>1. row' = [row EXCEPT ![v.t] = v.row] /\ v.row \in Row /\ RowTrue(v.row, arc[v.t], v.t \in final)
  BY Bits DEF Store, At, Known
<1>2. retries' \in [Tournaments -> 0..RetryLimit]
  <2>1. CASE again
    <3>1. ActionFor(v.row, v.t, v.today) = "PROGRESS"
      BY <2>1
    <3>2. v.today \in Nat /\ ExpiresAt(v.t) \in Int
      BY Bits, TournamentPlayAssumption DEF ExpiresAt, StartsAt, Tournaments
    <3>3. retries[v.t] < RetryLimit
      BY <2>1, <3>1, <3>2 DEF ActionFor
    <3>4. retries' = [retries EXCEPT ![v.t] = retries[v.t] + 1]
      BY <2>1 DEF Store
    <3> QED
      BY <3>3, <3>4, Bits, TournamentPlayAssumption
  <2>2. CASE ~again
    BY <2>2, Bits DEF Store
  <2> QED
    BY <2>1, <2>2
<1>3. /\ lease' \subseteq Tournaments
      /\ \E l \in Local : Goto(h, l) /\ Known(l, arc, final)
  <2>1. CASE goes
    <3>1. wish \in Action
      <4>1. ActionFor(v.row, v.t, v.today) \in Action \cup {"GET"}
        BY DEF ActionFor, Action
      <4>2. v.wish \in Action \cup {"GET"}
        BY Bits DEF Local
      <4> QED
        BY <2>1, <4>1, <4>2
    <3>2. Execute(h, v.t, wish, v.row)
      BY <2>1 DEF Store
    <3> QED
      BY <3>1, <3>2, ExecuteGives DEF Store, At
  <2>2. CASE ~goes
    BY <2>2, Bits, AtRest, IdleKnown DEF Store
  <2> QED
    BY <2>1, <2>2
<1> QED
  BY <1>1, <1>2, <1>3, Bits, OffArcKeeps DEF Store, Environment

\* A call that threw.
LEMMA ThrowGives ==
  ASSUME RowsInv, NEW h \in Handlers, Throw(h)
  PROVE  Goto(h, Idle) /\ lease' \subseteq Tournaments /\ Idle \in Local
  BY Bits, AtRest DEF Throw

\* A row stored on the way to a refresh, of a copy that knows as much as the handler.
LEMMA SaveGives ==
  ASSUME RowsInv, NEW h \in Handlers, NEW r \in Row, Save(h, r), NEW arcs, NEW f,
         RowTrue(r, arcs[local[h].t], local[h].t \in f)
  PROVE  /\ lease' \subseteq Tournaments /\ row' = [row EXCEPT ![local[h].t] = r]
         /\ \E l \in Local : Goto(h, l) /\ Known(l, arcs, f)
<1> DEFINE l == [local[h] EXCEPT !.pc = "observe", !.row = r]
<1>1. l \in Local /\ l.pc = "observe" /\ l.row = r /\ l.t = local[h].t
  BY Bits DEF Local, Pc
<1>2. Known(l, arcs, f)
  BY <1>1 DEF Known
<1> QED
  BY <1>1, <1>2, Bits DEF Save

\* Progress once Arc is known to be in a state: it goes on, or stores the row.
LEMMA RouteGives ==
  ASSUME RowsInv, NEW h \in Handlers, NEW state \in ArcState, Route(h, state),
         local[h].pc \in {"progress", "close"}, NEW arcs,
         arcs[local[h].t] = [arc[local[h].t] EXCEPT !.state = state],
         RowTrue(local[h].row, arcs[local[h].t], local[h].t \in final)
  PROVE  /\ lease' \subseteq Tournaments
         /\ \E r \in Row : (row' = row \/ row' = [row EXCEPT ![local[h].t] = r])
                           /\ RowTrue(r, arcs[local[h].t], local[h].t \in final)
         /\ \E l \in Local : Goto(h, l) /\ Known(l, arcs, final)
<1> DEFINE v == local[h]
           a == [arc[v.t] EXCEPT !.state = state]
<1>1. v.row \in Row /\ a \in Arc /\ a.state = state
  BY Bits DEF Known, Arc
<1>2. ASSUME NEW pc \in {"mark", "roster"}, pc = "roster" => state = "RUNNING",
             Goto(h, [v EXCEPT !.pc = pc]), UNCHANGED <<row, lease>>
      PROVE  /\ lease' \subseteq Tournaments /\ row' = row
             /\ \E l \in Local : Goto(h, l) /\ Known(l, arcs, final)
  <2> DEFINE l == [v EXCEPT !.pc = pc]
  <2>1. l \in Local /\ l.pc = pc /\ l.row = v.row /\ l.t = v.t
    BY Bits DEF Local, Pc, Call
  <2>2. Known(l, arcs, final)
    BY <1>1, <1>2, <2>1 DEF Known, Unstarted
  <2> QED
    BY <1>2, <2>1, <2>2, Bits
<1>3. ASSUME NEW s \in {"REFUND_PENDING", "REGISTRATION"}
      PROVE  [v.row EXCEPT !.state = s] \in Row /\ RowTrue([v.row EXCEPT !.state = s], arcs[v.t], v.t \in final)
  <2>1. [v.row EXCEPT !.state = s].state = s /\ [v.row EXCEPT !.state = s] \in Row
    BY <1>1 DEF Row, RowState
  <2>2. [v.row EXCEPT !.state = s].roster = v.row.roster /\ [v.row EXCEPT !.state = s].ranking = v.row.ranking
    BY <1>1 DEF Row
  <2> QED
    BY <2>1, <2>2 DEF RowTrue
<1>4. ApplyArcTerminal(v.row, a) \in Row /\ RowTrue(ApplyArcTerminal(v.row, a), arcs[v.t], v.t \in final)
  BY <1>1, TerminalApplied
<1>5. ASSUME NEW r \in Row, RowTrue(r, arcs[v.t], v.t \in final), Save(h, r)
      PROVE  /\ lease' \subseteq Tournaments
             /\ row' = [row EXCEPT ![v.t] = r]
             /\ \E l \in Local : Goto(h, l) /\ Known(l, arcs, final)
  BY <1>5, SaveGives
<1> DEFINE go == \E pc \in {"mark", "roster"} : (pc = "roster" => state = "RUNNING")
                       /\ Goto(h, [v EXCEPT !.pc = pc]) /\ UNCHANGED <<row, lease>>
           put == \E r \in Row : RowTrue(r, arcs[v.t], v.t \in final) /\ Save(h, r)
<1>6. CASE state = "RUNNING"
  <2>1. go
    BY <1>6 DEF Route
  <2> QED
    BY <1>1, <1>2, <2>1
<1>7. CASE state = "REGISTRATION_CLOSED"
  <2>1. go \/ put
    <3> DEFINE short == arc[v.t].entrants < MinEntrants
    <3>0. now \in Int /\ StartsAt(v.t) \in Int
      BY Bits, TournamentPlayAssumption DEF RowsInv, TypeOK, StartsAt, Tournaments
    <3>1. CASE short
      <4>1. Save(h, [v.row EXCEPT !.state = "REFUND_PENDING"])
        BY <1>7, <3>1 DEF Route
      <4> QED
        BY <1>3, <4>1
    <3>2. CASE ~short /\ now < StartsAt(v.t)
      <4>1. Save(h, [v.row EXCEPT !.state = "REGISTRATION"])
        BY <1>7, <3>0, <3>2 DEF Route
      <4> QED
        BY <1>3, <4>1
    <3>3. CASE ~short /\ now >= StartsAt(v.t)
      BY <1>7, <3>3 DEF Route
    <3> QED
      BY <3>0, <3>1, <3>2, <3>3
  <2>2. CASE go
    BY <1>1, <1>2, <2>2
  <2>3. CASE put
    BY <1>5, <2>3
  <2> QED
    BY <2>1, <2>2, <2>3
<1>8. CASE state \notin {"RUNNING", "REGISTRATION_CLOSED"}
  <2>1. put
    BY <1>4, <1>8 DEF Route
  <2> QED
    BY <1>5, <2>1
<1> QED
  BY <1>6, <1>7, <1>8

LEMMA ProgressKeeps == ASSUME RowsInv, NEW h \in Handlers, Progress(h) PROVE RowsInv'
<1> DEFINE v == local[h]
<1>1. v.row \in Row /\ RowTrue(v.row, arc[v.t], v.t \in final) /\ arc[v.t] \in Arc /\ v.pc = "progress"
  BY Bits DEF Progress, At, Known
<1>2. CASE Goto(h, [v EXCEPT !.pc = "close"]) /\ UNCHANGED <<row, lease>>
  <2> DEFINE l == [v EXCEPT !.pc = "close"]
  <2>1. l \in Local /\ l.pc = "close" /\ l.row = v.row /\ l.t = v.t
    BY Bits DEF Local, Pc, Call
  <2>2. Known(l, arc, final)
    BY <1>1, <2>1 DEF Known
  <2>3. Goto(h, l)
    BY <1>2
  <2> HIDE DEF l
  <2> QED
    BY <1>2, <2>1, <2>2, <2>3, Bits, UnstoredKeeps DEF Progress, Environment
<1>3. CASE Route(h, arc[v.t].state)
  <2>1. arc[v.t].state \in ArcState /\ arc[v.t] = [arc[v.t] EXCEPT !.state = arc[v.t].state]
    BY <1>1 DEF Arc
  <2>2. /\ lease' \subseteq Tournaments
        /\ \E r \in Row : (row' = row \/ row' = [row EXCEPT ![v.t] = r]) /\ RowTrue(r, arc[v.t], v.t \in final)
        /\ \E l \in Local : Goto(h, l) /\ Known(l, arc, final)
    BY <1>1, <1>3, <2>1, RouteGives
  <2>3. PICK r \in Row : (row' = row \/ row' = [row EXCEPT ![v.t] = r]) /\ RowTrue(r, arc[v.t], v.t \in final)
    BY <2>2
  <2>4. PICK l \in Local : Goto(h, l) /\ Known(l, arc, final)
    BY <2>2
  <2>5. UNCHANGED <<intents, retries, arc, asked, faults, bound, final, now>>
    BY DEF Progress, Environment
  <2>6. /\ v.t \in Tournaments /\ intents' \subseteq Plannable /\ retries' \in [Tournaments -> 0..RetryLimit]
        /\ asked' \in 0..MaxRequests /\ faults' \in 0..MaxFaults /\ r \in Row \cup {Absent}
    BY <2>5, Bits
  <2> HIDE DEF v
  <2> QED
    BY <2>2, <2>3, <2>4, <2>5, <2>6, OffArcKeeps
<1> QED
  BY <1>2, <1>3 DEF Progress

\* What a transaction of the operator leads to on Arc.
LEMMA ReceiptGives ==
  ASSUME RowsInv, NEW h \in Handlers, local[h].pc \in Call,
         Receipt(local[h].t, local[h].pc) # "REVERTED",
         arc' = [arc EXCEPT ![local[h].t].state = Receipt(local[h].t, local[h].pc)]
  PROVE  /\ arc' \in [Tournaments -> Arc]
         /\ Receipt(local[h].t, local[h].pc) \in ArcState
         /\ arc'[local[h].t] = [arc[local[h].t] EXCEPT !.state = Receipt(local[h].t, local[h].pc)]
         /\ \A u \in Tournaments : ArcLater(arc[u], arc'[u]) /\ arc'[u].entrants = arc[u].entrants
         /\ \A u \in Tournaments : arc'[u].state = "SETTLED" => u \in final
         /\ local[h].pc = "mark" => arc'[local[h].t].state \notin Unstarted
         /\ \A u \in Tournaments : arc'[u].state # "ABSENT" => arc[u].state # "ABSENT"
<1> DEFINE v == local[h]
           a == arc[v.t]
           s == Receipt(v.t, v.pc)
<1>1. a \in Arc /\ v.t \in Tournaments /\ arc \in [Tournaments -> Arc]
  BY Bits
<1>2. \/ v.pc = "close" /\ a.state = "DRAFT" /\ s = "REGISTRATION_CLOSED"
      \/ v.pc = "mark" /\ a.state = "REGISTRATION_CLOSED" /\ s = "RUNNING"
      \/ v.pc = "settle" /\ a.state = "RUNNING" /\ s = "SETTLED"
      \/ v.pc = "cancel" /\ a.state \in Undecided /\ s = "CANCELLED_REFUNDABLE"
  <2>1. CASE v.pc = "close"
    BY <2>1 DEF Receipt
  <2>2. CASE v.pc = "mark"
    BY <2>2 DEF Receipt
  <2>3. CASE v.pc = "settle"
    BY <2>3 DEF Receipt
  <2>4. CASE v.pc = "cancel"
    BY <2>4 DEF Receipt
  <2> QED
    BY <2>1, <2>2, <2>3, <2>4 DEF Call
<1>3. s \in ArcState
  BY <1>2 DEF ArcState
<1>4. /\ [a EXCEPT !.state = s] \in Arc /\ [a EXCEPT !.state = s].state = s
      /\ [a EXCEPT !.state = s].entrants = a.entrants
  BY <1>1, <1>3 DEF Arc
<1>5. /\ arc' = [arc EXCEPT ![v.t] = [a EXCEPT !.state = s]]
      /\ arc'[v.t] = [a EXCEPT !.state = s]
      /\ \A u \in Tournaments : u # v.t => arc'[u] = arc[u]
  BY <1>1
<1>6. ArcLater(a, arc'[v.t])
  BY <1>2, <1>4, <1>5 DEF ArcLater, Decided, Unstarted, Undecided
<1>7. s = "SETTLED" => v.t \in final
  <2>1. ASSUME s = "SETTLED" PROVE v.row.ranking
    BY <1>2, <2>1, Bits DEF Known
  <2> QED
    BY <2>1, Bits DEF Known, RowTrue
<1>12. a.state # "ABSENT"
  BY <1>2 DEF Undecided
<1> HIDE DEF v, a, s
<1>13. \A u \in Tournaments : arc'[u].state # "ABSENT" => arc[u].state # "ABSENT"
  BY <1>5, <1>12 DEF a
<1>8. \A u \in Tournaments : ArcLater(arc[u], arc'[u]) /\ arc'[u].entrants = arc[u].entrants
  BY <1>4, <1>5, <1>6 DEF ArcLater, a
<1>9. \A u \in Tournaments : arc'[u].state = "SETTLED" => u \in final
  BY <1>4, <1>5, <1>7 DEF RowsInv
<1>10. v.pc = "mark" => arc'[v.t].state \notin Unstarted
  BY <1>2, <1>4, <1>5 DEF Unstarted
<1>11. arc' \in [Tournaments -> Arc]
  BY <1>1, <1>4, <1>5
<1> QED
  BY <1>3, <1>5, <1>8, <1>9, <1>10, <1>11, <1>13 DEF v, a, s

LEMMA TransactKeeps == ASSUME RowsInv, NEW h \in Handlers, Send(h) PROVE RowsInv'
<1> DEFINE v == local[h]
           s == Receipt(v.t, v.pc)
<1>1. v.pc \in Call /\ UNCHANGED <<intents, retries, asked, bound, final, now>>
  BY DEF Send, Environment
<1>2. /\ v.t \in Tournaments /\ intents' \subseteq Plannable /\ retries' \in [Tournaments -> 0..RetryLimit]
      /\ asked' \in 0..MaxRequests
  BY <1>1, Bits
<1>3. CASE s = "REVERTED"
  <2>1. Throw(h) /\ UNCHANGED <<row, arc, faults>>
    BY <1>3 DEF Send
  <2>2. Goto(h, Idle) /\ lease' \subseteq Tournaments
    BY <2>1, ThrowGives
  <2> QED
    BY <1>1, <1>2, <2>1, <2>2, Bits, AtRest, IdleKnown, UnstoredKeeps
<1>4. CASE s # "REVERTED"
  <2> DEFINE goes == \/ v.pc = "close" /\ Route(h, s)
                     \/ v.pc = "mark" /\ Goto(h, [v EXCEPT !.pc = "roster"]) /\ UNCHANGED <<row, lease>>
                     \/ v.pc \in {"settle", "cancel"}
                        /\ Save(h, ApplyArcTerminal(v.row, [arc[v.t] EXCEPT !.state = s]))
             lost == faults < MaxFaults /\ faults' = faults + 1 /\ Throw(h) /\ UNCHANGED row
  <2>1. /\ arc' = [arc EXCEPT ![v.t].state = s]
        /\ (goes /\ UNCHANGED faults) \/ lost
    BY <1>4 DEF Send
  <2>2. /\ arc' \in [Tournaments -> Arc] /\ s \in ArcState
        /\ arc'[v.t] = [arc[v.t] EXCEPT !.state = s]
        /\ \A u \in Tournaments : ArcLater(arc[u], arc'[u]) /\ arc'[u].entrants = arc[u].entrants
        /\ \A u \in Tournaments : arc'[u].state = "SETTLED" => u \in final
        /\ v.pc = "mark" => arc'[v.t].state \notin Unstarted
    BY <1>1, <1>4, <2>1, ReceiptGives
  <2>3. v.row \in Row /\ RowTrue(v.row, arc'[v.t], v.t \in final)
    <3>1. v.row \in Row
      BY <1>1, Bits DEF Known, Call
    <3>2. RowTrue(v.row, arc[v.t], v.t \in final) /\ arc[v.t] \in Arc /\ arc'[v.t] \in Arc
      BY <1>2, <2>2, Bits DEF Known
    <3> QED
      BY <1>2, <2>2, <3>1, <3>2, RowTrueLater
  <2>4. /\ lease' \subseteq Tournaments /\ faults' \in 0..MaxFaults
        /\ \E r \in Row : (row' = row \/ row' = [row EXCEPT ![v.t] = r]) /\ RowTrue(r, arc'[v.t], v.t \in final)
        /\ \E l \in Local : Goto(h, l) /\ Known(l, arc', final)
    <3>1. CASE lost
      <4>1. faults' \in 0..MaxFaults
        BY <3>1, Bits, TournamentPlayAssumption
      <4> QED
        BY <2>3, <3>1, <4>1, ThrowGives, IdleKnown, AtRest
    <3>2. CASE goes /\ UNCHANGED faults
      <4>1. faults' \in 0..MaxFaults
        BY <3>2, Bits
      <4>2. CASE v.pc = "close" /\ Route(h, s)
        BY <2>2, <2>3, <4>1, <4>2, RouteGives
      <4>3. CASE v.pc = "mark" /\ Goto(h, [v EXCEPT !.pc = "roster"]) /\ UNCHANGED <<row, lease>>
        <5> DEFINE l == [v EXCEPT !.pc = "roster"]
        <5>1. l \in Local /\ l.pc = "roster" /\ l.row = v.row /\ l.t = v.t
          BY Bits DEF Local, Pc
        <5>2. Known(l, arc', final)
          BY <2>2, <2>3, <4>3, <5>1 DEF Known
        <5> QED
          BY <2>3, <4>1, <4>3, <5>1, <5>2, Bits
      <4>4. CASE v.pc \in {"settle", "cancel"} /\ Save(h, ApplyArcTerminal(v.row, [arc[v.t] EXCEPT !.state = s]))
        <5> DEFINE r == ApplyArcTerminal(v.row, [arc[v.t] EXCEPT !.state = s])
        <5>1. arc'[v.t] \in Arc
          BY <1>2, <2>2
        <5>2. r \in Row /\ RowTrue(r, arc'[v.t], v.t \in final)
          BY <2>2, <2>3, <5>1, TerminalApplied
        <5> HIDE DEF r
        <5>3. Save(h, r)
          BY <4>4 DEF r
        <5>4. /\ lease' \subseteq Tournaments /\ row' = [row EXCEPT ![v.t] = r]
              /\ \E l \in Local : Goto(h, l) /\ Known(l, arc', final)
          BY <5>2, <5>3, SaveGives
        <5> QED
          BY <4>1, <5>2, <5>4
      <4> QED
        BY <3>2, <4>2, <4>3, <4>4
    <3> QED
      BY <2>1, <3>1, <3>2
  <2>5. PICK r \in Row : (row' = row \/ row' = [row EXCEPT ![v.t] = r]) /\ RowTrue(r, arc'[v.t], v.t \in final)
    BY <2>4
  <2>6. PICK l \in Local : Goto(h, l) /\ Known(l, arc', final)
    BY <2>4
  <2>7. r \in Row \cup {Absent} /\ local' = [local EXCEPT ![h] = l]
    BY <2>6 DEF Goto
  <2> HIDE DEF v, s
  <2> QED
    BY <1>1, <1>2, <2>2, <2>4, <2>5, <2>6, <2>7, HandlerKeeps
<1> QED
  BY <1>3, <1>4

LEMMA RosterKeeps == ASSUME RowsInv, NEW h \in Handlers, Roster(h) PROVE RowsInv'
<1> DEFINE v == local[h]
           frozen == [v.row EXCEPT !.roster = bound[v.t]]
<1>1. /\ UNCHANGED <<intents, retries, arc, asked, faults, bound, final, now>> /\ v.pc = "roster"
      /\ v.row \in Row /\ RowTrue(v.row, arc[v.t], v.t \in final) /\ arc[v.t].state \notin Unstarted
      /\ v.t \in Tournaments /\ bound[v.t] \in 0..MaxEntrants
  BY Bits DEF Roster, At, Known, Environment, RowsInv, TypeOK
<1>2. /\ intents' \subseteq Plannable /\ retries' \in [Tournaments -> 0..RetryLimit]
      /\ asked' \in 0..MaxRequests /\ faults' \in 0..MaxFaults
  BY <1>1, Bits
<1>3. CASE v.row.roster > 0 /\ Goto(h, [v EXCEPT !.pc = "run"]) /\ UNCHANGED <<row, lease>>
  <2> DEFINE l == [v EXCEPT !.pc = "run"]
  <2>1. l \in Local /\ l.pc = "run" /\ l.row = v.row /\ l.t = v.t
    BY Bits DEF Local, Pc
  <2>2. Known(l, arc, final) /\ Goto(h, l)
    BY <1>1, <1>3, <2>1 DEF Known
  <2> HIDE DEF l, v
  <2> QED
    BY <1>1, <1>2, <1>3, <2>1, <2>2, Bits, UnstoredKeeps
<1>4. CASE /\ bound[v.t] = arc[v.t].entrants
           /\ row' = [row EXCEPT ![v.t] = frozen]
           /\ Goto(h, [v EXCEPT !.pc = "run", !.row = frozen]) /\ UNCHANGED lease
  <2> DEFINE l == [v EXCEPT !.pc = "run", !.row = frozen]
  <2>1. frozen \in Row /\ frozen.roster = bound[v.t] /\ frozen.state = v.row.state
        /\ frozen.ranking = v.row.ranking
    BY <1>1 DEF Row
  <2>2. l \in Local /\ l.pc = "run" /\ l.row = frozen /\ l.t = v.t
    BY <2>1, Bits DEF Local, Pc
  <2>3. RowTrue(frozen, arc[v.t], v.t \in final)
    BY <1>1, <1>4, <2>1 DEF RowTrue
  <2>4. Known(l, arc, final) /\ Goto(h, l)
    BY <1>1, <1>4, <2>1, <2>2, <2>3 DEF Known
  <2>5. frozen \in Row \cup {Absent} /\ lease' \subseteq Tournaments
    BY <1>4, <2>1, Bits
  <2>6. row' = [row EXCEPT ![v.t] = frozen]
    BY <1>4
  <2> HIDE DEF l, v, frozen
  <2> QED
    BY <1>1, <1>2, <2>2, <2>3, <2>4, <2>5, <2>6, OffArcKeeps
<1>5. CASE Throw(h) /\ UNCHANGED row
  <2>1. Goto(h, Idle) /\ lease' \subseteq Tournaments
    BY <1>5, ThrowGives
  <2> QED
    BY <1>1, <1>2, <1>5, <2>1, AtRest, IdleKnown, UnstoredKeeps
<1>6. v.row.roster \in Nat
  BY <1>1, Sizes DEF Row
<1>7. CASE v.row.roster > 0
  BY <1>3, <1>7 DEF Roster
<1>8. CASE v.row.roster = 0
  <2>1. CASE bound[v.t] = arc[v.t].entrants /\ bound[v.t] >= MinEntrants
    BY <1>4, <1>8, <2>1 DEF Roster
  <2>2. CASE ~(bound[v.t] = arc[v.t].entrants /\ bound[v.t] >= MinEntrants)
    BY <1>5, <1>8, <2>2 DEF Roster
  <2> QED
    BY <2>1, <2>2
<1> QED
  BY <1>6, <1>7, <1>8

\* Whatever the orchestrator answers is true, and a ranking is of final verdicts.
LEMMA AnswersTrue ==
  ASSUME NEW t \in Tournaments, NEW q \in Row, NEW a, RowTrue(q, a, t \in final), NEW r \in Answers(t, q)
  PROVE  r \in Row /\ RowTrue(r, a, t \in final)
<1> DEFINE plain == {"SETTLEMENT_PENDING", "REFUND_PENDING", "RECOVERY_REQUIRED", "WAITING_FOR_JUDGE"}
<1>1. q \in Row \cup {Absent} /\ plain \subseteq RowState
  BY DEF RowState
<1>2. \A s \in plain : /\ As(q, s) \in Row /\ As(q, s).state = s
                       /\ As(q, s).roster = q.roster /\ As(q, s).ranking = q.ranking
  <2> TAKE s \in plain
  <2>1. s \in RowState /\ "NONE" \in Evidence
    BY <1>1 DEF Evidence
  <2> QED
    BY <1>1, <2>1, RowTyped, AsIs
<1>3. \A s \in plain : RowTrue(As(q, s), a, t \in final)
  BY <1>2 DEF RowTrue
<1>4. ASSUME t \in final
      PROVE  /\ [As(q, "SETTLEMENT_PENDING") EXCEPT !.ranking = TRUE] \in Row
             /\ RowTrue([As(q, "SETTLEMENT_PENDING") EXCEPT !.ranking = TRUE], a, t \in final)
  <2> DEFINE p == [As(q, "SETTLEMENT_PENDING") EXCEPT !.ranking = TRUE]
  <2>1. p \in Row /\ p.state = "SETTLEMENT_PENDING" /\ p.roster = q.roster
    BY <1>2 DEF Row
  <2> HIDE DEF p
  <2>2. RowTrue(p, a, t \in final)
    BY <1>4, <2>1 DEF RowTrue
  <2> QED
    BY <2>1, <2>2 DEF p
<1>5. ASSUME NEW e \in Evidence
      PROVE  /\ [q EXCEPT !.state = "RECOVERY_REQUIRED", !.evidence = e] \in Row
             /\ RowTrue([q EXCEPT !.state = "RECOVERY_REQUIRED", !.evidence = e], a, t \in final)
  <2> DEFINE p == [q EXCEPT !.state = "RECOVERY_REQUIRED", !.evidence = e]
  <2>1. p \in Row /\ p.state = "RECOVERY_REQUIRED" /\ p.roster = q.roster /\ p.ranking = q.ranking
    BY <1>1, RowTyped DEF Row
  <2> HIDE DEF p
  <2>2. RowTrue(p, a, t \in final)
    BY <2>1 DEF RowTrue
  <2> QED
    BY <2>1, <2>2 DEF p
<1>6. \/ t \in final /\ r = [As(q, "SETTLEMENT_PENDING") EXCEPT !.ranking = TRUE]
      \/ \E s \in plain : r = As(q, s)
      \/ \E e \in Evidence : r = [q EXCEPT !.state = "RECOVERY_REQUIRED", !.evidence = e]
  <2>1. CASE t \in final
    BY <2>1 DEF Answers
  <2>2. CASE t \notin final
    BY <2>2 DEF Answers
  <2> QED
    BY <2>1, <2>2
<1> QED
  BY <1>2, <1>3, <1>4, <1>5, <1>6

LEMMA RunKeeps == ASSUME RowsInv, NEW h \in Handlers, Run(h) PROVE RowsInv'
<1> DEFINE v == local[h]
<1>1. /\ UNCHANGED <<intents, retries, arc, asked, faults, bound, final, now>>
      /\ v.row \in Row /\ RowTrue(v.row, arc[v.t], v.t \in final) /\ v.t \in Tournaments
  BY Bits DEF Run, At, Known, Environment
<1>2. /\ intents' \subseteq Plannable /\ retries' \in [Tournaments -> 0..RetryLimit]
      /\ asked' \in 0..MaxRequests /\ faults' \in 0..MaxFaults
  BY <1>1, Bits
<1>3. PICK r \in Answers(v.t, v.row) : Save(h, r)
  BY DEF Run
<1>4. r \in Row /\ RowTrue(r, arc[v.t], v.t \in final)
  BY <1>1, AnswersTrue
<1>5. /\ lease' \subseteq Tournaments /\ row' = [row EXCEPT ![v.t] = r] /\ r \in Row \cup {Absent}
      /\ \E l \in Local : Goto(h, l) /\ Known(l, arc, final)
  BY <1>3, <1>4, SaveGives
<1> HIDE DEF v
<1> QED
  BY <1>1, <1>2, <1>4, <1>5, OffArcKeeps

LEMMA CreateKeeps == ASSUME RowsInv, NEW h \in Handlers, Create(h) PROVE RowsInv'
<1> DEFINE v == local[h]
           l == [v EXCEPT !.pc = "createRow"]
<1>1. /\ UNCHANGED <<row, lease, intents, retries, asked, faults, bound, final, now>>
      /\ v.t \in Tournaments /\ v.row \in Row \cup {Absent} /\ arc \in [Tournaments -> Arc]
      /\ arc' = arc \/ (arc[v.t].state = "ABSENT" /\ arc' = [arc EXCEPT ![v.t].state = "DRAFT"])
      /\ RowTrue(v.row, arc[v.t], v.t \in final)
  BY Bits DEF Create, Environment, Known
<1>2. /\ \A u \in Tournaments : arc'[u] \in Arc /\ ArcLater(arc[u], arc'[u]) /\ arc'[u].entrants = arc[u].entrants
      /\ \A u \in Tournaments : arc'[u].state = "SETTLED" => arc[u].state = "SETTLED"
      /\ arc' \in [Tournaments -> Arc]
  <2>1. CASE arc' = arc
    BY <1>1, <2>1 DEF ArcLater
  <2>2. CASE arc[v.t].state = "ABSENT" /\ arc' = [arc EXCEPT ![v.t].state = "DRAFT"]
    <3>1. /\ [arc[v.t] EXCEPT !.state = "DRAFT"] \in Arc
          /\ [arc[v.t] EXCEPT !.state = "DRAFT"].entrants = arc[v.t].entrants
          /\ [arc[v.t] EXCEPT !.state = "DRAFT"].state = "DRAFT"
      BY <1>1 DEF Arc, ArcState
    <3> QED
      BY <1>1, <2>2, <3>1 DEF ArcLater, Decided, Unstarted
  <2> QED
    BY <1>1, <2>1, <2>2
<1>3. l \in Local /\ l.pc = "createRow" /\ l.row = v.row /\ l.t = v.t
  BY Bits DEF Local, Pc
<1>4. RowTrue(v.row, arc'[v.t], v.t \in final)
  BY <1>1, <1>2, RowTrueLater
<1>5. Known(l, arc', final)
  BY <1>3, <1>4 DEF Known
<1>6. /\ intents' \subseteq Plannable /\ retries' \in [Tournaments -> 0..RetryLimit] /\ lease' \subseteq Tournaments
      /\ asked' \in 0..MaxRequests /\ faults' \in 0..MaxFaults
  BY <1>1, Bits
<1>7. \A u \in Tournaments : arc'[u].state = "SETTLED" => u \in final
  BY <1>2 DEF RowsInv
<1>8. local' = [local EXCEPT ![h] = l]
  BY DEF Create, Goto
<1> HIDE DEF v, l
<1> QED
  BY <1>1, <1>2, <1>3, <1>4, <1>5, <1>6, <1>7, <1>8, HandlerKeeps

LEMMA CreateRowKeeps == ASSUME RowsInv, NEW h \in Handlers, CreateRow(h) PROVE RowsInv'
<1>1. FirstRow \in Row
  BY Sizes DEF FirstRow, Absent, Row, RowState, Evidence
<1>2. Goto(h, Idle) /\ row' = [row EXCEPT ![local[h].t] = FirstRow]
      /\ UNCHANGED <<lease, intents, retries, arc, asked, faults, bound, final, now>>
  BY DEF CreateRow, Environment
<1>3. RowTrue(FirstRow, arc[local[h].t], local[h].t \in final)
  BY AbsentTrue
<1> QED
  BY <1>1, <1>2, <1>3, Bits, AtRest, IdleKnown, OffArcKeeps

-----------------------------------------------------------------------------
(* The worker's tick. *)

LEMMA Latest ==
  ASSUME NEW N \in Nat, NEW S, S \subseteq 0..N, S # {}
  PROVE  Max(S) \in S /\ \A d \in S : d <= Max(S)
<1> DEFINE U == {N - d : d \in S}
<1>1. U \subseteq Nat /\ U # {}
  <2>1. \A d \in S : N - d \in Nat
    OBVIOUS
  <2>2. \E d : d \in S
    OBVIOUS
  <2> QED
    BY <2>1, <2>2
<1>2. PICK m \in U : \A n \in U : <<n, m>> \notin OpToRel(<, Nat)
  BY <1>1, NatLessThanWellFounded, WFMin, Zenon
<1>3. \A n \in U : n \in Nat /\ m \in Nat /\ ~(n < m)
  BY <1>1, <1>2, Zenon DEF OpToRel
<1>4. PICK b \in S : m = N - b
  OBVIOUS
<1>5. \A d \in S : N - d \in U
  OBVIOUS
<1>6. \A d \in S : b >= d
  BY <1>3, <1>4, <1>5
<1>7. Max(S) \in S /\ \A d \in S : Max(S) >= d
  BY <1>6, Zenon DEF Max
<1> QED
  BY <1>7

LEMMA VisitGives ==
  ASSUME RowsInv, NEW t \in Tournaments, NEW d \in 0..Horizon, Visit(t, d)
  PROVE  \E l \in Local : Goto(Worker, l) /\ Known(l, arc, final)
<1> DEFINE pc == IF row[t] = Absent THEN "create" ELSE "observe"
           l == [Idle EXCEPT !.t = t, !.row = row[t], !.today = d, !.pc = pc]
<1>1. row[t] \in Row \cup {Absent} /\ RowTrue(row[t], arc[t], t \in final)
  BY DEF RowsInv, TypeOK
<1>2. pc \in Pc /\ pc \in {"create", "observe"}
  BY DEF Pc
<1> HIDE DEF pc
<1>3. l \in Local /\ l.pc = pc /\ l.row = row[t] /\ l.t = t
  BY <1>1, <1>2, AtRest DEF Local
<1> HIDE DEF l
<1>4. Known(l, arc, final)
  BY <1>1, <1>2, <1>3 DEF Known, pc
<1> QED
  BY <1>3, <1>4 DEF Visit, l, pc

LEMMA WakeKeeps == ASSUME RowsInv, Wake PROVE RowsInv'
<1>1. UNCHANGED <<row, lease, intents, retries, arc, asked, faults, bound, final, now>> /\ Worker \in Handlers
      /\ now \in 0..Horizon
  BY DEF Wake, Environment, Handlers, RowsInv, TypeOK
<1>2. lease' \subseteq Tournaments /\ intents' \subseteq Plannable /\ asked' \in 0..MaxRequests
      /\ faults' \in 0..MaxFaults
  BY <1>1, Bits
<1>3. \E l \in Local : Goto(Worker, l) /\ Known(l, arc, final)
  <2>1. CASE intents = {}
    BY <1>1, <2>1, AtRest, IdleKnown DEF Wake
  <2>2. CASE intents # {}
    <3>1. Max(intents) \in intents
      BY <1>1, <2>2, Bits, Latest, TournamentPlayAssumption, Horizon + 1 \in Nat DEF Plannable
    <3>2. Max(intents) \in Tournaments
      BY <1>1, <3>1, Bits DEF Plannable, Tournaments
    <3> QED
      BY <1>1, <2>2, <3>2, VisitGives DEF Wake
  <2> QED
    BY <2>1, <2>2
<1> QED
  BY <1>1, <1>2, <1>3, UnstoredKeeps

LEMMA PlanKeeps == ASSUME RowsInv, Plan PROVE RowsInv'
<1> DEFINE v == local[Worker]
           t == v.today + 1
           shown(u) == IF row[u] = Absent THEN Absent ELSE ApplyArcTerminal(row[u], arc[u])
<1>1. /\ UNCHANGED <<lease, retries, arc, asked, faults, bound, final, now>> /\ Worker \in Handlers
      /\ row' = [u \in Tournaments |-> shown(u)] /\ v.today \in 0..Horizon
  BY Bits DEF Plan, Environment, Handlers
<1>2. ASSUME NEW u \in Tournaments
      PROVE  row'[u] \in Row \cup {Absent} /\ RowTrue(row'[u], arc[u], u \in final)
  <2>1. /\ row[u] \in Row \cup {Absent} /\ RowTrue(row[u], arc[u], u \in final) /\ arc[u] \in Arc
        /\ row'[u] = shown(u)
    BY <1>1 DEF RowsInv, TypeOK
  <2> QED
    BY <2>1, TerminalApplied, AbsentTrue
<1>3. /\ intents' \subseteq Plannable
      /\ \E l \in Local : Goto(Worker, l) /\ Known(l, arc, final)
  <2>1. CASE t \in Days /\ intents' = intents \cup {t} /\ Visit(t, v.today)
    <3>1. t \in Plannable /\ t \in Tournaments
      BY <1>1, <2>1, TournamentPlayAssumption DEF Plannable, Tournaments
    <3> QED
      BY <1>1, <2>1, <3>1, Bits, VisitGives
  <2>2. CASE Goto(Worker, Idle) /\ UNCHANGED intents
    BY <1>1, <2>2, Bits, AtRest, IdleKnown
  <2> QED
    BY <2>1, <2>2 DEF Plan
<1>4. PICK l \in Local : Goto(Worker, l) /\ Known(l, arc, final)
  BY <1>3
<1>5. TypeOK'
  <2>1. row' \in [Tournaments -> Row \cup {Absent}]
    BY <1>1, <1>2
  <2>2. local' \in [Handlers -> Local]
    BY <1>1, <1>4 DEF RowsInv, TypeOK, Goto
  <2> QED
    BY <1>1, <1>3, <2>1, <2>2 DEF RowsInv, TypeOK, Plannable
<1>6. ASSUME NEW g \in Handlers PROVE Known(local'[g], arc, final)
  BY <1>1, <1>4 DEF RowsInv, TypeOK, Goto
<1> QED
  BY <1>1, <1>2, <1>3, <1>5, <1>6 DEF RowsInv

LEMMA AskKeeps ==
  ASSUME RowsInv, NEW h \in Requests, NEW t \in Tournaments, NEW wish \in Action \cup {"GET"}, Ask(h, t, wish)
  PROVE  RowsInv'
<1> DEFINE l == [Idle EXCEPT !.t = t, !.row = row[t], !.wish = wish, !.pc = "observe"]
<1>1. /\ UNCHANGED <<row, lease, intents, retries, arc, faults, bound, final, now>> /\ h \in Handlers
      /\ asked' \in 0..MaxRequests /\ Goto(h, l)
      /\ row[t] \in Row /\ RowTrue(row[t], arc[t], t \in final)
  BY TournamentPlayAssumption DEF Ask, Environment, Handlers, RowsInv, TypeOK
<1>2. l \in Local /\ l.pc = "observe" /\ l.row = row[t] /\ l.t = t
  BY <1>1, AtRest DEF Local, Pc
<1>3. Known(l, arc, final)
  BY <1>1, <1>2 DEF Known
<1> HIDE DEF l
<1> QED
  BY <1>1, <1>2, <1>3, Bits, UnstoredKeeps

LEMMA AskCreateKeeps ==
  ASSUME RowsInv, NEW h \in Requests, NEW t \in Extra, AskCreate(h, t)
  PROVE  RowsInv'
<1> DEFINE l == [Idle EXCEPT !.t = t, !.pc = "create"]
<1>1. /\ UNCHANGED <<row, lease, intents, retries, arc, faults, bound, final, now>> /\ h \in Handlers
      /\ asked' \in 0..MaxRequests /\ Goto(h, l) /\ t \in Tournaments
  BY TournamentPlayAssumption DEF AskCreate, Environment, Handlers, RowsInv, TypeOK, Tournaments
<1>2. l \in Local /\ l.pc = "create" /\ l.row = Absent /\ l.t = t
  BY <1>1, AtRest DEF Local, Pc
<1>3. Known(l, arc, final)
  BY <1>1, <1>2, AbsentTrue DEF Known
<1> HIDE DEF l
<1> QED
  BY <1>1, <1>2, <1>3, Bits, UnstoredKeeps

LEMMA FaultTyped == RowsInv /\ Fault => faults' \in 0..MaxFaults
  BY TournamentPlayAssumption DEF RowsInv, TypeOK, Fault

LEMMA FailKeeps == ASSUME RowsInv, NEW h \in Handlers, Fail(h) PROVE RowsInv'
<1>1. Goto(h, Idle) /\ lease' \subseteq Tournaments /\ faults' \in 0..MaxFaults
      /\ UNCHANGED <<row, intents, retries, arc, asked, bound, final, now>>
  BY ThrowGives, FaultTyped DEF Fail, Environment
<1> QED
  BY <1>1, Bits, AtRest, IdleKnown, UnstoredKeeps

LEMMA CrashKeeps == ASSUME RowsInv, Crash PROVE RowsInv'
<1>1. /\ UNCHANGED <<row, intents, retries, arc, asked, bound, final, now>>
      /\ local' = [h \in Handlers |-> Idle] /\ lease' \subseteq Tournaments /\ faults' \in 0..MaxFaults
  BY FaultTyped DEF Crash, Environment, RowsInv, TypeOK
<1>2. local' \in [Handlers -> Local] /\ \A h \in Handlers : Known(local'[h], arc, final)
  BY <1>1, AtRest, IdleKnown
<1> QED
  BY <1>1, <1>2 DEF RowsInv, TypeOK

LEMMA LapseKeeps == ASSUME RowsInv, NEW t \in Tournaments, Lapse(t) PROVE RowsInv'
<1>1. /\ UNCHANGED <<row, intents, retries, local, arc, asked, bound, final, now>>
      /\ lease' \subseteq Tournaments /\ faults' \in 0..MaxFaults
  BY FaultTyped DEF Lapse, Environment, RowsInv, TypeOK
<1> QED
  BY <1>1 DEF RowsInv, TypeOK

-----------------------------------------------------------------------------
(* Arc, the judges and the clock. *)

\* What was known stays known when the handlers do nothing.
LEMMA OutsideKeeps ==
  ASSUME RowsInv, UNCHANGED <<row, lease, intents, retries, local, asked, faults>>,
         arc' \in [Tournaments -> Arc], \A u \in Tournaments : ArcLater(arc[u], arc'[u]),
         \A u \in Tournaments : arc'[u].state = arc[u].state,
         final \subseteq final', final' \subseteq Tournaments, now' \in 0..Horizon,
         bound' \in [Tournaments -> 0..MaxEntrants], \A u \in Tournaments : bound'[u] <= arc'[u].entrants
  PROVE  RowsInv'
<1>1. TypeOK /\ TypeOK'
  BY DEF RowsInv, TypeOK
<1>2. ASSUME NEW u \in Tournaments, NEW r \in Row \cup {Absent}, RowTrue(r, arc[u], u \in final)
      PROVE  RowTrue(r, arc'[u], u \in final')
  <2>1. arc[u] \in Arc /\ arc'[u] \in Arc /\ (u \in final => u \in final')
    BY <1>1 DEF TypeOK
  <2> QED
    BY <1>2, <2>1, RowTrueLater
<1>3. ASSUME NEW u \in Tournaments
      PROVE  (arc'[u].state = "SETTLED" => u \in final') /\ RowTrue(row'[u], arc'[u], u \in final')
  BY <1>1, <1>2 DEF RowsInv, TypeOK
<1>4. ASSUME NEW h \in Handlers PROVE Known(local'[h], arc', final')
  <2>1. local[h].t \in Tournaments /\ local[h].row \in Row \cup {Absent} /\ Known(local[h], arc, final)
    BY Bits
  <2>2. RowTrue(local[h].row, arc'[local[h].t], local[h].t \in final')
    BY <1>2, <2>1 DEF Known
  <2> QED
    BY <2>1, <2>2 DEF Known
<1> QED
  BY <1>1, <1>3, <1>4 DEF RowsInv

LEMMA RegisterKeeps ==
  ASSUME RowsInv, NEW t \in Tournaments, NEW binding \in BOOLEAN, Register(t, binding)
  PROVE  RowsInv'
<1> DEFINE a == [arc[t] EXCEPT !.entrants = @ + 1]
<1>1. /\ arc[t].state = "DRAFT" /\ arc[t] \in Arc /\ arc[t].entrants < MaxEntrants /\ arc \in [Tournaments -> Arc]
      /\ arc' = [arc EXCEPT ![t] = a]
      /\ UNCHANGED <<row, lease, intents, retries, local, final, now, asked, faults>>
      /\ bound[t] \in 0..MaxEntrants /\ bound[t] <= arc[t].entrants
      /\ bound' = [bound EXCEPT ![t] = bound[t] + 1] \/ bound' = bound
  BY DEF Register, RowsInv, TypeOK
<1>2. a \in Arc /\ a.state = arc[t].state /\ a.entrants = arc[t].entrants + 1
  BY <1>1, Sizes DEF Arc
<1> HIDE DEF a
<1>3. arc'[t] = a /\ (\A u \in Tournaments : u # t => arc'[u] = arc[u]) /\ arc' \in [Tournaments -> Arc]
  BY <1>1, <1>2
<1>4. \A u \in Tournaments : ArcLater(arc[u], arc'[u]) /\ arc'[u].state = arc[u].state
  BY <1>1, <1>2, <1>3 DEF ArcLater, Decided, Unstarted
<1>5. arc[t].entrants \in Nat /\ \A u \in Tournaments : bound[u] \in Nat /\ bound[u] <= arc[u].entrants
  BY <1>1, Sizes DEF Arc, RowsInv, TypeOK
<1>6. bound[t] + 1 \in 0..MaxEntrants
  BY <1>1, <1>5, Sizes
<1>7. bound \in [Tournaments -> 0..MaxEntrants] /\ final' \subseteq Tournaments /\ now' \in 0..Horizon
  BY <1>1 DEF RowsInv, TypeOK
<1>8. /\ bound' \in [Tournaments -> 0..MaxEntrants]
      /\ \A u \in Tournaments : (u # t => bound'[u] = bound[u]) /\ (bound'[t] = bound[t] \/ bound'[t] = bound[t] + 1)
  BY <1>1, <1>6, <1>7
<1>9. \A u \in Tournaments : bound'[u] <= arc'[u].entrants
  BY <1>2, <1>3, <1>5, <1>8
<1> QED
  BY <1>1, <1>3, <1>4, <1>7, <1>8, <1>9, OutsideKeeps

LEMMA QuietKeeps ==
  ASSUME RowsInv, UNCHANGED <<row, lease, intents, retries, local, arc, bound, asked, faults>>,
         final \subseteq final', final' \subseteq Tournaments, now' \in 0..Horizon
  PROVE  RowsInv'
<1>1. /\ arc' \in [Tournaments -> Arc] /\ bound' \in [Tournaments -> 0..MaxEntrants]
      /\ \A u \in Tournaments : ArcLater(arc[u], arc'[u]) /\ arc'[u].state = arc[u].state
                                /\ bound'[u] <= arc'[u].entrants
  BY DEF RowsInv, TypeOK, ArcLater
<1> QED
  BY <1>1, OutsideKeeps

LEMMA RowsInit == ASSUME Init PROVE RowsInv
<1>1. /\ \A t \in Tournaments : row[t] = Absent /\ arc[t] = [state |-> "ABSENT", entrants |-> 0] /\ bound[t] = 0
      /\ \A h \in Handlers : local[h] = Idle
  BY DEF Init
<1>2. [state |-> "ABSENT", entrants |-> 0] \in Arc
  BY Sizes DEF Arc, ArcState
<1>3. /\ row \in [Tournaments -> Row \cup {Absent}] /\ local \in [Handlers -> Local]
      /\ arc \in [Tournaments -> Arc]
  BY <1>2, AtRest DEF Init
<1>4. /\ retries \in [Tournaments -> 0..RetryLimit] /\ bound \in [Tournaments -> 0..MaxEntrants]
      /\ now \in 0..Horizon /\ asked \in 0..MaxRequests /\ faults \in 0..MaxFaults
  BY Sizes, TournamentPlayAssumption DEF Init
<1>5. lease = {} /\ intents = {} /\ final = {}
  BY DEF Init
<1>6. TypeOK
  BY <1>3, <1>4, <1>5 DEF TypeOK
<1>7. ASSUME NEW t \in Tournaments
      PROVE  bound[t] <= arc[t].entrants /\ arc[t].state # "SETTLED" /\ RowTrue(row[t], arc[t], t \in final)
  BY <1>1, AbsentTrue
<1>8. \A h \in Handlers : Known(local[h], arc, final)
  BY <1>1, IdleKnown
<1> QED
  BY <1>5, <1>6, <1>7, <1>8 DEF RowsInv

LEMMA RowsStep == ASSUME RowsInv, [Next]_vars PROVE RowsInv'
<1>1. ASSUME NEW t \in Tournaments, NEW binding \in BOOLEAN, Register(t, binding) PROVE RowsInv'
  BY <1>1, RegisterKeeps
<1>2. ASSUME NEW t \in Tournaments, VerdictsFinal(t) PROVE RowsInv'
  BY <1>2, QuietKeeps DEF VerdictsFinal, RowsInv, TypeOK
<1>3. CASE Tick
  BY <1>3, QuietKeeps, TournamentPlayAssumption DEF Tick, RowsInv, TypeOK
<1>4. ASSUME NEW h \in Handlers, Step(h) PROVE RowsInv'
  BY <1>4, ObserveKeeps, StoreKeeps, ProgressKeeps, TransactKeeps, RosterKeeps, RunKeeps, CreateKeeps, CreateRowKeeps
     DEF Step
<1>5. CASE UNCHANGED vars
  BY <1>5, QuietKeeps DEF vars, RowsInv, TypeOK
<1> QED
  BY <1>1, <1>2, <1>3, <1>4, <1>5, WakeKeeps, PlanKeeps, AskKeeps, AskCreateKeeps, FailKeeps, CrashKeeps, LapseKeeps
     DEF Next

\* Every variable of the tournament operations keeps its type.
THEOREM TournamentPlayTyped == Spec => []TypeOK
<1>1. RowsInv => TypeOK
  BY DEF RowsInv
<1> QED
  BY <1>1, RowsInit, RowsStep, PTL DEF Spec

\* A prize is paid on a final verdict for every match and of the whole roster of Arc, and
\* a stored end is Arc's, for any days, entrants and requests and whatever stale row is
\* stored back, in any number of failures (execute and refresh, tournament-operations-live.ts).
THEOREM PrizesAlwaysEarned == Spec => []PrizesEarned
<1>1. RowsInv => PrizesEarned
  BY DEF RowsInv, RowTrue, PrizesEarned, RosterIsArcs, PaidOnVerdicts, TerminalTruthful
<1> QED
  BY <1>1, RowsInit, RowsStep, PTL DEF Spec

-----------------------------------------------------------------------------
(* One daily tournament at a time.  The intent is stored before anything exists on  *)
(* Arc, only the latest may still be open, and the worker is about to plan the next *)
(* day only when Arc has decided every one.                                         *)

DailyInv ==
    /\ \A u \in Days : arc[u].state # "ABSENT" => u \in intents
    /\ \A u, v \in intents : u < v => arc[u].state \in Decided
    /\ \A d \in intents : d <= now + 1
    /\ local[Worker].pc # "idle" => /\ local[Worker].today <= now
                                    /\ \A d \in intents : d <= local[Worker].today + 1
    /\ local[Worker].pc \notin {"idle", "plan"} => /\ local[Worker].t \in intents
                                                   /\ \A d \in intents : d <= local[Worker].t
    /\ local[Worker].pc = "plan" => \A d \in intents : arc[d].state \in Decided
    /\ \A h \in Requests : local[h].pc = "create" => local[h].t \in Extra

\* How a handler goes on: with the tournament and the time it has, or not at all.
GoesOn(l, k) ==
    \/ k = l
    \/ k.pc = "idle"
    \/ /\ l.pc \notin {"idle", "plan"} /\ k.pc \notin {"plan", "create"}
       /\ k.t = l.t /\ k.today = l.today

LEMMA DailyKeeps ==
  ASSUME RowsInv, DailyInv, RowsInv', intents' = intents, now' >= now,
         \A u \in Tournaments : arc[u].state \in Decided => arc'[u].state = arc[u].state,
         \A u \in Days : arc'[u].state # "ABSENT" => arc[u].state # "ABSENT" \/ u \in intents,
         \A h \in Handlers : GoesOn(local[h], local'[h])
  PROVE  DailyInv'
<1>1. Worker \in Handlers /\ Requests \subseteq Handlers
  BY DEF Handlers
<1>2. /\ now \in Int /\ now' \in Int /\ intents \subseteq Tournaments /\ \A d \in intents : d \in Int
      /\ local[Worker].today \in Int
  BY <1>1, Bits, TournamentPlayAssumption DEF RowsInv, TypeOK, Plannable, Tournaments
<1>3. \A d \in intents : d <= now' + 1
  BY <1>2 DEF DailyInv
<1>4. GoesOn(local[Worker], local'[Worker])
  BY <1>1
<1>5. local'[Worker].pc # "idle" => /\ local'[Worker].today <= now'
                                    /\ \A d \in intents : d <= local'[Worker].today + 1
  BY <1>2, <1>4 DEF DailyInv, GoesOn
<1>6. local'[Worker].pc \notin {"idle", "plan"} => /\ local'[Worker].t \in intents
                                                   /\ \A d \in intents : d <= local'[Worker].t
  BY <1>4 DEF DailyInv, GoesOn
<1>7. local'[Worker].pc = "plan" => \A d \in intents : arc'[d].state \in Decided
  BY <1>2, <1>4 DEF DailyInv, GoesOn
<1>8. \A h \in Requests : local'[h].pc = "create" => local'[h].t \in Extra
  BY <1>1 DEF DailyInv, GoesOn
<1>9. \A u, v \in intents : u < v => arc'[u].state \in Decided
  BY <1>2 DEF DailyInv
<1>10. \A u \in Days : arc'[u].state # "ABSENT" => u \in intents
  BY DEF DailyInv
<1> QED
  BY <1>3, <1>5, <1>6, <1>7, <1>8, <1>9, <1>10 DEF DailyInv

\* What a step of a handler does to Arc.
LEMMA ArcMoves ==
  ASSUME RowsInv, NEW h \in Handlers, Step(h)
  PROVE  \A u \in Tournaments :
            /\ arc[u].state \in Decided => arc'[u].state = arc[u].state
            /\ arc'[u].state # "ABSENT" =>
                   arc[u].state # "ABSENT" \/ (At(h, "create") /\ u = local[h].t)
<1>1. CASE UNCHANGED arc
  BY <1>1
<1>2. CASE Send(h)
  <2>1. CASE Receipt(local[h].t, local[h].pc) = "REVERTED"
    <3>1. UNCHANGED arc
      BY <1>2, <2>1 DEF Send
    <3> QED
      BY <1>1, <3>1
  <2>2. CASE Receipt(local[h].t, local[h].pc) # "REVERTED"
    <3>1. local[h].pc \in Call
          /\ arc' = [arc EXCEPT ![local[h].t].state = Receipt(local[h].t, local[h].pc)]
      BY <1>2, <2>2 DEF Send
    <3> QED
      BY <2>2, <3>1, ReceiptGives DEF ArcLater
  <2> QED
    BY <2>1, <2>2
<1>3. CASE Create(h)
  <2>1. /\ At(h, "create") /\ local[h].t \in Tournaments /\ arc \in [Tournaments -> Arc]
        /\ arc' = arc \/ (arc[local[h].t].state = "ABSENT" /\ arc' = [arc EXCEPT ![local[h].t].state = "DRAFT"])
    BY <1>3, Bits DEF Create
  <2> QED
    BY <2>1 DEF Decided
<1>4. CASE Observe(h) \/ Store(h) \/ Progress(h) \/ Roster(h) \/ Run(h) \/ CreateRow(h)
  <2>1. UNCHANGED arc
    BY <1>4 DEF Observe, Store, Progress, Roster, Run, CreateRow
  <2> QED
    BY <1>1, <2>1
<1> QED
  BY <1>2, <1>3, <1>4 DEF Step

\* How a handler goes on, but for the worker that finds its tournament over.
LEMMA GoesOnGives ==
  ASSUME RowsInv, NEW h \in Handlers, Step(h)
  PROVE  /\ UNCHANGED <<intents, now>>
         /\ \E k : /\ local' = [local EXCEPT ![h] = k]
                   /\ \/ GoesOn(local[h], k)
                      \/ /\ h = Worker /\ At(h, "store") /\ local[h].row.state \in Terminal
                         /\ k = [Idle EXCEPT !.pc = "plan", !.today = local[h].today]
<1> DEFINE v == local[h]
           on == \E k : local' = [local EXCEPT ![h] = k] /\ GoesOn(v, k)
<1>1. v \in Local /\ Idle.pc = "idle"
  BY Bits, AtRest
<1>2. ASSUME NEW pc \in Pc \ {"plan", "create"}, Goto(h, [v EXCEPT !.pc = pc]), v.pc \notin {"idle", "plan"}
      PROVE  on
  <2>1. /\ [v EXCEPT !.pc = pc].pc = pc /\ [v EXCEPT !.pc = pc].t = v.t
        /\ [v EXCEPT !.pc = pc].today = v.today
    BY <1>1 DEF Local
  <2> QED
    BY <1>2, <2>1 DEF GoesOn, Goto
<1>3. ASSUME NEW r, NEW pc \in Pc \ {"plan", "create"}, Goto(h, [v EXCEPT !.pc = pc, !.row = r]),
             v.pc \notin {"idle", "plan"}
      PROVE  on
  <2>1. /\ [v EXCEPT !.pc = pc, !.row = r].pc = pc /\ [v EXCEPT !.pc = pc, !.row = r].t = v.t
        /\ [v EXCEPT !.pc = pc, !.row = r].today = v.today
    BY <1>1 DEF Local
  <2> QED
    BY <1>3, <2>1 DEF GoesOn, Goto
<1>4. Goto(h, Idle) => on
  BY <1>1 DEF GoesOn, Goto
<1>5. ASSUME NEW r, Save(h, r), v.pc \notin {"idle", "plan"} PROVE on
  BY <1>3, <1>5 DEF Save, Pc
<1>6. ASSUME NEW state, Route(h, state), v.pc \notin {"idle", "plan"} PROVE on
  <2>1. \/ Goto(h, [v EXCEPT !.pc = "roster"]) \/ Goto(h, [v EXCEPT !.pc = "mark"])
        \/ \E r : Save(h, r)
    BY <1>6 DEF Route
  <2> QED
    BY <1>2, <1>5, <1>6, <2>1 DEF Pc, Call
<1>7. CASE Observe(h)
  BY <1>3, <1>7 DEF Observe, At, Environment, Pc
<1>8. CASE Store(h)
  <2>1. UNCHANGED <<intents, now>> /\ v.pc = "store"
    BY <1>8 DEF Store, At, Environment
  <2> DEFINE over == [Idle EXCEPT !.pc = "plan", !.today = v.today]
  <2>2. \/ \E wish : Execute(h, v.t, wish, v.row)
        \/ Goto(h, Idle)
        \/ h = Worker /\ v.row.state \in Terminal /\ Goto(h, over)
    BY <1>8 DEF Store
  <2>3. ASSUME NEW wish, Execute(h, v.t, wish, v.row) PROVE on
    <3> DEFINE k == [v EXCEPT !.pc = First(wish), !.wish = wish, !.row = v.row, !.acted = TRUE]
    <3>1. CASE Goto(h, Idle)
      BY <1>4, <3>1
    <3>2. CASE Goto(h, k)
      <4>1. First(wish) \in {"progress", "settle", "cancel"}
        BY DEF First
      <4>2. k.pc = First(wish) /\ k.t = v.t /\ k.today = v.today
        BY <1>1 DEF Local
      <4> QED
        BY <2>1, <3>2, <4>1, <4>2 DEF GoesOn, Goto
    <3> QED
      BY <2>3, <3>1, <3>2 DEF Execute
  <2> QED
    BY <1>4, <2>1, <2>2, <2>3 DEF Goto, At
<1>9. CASE Progress(h)
  BY <1>2, <1>6, <1>9 DEF Progress, At, Environment, Pc, Call
<1>10. CASE Send(h)
  <2>1. UNCHANGED <<intents, now>> /\ v.pc \in Call
    BY <1>10 DEF Send, Environment
  <2>2. \/ Goto(h, Idle)
        \/ \E state : Route(h, state)
        \/ Goto(h, [v EXCEPT !.pc = "roster"])
        \/ \E r : Save(h, r)
    BY <1>10 DEF Send, Throw
  <2> QED
    BY <1>2, <1>4, <1>5, <1>6, <2>1, <2>2 DEF Pc, Call
<1>11. CASE Roster(h)
  <2>1. UNCHANGED <<intents, now>> /\ v.pc = "roster"
    BY <1>11 DEF Roster, At, Environment
  <2>2. \/ Goto(h, [v EXCEPT !.pc = "run"])
        \/ \E r : Goto(h, [v EXCEPT !.pc = "run", !.row = r])
        \/ Goto(h, Idle)
    <3>1. v.row.roster \in Nat
      BY <2>1, Bits, Sizes DEF Known, Row
    <3>2. CASE v.row.roster > 0
      BY <1>11, <3>2 DEF Roster
    <3>3. CASE v.row.roster = 0 /\ bound[v.t] = arc[v.t].entrants /\ bound[v.t] >= MinEntrants
      BY <1>11, <3>3 DEF Roster
    <3>4. CASE v.row.roster = 0 /\ ~(bound[v.t] = arc[v.t].entrants /\ bound[v.t] >= MinEntrants)
      BY <1>11, <3>4 DEF Roster, Throw
    <3>5. v.row.roster > 0 \/ v.row.roster = 0
      BY <3>1
    <3> QED
      BY <3>2, <3>3, <3>4, <3>5, Zenon
  <2> QED
    BY <1>2, <1>3, <1>4, <2>1, <2>2 DEF Pc
<1>12. CASE Run(h)
  BY <1>5, <1>12 DEF Run, At, Environment
<1>13. CASE Create(h)
  BY <1>2, <1>13 DEF Create, At, Environment, Pc
<1>14. CASE CreateRow(h)
  BY <1>4, <1>14 DEF CreateRow, Environment
<1> QED
  BY <1>7, <1>8, <1>9, <1>10, <1>11, <1>12, <1>13, <1>14 DEF Step

LEMMA DailyHandler ==
  ASSUME RowsInv, DailyInv, RowsInv', NEW h \in Handlers, Step(h) PROVE DailyInv'
<1>1. PICK k : /\ local' = [local EXCEPT ![h] = k]
               /\ \/ GoesOn(local[h], k)
                  \/ /\ h = Worker /\ At(h, "store") /\ local[h].row.state \in Terminal
                     /\ k = [Idle EXCEPT !.pc = "plan", !.today = local[h].today]
  BY GoesOnGives
<1>2. /\ intents' = intents /\ now' = now /\ now \in Int /\ local \in [Handlers -> Local]
  <2>1. UNCHANGED <<intents, now>>
    BY GoesOnGives
  <2>2. now \in 0..Horizon /\ local \in [Handlers -> Local]
    BY DEF RowsInv, TypeOK
  <2> QED
    BY <2>1, <2>2
<1>3. \A u \in Days : arc'[u].state # "ABSENT" => arc[u].state # "ABSENT" \/ u \in intents
  <2>1. At(h, "create") /\ local[h].t \in Days => local[h].t \in intents
    BY TournamentPlayAssumption DEF DailyInv, At, Handlers
  <2> QED
    BY <2>1, ArcMoves DEF Tournaments
<1>4. \A u \in Tournaments : arc[u].state \in Decided => arc'[u].state = arc[u].state
  BY ArcMoves
<1>5. local'[h] = k /\ \A g \in Handlers : g # h => local'[g] = local[g]
  BY <1>1, <1>2
<1>6. CASE GoesOn(local[h], k)
  <2>1. \A g \in Handlers : GoesOn(local[g], local'[g])
    BY <1>5, <1>6 DEF GoesOn
  <2> QED
    BY <1>2, <1>3, <1>4, <2>1, DailyKeeps
<1>7. CASE /\ h = Worker /\ At(h, "store") /\ local[h].row.state \in Terminal
           /\ k = [Idle EXCEPT !.pc = "plan", !.today = local[h].today]
  <2>1. /\ local'[Worker].pc = "plan" /\ local'[Worker].today = local[Worker].today
        /\ \A g \in Requests : local'[g] = local[g]
    BY <1>5, <1>7, AtRest, TournamentPlayAssumption DEF Handlers, Local
  <2>2. /\ local[Worker].t \in intents /\ \A d \in intents : d <= local[Worker].t
        /\ local[Worker].today <= now /\ \A d \in intents : d <= local[Worker].today + 1
    BY <1>7 DEF DailyInv, At
  <2>3. intents \subseteq Tournaments /\ \A d \in intents : d \in Int
    BY Bits, <1>7, TournamentPlayAssumption DEF Plannable, Tournaments
  <2>4. arc[local[Worker].t].state \in Decided
    <3>1. RowTrue(local[Worker].row, arc[local[Worker].t], local[Worker].t \in final)
      BY <1>7, Bits DEF Known
    <3> QED
      BY <1>7, <3>1 DEF RowTrue, Terminal, Decided
  <2>5. \A d \in intents : arc[d].state \in Decided
    BY <2>2, <2>3, <2>4 DEF DailyInv
  <2>6. \A d \in intents : arc'[d].state \in Decided
    BY <1>4, <2>3, <2>5
  <2>7. \A u \in Days : arc'[u].state # "ABSENT" => u \in intents
    BY <1>3 DEF DailyInv
  <2>8. /\ \A d \in intents : d <= now + 1
        /\ \A g \in Requests : local[g].pc = "create" => local[g].t \in Extra
    BY DEF DailyInv
  <2> QED
    BY <1>2, <2>1, <2>2, <2>6, <2>7, <2>8 DEF DailyInv
<1> QED
  BY <1>1, <1>6, <1>7

LEMMA VisitIs ==
  ASSUME RowsInv, NEW t \in Tournaments, NEW d, Visit(t, d)
  PROVE  local'[Worker].pc \in {"create", "observe"} /\ local'[Worker].t = t /\ local'[Worker].today = d
<1> DEFINE pc == IF row[t] = Absent THEN "create" ELSE "observe"
           k == [Idle EXCEPT !.t = t, !.row = row[t], !.today = d, !.pc = pc]
<1>1. k.pc = pc /\ k.t = t /\ k.today = d
  BY DEF Idle
<1>2. local'[Worker] = k
  BY DEF Visit, Goto, RowsInv, TypeOK, Handlers
<1> QED
  BY <1>1, <1>2

LEMMA DailyWake == ASSUME RowsInv, DailyInv, RowsInv', Wake PROVE DailyInv'
<1>1. /\ UNCHANGED <<intents, arc, now>> /\ now \in 0..Horizon /\ Worker \in Handlers
      /\ local \in [Handlers -> Local] /\ \A g \in Requests : local'[g] = local[g]
  BY TournamentPlayAssumption DEF Wake, Environment, RowsInv, TypeOK, Handlers, Goto, Visit
<1>2. \/ intents = {} /\ local'[Worker].pc = "plan" /\ local'[Worker].today = now
      \/ /\ intents # {} /\ local'[Worker].pc # "plan" /\ local'[Worker].t = Max(intents)
         /\ local'[Worker].today = now
  <2>1. CASE intents = {}
    <3> DEFINE k == [Idle EXCEPT !.pc = "plan", !.today = now]
    <3>1. k.pc = "plan" /\ k.today = now
      BY DEF Idle
    <3>2. local'[Worker] = k
      BY <1>1, <2>1 DEF Wake, Goto
    <3> QED
      BY <2>1, <3>1, <3>2
  <2>2. CASE intents # {}
    <3>1. Horizon + 1 \in Nat /\ intents \subseteq 0..(Horizon + 1) /\ intents \subseteq Tournaments
      BY <1>1, Bits, TournamentPlayAssumption DEF Plannable, Tournaments
    <3>2. Max(intents) \in Tournaments
      BY <2>2, <3>1, Latest
    <3>3. Visit(Max(intents), now)
      BY <2>2 DEF Wake
    <3> QED
      BY <2>2, <3>2, <3>3, VisitIs
  <2> QED
    BY <2>1, <2>2
<1>3. intents # {} => Max(intents) \in intents /\ \A d \in intents : d <= Max(intents)
  <2>1. Horizon + 1 \in Nat /\ intents \subseteq 0..(Horizon + 1)
    BY <1>1, Bits, TournamentPlayAssumption DEF Plannable
  <2> QED
    BY <2>1, Latest
<1>4. /\ \A u \in Days : arc[u].state # "ABSENT" => u \in intents
      /\ \A u, v \in intents : u < v => arc[u].state \in Decided
      /\ \A d \in intents : d <= now + 1
      /\ \A g \in Requests : local[g].pc = "create" => local[g].t \in Extra
  BY DEF DailyInv
<1> QED
  BY <1>1, <1>2, <1>3, <1>4 DEF DailyInv

\* The day to plan comes after every day that was planned, and those are over.
LEMMA DailyPlan == ASSUME RowsInv, DailyInv, RowsInv', Plan PROVE DailyInv'
<1> DEFINE v == local[Worker]
           t == v.today + 1
<1>1. /\ UNCHANGED <<arc, now>> /\ now \in 0..Horizon /\ Worker \in Handlers /\ v.today \in 0..Horizon
      /\ v.pc = "plan" /\ local \in [Handlers -> Local]
  BY Bits DEF Plan, At, Environment, RowsInv, TypeOK, Handlers
<1>2. \A g \in Requests : local'[g] = local[g]
  BY <1>1, TournamentPlayAssumption DEF Plan, Handlers, Goto, Visit
<1>3. \/ intents' = intents /\ local'[Worker].pc = "idle"
      \/ /\ intents' = intents \cup {t} /\ local'[Worker].pc # "plan"
         /\ local'[Worker].t = t /\ local'[Worker].today = v.today
  <2>1. \/ intents' = intents /\ Goto(Worker, Idle)
        \/ t \in Tournaments /\ intents' = intents \cup {t} /\ Visit(t, v.today)
    BY DEF Plan, Tournaments
  <2>2. Goto(Worker, Idle) => local'[Worker].pc = "idle"
    BY <1>1, AtRest DEF Goto
  <2> QED
    BY <2>1, <2>2, VisitIs
<1>4. /\ \A u \in Days : arc[u].state # "ABSENT" => u \in intents
      /\ \A d \in intents : d <= now + 1 /\ d <= t /\ arc[d].state \in Decided
      /\ v.today <= now
      /\ \A g \in Requests : local[g].pc = "create" => local[g].t \in Extra
  BY <1>1 DEF DailyInv
<1>5. \A d \in intents : d \in Int
  BY <1>1, Bits DEF Plannable
<1>6. t \in Int /\ t <= now + 1
  BY <1>1, <1>4
<1> HIDE DEF t, v
<1>7. \A d \in intents' : d \in Int /\ d <= now + 1 /\ d <= t /\ (d # t => arc[d].state \in Decided)
  BY <1>3, <1>4, <1>5, <1>6
<1>8. \A u, w \in intents' : u < w => arc[u].state \in Decided
  BY <1>6, <1>7
<1>9. \A u \in Days : arc[u].state # "ABSENT" => u \in intents'
  BY <1>3, <1>4
<1>10. local'[Worker].pc # "idle" => /\ local'[Worker].today = v.today /\ local'[Worker].t = t
                                     /\ local'[Worker].pc # "plan" /\ t \in intents'
  BY <1>3
<1>11. local'[Worker].pc # "idle" => /\ local'[Worker].today <= now
                                     /\ \A d \in intents' : d <= local'[Worker].today + 1
  BY <1>4, <1>7, <1>10 DEF t
<1>12. local'[Worker].pc = "plan" => FALSE
  BY <1>10
<1> QED
  BY <1>1, <1>2, <1>4, <1>7, <1>8, <1>9, <1>10, <1>11, <1>12 DEF DailyInv

LEMMA DailyInit == ASSUME Init PROVE DailyInv
<1>1. /\ \A t \in Tournaments : arc[t].state = "ABSENT"
      /\ \A h \in Handlers : local[h].pc = "idle"
      /\ intents = {}
  BY AtRest DEF Init
<1> QED
  BY <1>1 DEF DailyInv, Handlers, Tournaments

\* Steps that leave the worker and every intent alone.
LEMMA DailyStep == ASSUME RowsInv, DailyInv, [Next]_vars PROVE DailyInv'
<1>1. RowsInv'
  BY RowsStep
<1>2. now \in Int /\ local \in [Handlers -> Local] /\ arc \in [Tournaments -> Arc] /\ Idle.pc = "idle"
      /\ Worker \in Handlers /\ Requests \subseteq Handlers /\ Worker \notin Requests
  <2>1. now \in 0..Horizon /\ local \in [Handlers -> Local] /\ arc \in [Tournaments -> Arc]
    BY DEF RowsInv, TypeOK
  <2>2. now \in Int
    BY <2>1
  <2>3. Idle.pc = "idle" /\ Worker \in Handlers /\ Requests \subseteq Handlers /\ Worker \notin Requests
    BY AtRest, TournamentPlayAssumption, Zenon DEF Handlers
  <2> QED
    BY <2>1, <2>2, <2>3
<1>3. ASSUME intents' = intents, now' = now \/ now' = now + 1,
             \A u \in Tournaments : arc'[u].state = arc[u].state,
             \A g \in Handlers : GoesOn(local[g], local'[g])
      PROVE  DailyInv'
  BY <1>1, <1>2, <1>3, DailyKeeps DEF Tournaments
<1>4. \A l : GoesOn(l, l) /\ GoesOn(l, Idle)
  BY <1>2 DEF GoesOn
<1>5. ASSUME NEW h \in Handlers, Goto(h, Idle) PROVE \A g \in Handlers : GoesOn(local[g], local'[g])
  BY <1>2, <1>4, <1>5 DEF Goto
<1>6. ASSUME NEW h \in Requests, NEW k, Goto(h, k), k.pc = "create" => k.t \in Extra,
             UNCHANGED <<intents, now, arc>>
      PROVE  DailyInv'
  <2>1. /\ local'[h] = k /\ local'[Worker] = local[Worker]
        /\ \A g \in Requests : g # h => local'[g] = local[g]
    BY <1>2, <1>6 DEF Goto
  <2>2. \A g \in Requests : local'[g].pc = "create" => local'[g].t \in Extra
    BY <1>6, <2>1 DEF DailyInv
  <2> QED
    BY <1>6, <2>1, <2>2 DEF DailyInv
<1>7. ASSUME NEW t \in Tournaments, NEW binding \in BOOLEAN, Register(t, binding) PROVE DailyInv'
  <2>1. UNCHANGED <<intents, now, local>> /\ \A u \in Tournaments : arc'[u].state = arc[u].state
    BY <1>2, <1>7 DEF Register, Arc
  <2> QED
    BY <1>3, <1>4, <2>1
<1>8. ASSUME NEW t \in Tournaments, VerdictsFinal(t) \/ Lapse(t) PROVE DailyInv'
  <2>1. UNCHANGED <<intents, now, local, arc>>
    BY <1>8 DEF VerdictsFinal, Lapse, Environment
  <2> QED
    BY <1>3, <1>4, <2>1
<1>9. CASE Tick \/ UNCHANGED vars
  <2>1. UNCHANGED <<intents, local, arc>> /\ (now' = now \/ now' = now + 1)
    BY <1>9 DEF Tick, vars
  <2> QED
    BY <1>3, <1>4, <2>1
<1>10. ASSUME NEW h \in Requests, NEW t \in Tournaments, NEW wish, Ask(h, t, wish) PROVE DailyInv'
  <2> DEFINE k == [Idle EXCEPT !.t = t, !.row = row[t], !.wish = wish, !.pc = "observe"]
  <2>1. k.pc = "observe"
    BY DEF Idle
  <2> HIDE DEF k
  <2>2. Goto(h, k) /\ UNCHANGED <<intents, now, arc>>
    BY <1>10 DEF Ask, Environment, k
  <2> QED
    BY <1>6, <2>1, <2>2
<1>11. ASSUME NEW h \in Requests, NEW t \in Extra, AskCreate(h, t) PROVE DailyInv'
  <2> DEFINE k == [Idle EXCEPT !.t = t, !.pc = "create"]
  <2>1. k.t = t
    BY DEF Idle
  <2> HIDE DEF k
  <2>2. Goto(h, k) /\ UNCHANGED <<intents, now, arc>>
    BY <1>11 DEF AskCreate, Environment, k
  <2> QED
    BY <1>6, <2>1, <2>2
<1>12. ASSUME NEW h \in Handlers, Fail(h) PROVE DailyInv'
  <2>1. Goto(h, Idle) /\ UNCHANGED <<intents, now, arc>>
    BY <1>12 DEF Fail, Throw, Environment
  <2> QED
    BY <1>3, <1>5, <2>1
<1>13. CASE Crash
  <2>1. UNCHANGED <<intents, now, arc>> /\ \A g \in Handlers : local'[g] = Idle
    BY <1>13 DEF Crash, Environment
  <2> QED
    BY <1>3, <1>4, <2>1
<1> QED
  BY <1>1, <1>7, <1>8, <1>9, <1>10, <1>11, <1>12, <1>13, DailyHandler, DailyWake, DailyPlan DEF Next

\* Arc never holds two undecided daily tournaments, whatever the operator asks meanwhile
\* and wherever the worker's tick stops (tick, daily-tournament.ts).
THEOREM OneDailyAlways == Spec => []OneDailyAtATime
<1>1. ASSUME RowsInv, DailyInv PROVE OneDailyAtATime
  <2> DEFINE Open == {t \in Days : arc[t].state \in Undecided}
  <2>1. \A s, t \in Open : s = t
    <3> SUFFICES ASSUME NEW s \in Open, NEW t \in Open, s # t PROVE FALSE
      OBVIOUS
    <3>1. s \in intents /\ t \in intents
      BY <1>1 DEF DailyInv, Undecided
    <3>2. s \in Int /\ t \in Int
      BY TournamentPlayAssumption
    <3>3. arc[s].state \in Decided \/ arc[t].state \in Decided
      BY <1>1, <3>1, <3>2 DEF DailyInv
    <3> QED
      BY <3>3 DEF Undecided, Decided
  <2> HIDE DEF Open
  <2>2. CASE Open = {}
    BY <2>2, FS_EmptySet DEF OneDailyAtATime, Open
  <2>3. CASE Open # {}
    <3>1. PICK s \in Open : TRUE
      BY <2>3
    <3>2. Open = {s}
      BY <2>1, <3>1
    <3>3. Cardinality(Open) = 1
      BY <3>2, FS_Singleton
    <3> QED
      BY <3>3 DEF OneDailyAtATime, Open
  <2> QED
    BY <2>2, <2>3
<1> QED
  BY <1>1, RowsInit, RowsStep, DailyInit, DailyStep, PTL DEF Spec
=============================================================================
