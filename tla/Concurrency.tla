------------------------------ MODULE Concurrency ------------------------------
(***************************************************************************)
(* The two in-process queues of concurrency.ts.  A transaction lane lets   *)
(* one submission of a signer be sent at a time, by chaining each one to   *)
(* the promise of the one before; the execution scheduler runs a bounded   *)
(* number of operations and hands a slot that comes free to the longest    *)
(* waiter.  What runs between two awaits is one step.                      *)
(***************************************************************************)
EXTENDS Integers, Sequences, FiniteSets

CONSTANTS Calls,      \* calls of submit, and of run
          Signers,       \* signerAddress on a network: the keys of lanes
          KeyOf,      \* the lane of a call
          Limit,      \* the scheduler's limit, 1..30
          NoLane      \* no LaneState

ASSUME ConcurrencyAssumption ==
    /\ IsFiniteSet(Calls) /\ NoLane \notin Calls
    /\ KeyOf \in [Calls -> Signers]
    /\ Limit \in Nat \ {0}

VARIABLES lanes,     \* the Map: the LaneState of a key, named by the call that made it
          queued,    \* LaneState.queued
          length,    \* calls chained to a LaneState so far; the last one's promise is tail
          call,      \* a call's progress, its LaneState and its place in the chain
          active,    \* the scheduler's active
          waiters,   \* the scheduler's waiters
          job        \* the progress of run

laneVars == <<lanes, queued, length, call>>
slotVars == <<active, waiters, job>>
concurrencyVars == <<laneVars, slotVars>>

CallPc == {"idle", "waiting", "sending", "done"}
NoCall == [pc |-> "idle", lane |-> NoLane, place |-> 0]

ConcurrencyTypeOK ==
    /\ lanes \in [Signers -> Calls \cup {NoLane}]
    /\ queued \in [Calls -> Nat]
    /\ length \in [Calls -> Nat]
    /\ call \in [Calls -> [pc : CallPc, lane : Calls \cup {NoLane}, place : Nat]]
    /\ active \in Nat
    /\ waiters \in Seq(Calls)
    /\ job \in [Calls -> {"idle", "waiting", "running", "done"}]

ConcurrencyInit ==
    /\ lanes = [k \in Signers |-> NoLane]
    /\ queued = [l \in Calls |-> 0]
    /\ length = [l \in Calls |-> 0]
    /\ call = [c \in Calls |-> NoCall]
    /\ active = 0 /\ waiters = <<>>
    /\ job = [c \in Calls |-> "idle"]

-----------------------------------------------------------------------------
(* A transaction lane. *)

\* submit up to its await: a lane is made on demand, and the call becomes its tail.
SubmitCall(c) ==
    LET l == IF lanes[KeyOf[c]] = NoLane THEN c ELSE lanes[KeyOf[c]]
    IN  /\ call[c].pc = "idle"
        /\ lanes' = [lanes EXCEPT ![KeyOf[c]] = l]
        /\ queued' = [queued EXCEPT ![l] = @ + 1]
        /\ length' = [length EXCEPT ![l] = @ + 1]
        /\ call' = [call EXCEPT ![c] = [pc |-> "waiting", lane |-> l, place |-> length[l] + 1]]
        /\ UNCHANGED slotVars

\* The promise of the call before it, or of nobody, is resolved.
MayEnter(c) == \A d \in Calls : /\ call[d].lane = call[c].lane
                                /\ call[d].place + 1 = call[c].place
                                => call[d].pc = "done"

Enter(c) ==
    /\ call[c].pc = "waiting" /\ MayEnter(c)
    /\ call' = [call EXCEPT ![c].pc = "sending"]
    /\ UNCHANGED <<lanes, queued, length, slotVars>>

\* Mutant of Dropped: a finished call takes the lane away from those that wait.
DroppedAlways(l, left, key) == IF lanes[key] = l THEN NoLane ELSE lanes[key]
\* An empty lane is forgotten, unless the key has another one by now.
Dropped(l, left, key) == IF left = 0 /\ lanes[key] = l THEN NoLane ELSE lanes[key]

\* send resolves or rejects: finally counts down, releases and forgets the lane.
Leave(c) ==
    LET l == call[c].lane
    IN  /\ call[c].pc = "sending"
        /\ queued' = [queued EXCEPT ![l] = @ - 1]
        /\ call' = [call EXCEPT ![c].pc = "done"]
        /\ lanes' = [lanes EXCEPT ![KeyOf[c]] = Dropped(l, queued[l] - 1, KeyOf[c])]
        /\ UNCHANGED <<length, slotVars>>

-----------------------------------------------------------------------------
(* The execution scheduler. *)

Acquire(c) ==
    /\ job[c] = "idle"
    /\ IF active < Limit
       THEN /\ active' = active + 1
            /\ job' = [job EXCEPT ![c] = "running"]
            /\ UNCHANGED waiters
       ELSE /\ waiters' = Append(waiters, c)
            /\ job' = [job EXCEPT ![c] = "waiting"]
            /\ UNCHANGED active
    /\ UNCHANGED laneVars

\* Mutant of HandOver: the slot is given back although a waiter took it.
HandOverTwice == active - 1
\* A slot goes to the first waiter or is given back.
HandOver == IF waiters = <<>> THEN active - 1 ELSE active

\* The operation ends, either way.
Release(c) ==
    /\ job[c] = "running"
    /\ active' = HandOver
    /\ IF waiters = <<>>
       THEN /\ job' = [job EXCEPT ![c] = "done"]
            /\ UNCHANGED waiters
       ELSE /\ job' = [job EXCEPT ![c] = "done", ![Head(waiters)] = "running"]
            /\ waiters' = Tail(waiters)
    /\ UNCHANGED laneVars

LaneStep == \E c \in Calls : SubmitCall(c) \/ Enter(c) \/ Leave(c)
SlotStep == \E c \in Calls : Acquire(c) \/ Release(c)
ConcurrencyNext == LaneStep \/ SlotStep
ConcurrencySpec == ConcurrencyInit /\ [][ConcurrencyNext]_concurrencyVars

-----------------------------------------------------------------------------
(* Properties. *)

Pending(l) == {c \in Calls : call[c].lane = l /\ call[c].pc \in {"waiting", "sending"}}

\* Two transactions of one signer are never sent at the same time, although lanes
\* come and go while calls wait: a nonce is not used twice.
OneSender ==
    \A c, d \in Calls :
        /\ call[c].pc = "sending" /\ call[d].pc = "sending" /\ KeyOf[c] = KeyOf[d]
        => c = d

Running == {c \in Calls : job[c] = "running"}

\* The slots in use are counted exactly, whoever handed one to whom: never more
\* than the limit run, and nobody waits while a slot is free.
SlotsExact ==
    /\ active = Cardinality(Running) /\ active <= Limit
    /\ waiters # <<>> => active = Limit

\* The two queues of a process together.
LanesSound == ConcurrencyTypeOK /\ OneSender /\ SlotsExact
=============================================================================
