----------------------------- MODULE RuntimeStore -----------------------------
(***************************************************************************)
(* The SQLite store behind the API and its workers:                        *)
(* src/packages/persistence/src/sqlite-runtime.ts.                         *)
(*                                                                         *)
(* Every method is one statement or one BEGIN IMMEDIATE transaction, so    *)
(* each is one step, but for purgeIdentifiers: the steps of its loop, in   *)
(* which nothing else writes, are kept.  A payload is the set of strings   *)
(* in it; counters and leases go by their key, within one namespace.       *)
(***************************************************************************)
EXTENDS Integers, FiniteSets

CONSTANTS Ids,         \* strings: keys, fingerprints and what payloads hold
          Namespaces,
          Claimants,   \* the calls that claim a lease
          Owners,      \* the owners leases are claimed with: a UUID, api:<pid>
          OwnerOf,     \* the owner each of them claims with
          LeaseTimes,  \* leaseMs
          SafeInteger, \* Number.MAX_SAFE_INTEGER
          LastMoment   \* bound: the last time of a behaviour

ASSUME StoreAssumption ==
    /\ IsFiniteSet(Ids)
    /\ OwnerOf \in [Claimants -> Owners]
    /\ LeaseTimes \subseteq Nat \ {0}
    /\ SafeInteger \in Nat
    /\ LastMoment \in Nat

VARIABLES records,    \* runtime_records
          counters,   \* runtime_counters; 0 without a row
          leases,     \* runtime_leases
          purge,      \* the transaction of purgeIdentifiers, if one is open
          claims,     \* what the calls under way were granted
          clock       \* Date.now()

storeVars == <<records, counters, leases, purge, claims, clock>>

Row == [namespace : Namespaces, key : Ids, refs : SUBSET Ids]
Lease == [key : Ids, fingerprint : Ids, owner : Owners, expires : Nat]

\* alone (history): no call of its owner was under way under the key when it was granted.
Claim == [who : Claimants, key : Ids, until : Nat, alone : BOOLEAN]

NoPurge == [open |-> FALSE, seeds |-> {}, connected |-> {}, selected |-> {},
            rest |-> {}, found |-> FALSE]

StoreInit ==
    /\ records = {} /\ leases = {} /\ claims = {}
    /\ counters = [k \in Ids |-> 0]
    /\ purge = NoPurge
    /\ clock = 0

-----------------------------------------------------------------------------
(* Records and counters. *)

At(n, k) == {r \in records : r.namespace = n /\ r.key = k}

Put(n, k, refs) ==
    /\ ~purge.open
    /\ records' = (records \ At(n, k)) \cup {[namespace |-> n, key |-> k, refs |-> refs]}
    /\ UNCHANGED <<counters, leases, purge, claims, clock>>

PutIfAbsent(n, k, refs) == At(n, k) = {} /\ Put(n, k, refs)

Delete(n, k) ==
    /\ ~purge.open
    /\ records' = records \ At(n, k)
    /\ UNCHANGED <<counters, leases, purge, claims, clock>>

Increment(k, amount) ==
    /\ ~purge.open
    /\ counters[k] + amount <= SafeInteger
    /\ counters' = [counters EXCEPT ![k] = @ + amount]
    /\ UNCHANGED <<records, leases, purge, claims, clock>>

-----------------------------------------------------------------------------
(* Leases. *)

\* A lease left with another fingerprint is a conflict, however old it is.
MayClaim(k, f) == \A l \in leases : l.key = k => l.fingerprint = f /\ l.expires <= clock

UnderWay(o, k) == {c \in claims : OwnerOf[c.who] = o /\ c.key = k}

\* A call w that is not under way claims once.  Nothing is asked of the owner: its calls
\* may overlap, as do the tournament operations of a process, which all claim as api:<pid>.
ClaimLease(w, k, f, time) ==
    /\ ~purge.open
    /\ \A c \in claims : c.who # w
    /\ MayClaim(k, f)
    /\ leases' = {l \in leases : l.key # k}
                 \cup {[key |-> k, fingerprint |-> f, owner |-> OwnerOf[w], expires |-> clock + time]}
    /\ claims' = claims \cup {[who |-> w, key |-> k, until |-> clock + time,
                               alone |-> UnderWay(OwnerOf[w], k) = {}]}
    /\ UNCHANGED <<records, counters, purge, clock>>

\* Mutant of RowsOf: the row goes whoever owns it.
RowsOfAny(o, k) == {l \in leases : l.key = k}
RowsOf(o, k) == {l \in leases : l.key = k /\ l.owner = o}

\* In a finally, however late; the row may by then be another call's of the same owner.
ReleaseLease(c) ==
    /\ ~purge.open
    /\ leases' = leases \ RowsOf(OwnerOf[c.who], c.key)
    /\ claims' = claims \ {c}
    /\ UNCHANGED <<records, counters, purge, clock>>

\* The process ends and its leases stay.  A later process may have its owner: its number.
ProcessEnd(o) ==
    /\ ~purge.open
    /\ claims' = {c \in claims : OwnerOf[c.who] # o}
    /\ UNCHANGED <<records, counters, leases, purge, clock>>

\* LiveTournamentOperations is created: it releases what a process with its number left.
ReleaseLeft(o, k) ==
    /\ ~purge.open
    /\ \A c \in claims : OwnerOf[c.who] # o
    /\ leases' = leases \ RowsOf(o, k)
    /\ UNCHANGED <<records, counters, purge, claims, clock>>

Later ==
    /\ clock < LastMoment
    /\ clock' = clock + 1
    /\ UNCHANGED <<records, counters, leases, purge, claims>>

-----------------------------------------------------------------------------
(* purgeIdentifiers, at the start of the server: rows are selected in       *)
(* passes over the table until a pass finds none, then deleted with their   *)
(* counters and leases.                                                     *)

PurgeBegin(seeds) ==
    /\ ~purge.open /\ claims = {}
    /\ seeds # {}
    /\ purge' = [open |-> TRUE, seeds |-> seeds, connected |-> seeds, selected |-> {},
                 rest |-> records, found |-> FALSE]
    /\ UNCHANGED <<records, counters, leases, claims, clock>>

Linked(r, ids) == r.key \in ids \/ r.refs \cap ids # {}

PurgeRow(r) ==
    /\ purge.open /\ r \in purge.rest
    /\ purge' = IF r \notin purge.selected /\ Linked(r, purge.connected)
                THEN [purge EXCEPT !.rest = @ \ {r}, !.selected = @ \cup {r},
                                   !.connected = @ \cup {r.key}, !.found = TRUE]
                ELSE [purge EXCEPT !.rest = @ \ {r}]
    /\ UNCHANGED <<records, counters, leases, claims, clock>>

\* Mutant of Ended: one pass is enough.
EndedOnce == purge.open /\ purge.rest = {}
Ended == purge.open /\ purge.rest = {} /\ ~purge.found

PurgeAgain ==
    /\ purge.open /\ purge.rest = {} /\ purge.found
    /\ purge' = [purge EXCEPT !.rest = records, !.found = FALSE]
    /\ UNCHANGED <<records, counters, leases, claims, clock>>

PurgeDelete ==
    /\ Ended
    /\ records' = records \ purge.selected
    /\ counters' = [k \in Ids |-> IF k \in purge.connected THEN 0 ELSE counters[k]]
    /\ leases' = {l \in leases : l.key \notin purge.connected
                                 /\ l.fingerprint \notin purge.connected}
    /\ purge' = NoPurge
    /\ UNCHANGED <<claims, clock>>

\* The transaction is rolled back.
PurgeFails ==
    /\ purge.open
    /\ purge' = NoPurge
    /\ UNCHANGED <<records, counters, leases, claims, clock>>

-----------------------------------------------------------------------------

RowNext ==
    \/ \E n \in Namespaces, k \in Ids, refs \in SUBSET Ids :
          Put(n, k, refs) \/ PutIfAbsent(n, k, refs)
    \/ \E n \in Namespaces, k \in Ids : Delete(n, k)
    \/ \E seeds \in SUBSET Ids : PurgeBegin(seeds)
    \/ \E r \in purge.rest : PurgeRow(r)
    \/ PurgeAgain
    \/ PurgeDelete
    \/ PurgeFails

LeaseNext ==
    \/ \E w \in Claimants, k, f \in Ids, time \in LeaseTimes : ClaimLease(w, k, f, time)
    \/ \E c \in claims : ReleaseLease(c)
    \/ \E k \in Ids : Increment(k, 1)
    \/ \E o \in Owners : ProcessEnd(o)
    \/ \E o \in Owners, k \in Ids : ReleaseLeft(o, k)
    \/ Later

StoreNext == RowNext \/ LeaseNext
StoreSpec == StoreInit /\ [][StoreNext]_storeVars

-----------------------------------------------------------------------------
(* Properties. *)

StoreTypeOK ==
    /\ records \subseteq Row /\ leases \subseteq Lease /\ claims \subseteq Claim
    /\ counters \in [Ids -> 0..SafeInteger]
    /\ purge \in [open : BOOLEAN, seeds : SUBSET Ids, connected : SUBSET Ids,
                  selected : SUBSET records, rest : SUBSET records, found : BOOLEAN]
    /\ clock \in Nat

\* A call that was granted its lease with no other call of its owner under way is by
\* itself while its time lasts, whoever claims, starts again, or finishes late and
\* releases: its row stands, its owner has no other call under that key, and no other
\* such call works under it.  Where every call has an owner of its own, or an owner's
\* calls share a promise, each is such a call.  Where they do not, a call granted behind
\* one that outlived its lease may lose its row to that one's release.
LeaseHeld ==
    \A c \in claims : c.alone /\ clock < c.until =>
        /\ \E l \in leases : l.key = c.key /\ l.owner = OwnerOf[c.who] /\ l.expires = c.until
        /\ \A d \in claims :
              /\ d.key = c.key
              /\ OwnerOf[d.who] = OwnerOf[c.who] \/ (d.alone /\ clock < d.until)
              => d = c

\* The identifiers that follow from the seeds: the least set that holds them and,
\* with any string of a row, the row's key.
Closed(ids) == \A r \in records : Linked(r, ids) => r.key \in ids
Reached(seeds) == {k \in Ids : \A ids \in SUBSET Ids : seeds \subseteq ids /\ Closed(ids) => k \in ids}

\* In whatever order the table is read, a purge removes exactly the rows that are
\* connected with its identifiers, directly or over other rows: nothing that stays
\* mentions what was removed, and nothing unconnected goes.
PurgeExact ==
    Ended => /\ purge.connected = Reached(purge.seeds)
             /\ purge.selected = {r \in records : Linked(r, Reached(purge.seeds))}

=============================================================================
