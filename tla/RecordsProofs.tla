----------------------------- MODULE RecordsProofs -----------------------------
(***************************************************************************)
(* What is proved of the store behind the API, of the public record of a   *)
(* tournament's results, of the block that seeds its bracket, and of the   *)
(* rows that follow the sale of an agent.                                  *)
(***************************************************************************)
EXTENDS RuntimeStore, PublicRecord, StartBlock, Marketplace, SumTheorems, SequenceTheorems

-----------------------------------------------------------------------------
(* The start block. *)

\* Times never go back; below the search there are only blocks too young, and its
\* upper end is old enough.
Grows == \A i, j \in 0..head : i <= j => stamp[i] <= stamp[j]
SearchBounded ==
    search.on => /\ search.lower <= search.upper /\ search.upper <= head
                 /\ stamp[search.upper] >= StartsAt
                 /\ \A n \in 0..head : n < search.lower => stamp[n] < StartsAt
FirstFound ==
    \A b \in answers : stamp[b] >= StartsAt /\ \A n \in 0..head : n < b => stamp[n] < StartsAt
StartInv == StartTypeOK /\ Grows /\ SearchBounded /\ FirstFound

\* The state right after the start is in the invariant.
LEMMA StartInitInv == StartInit => StartInv
  BY StartAssumption, SMT DEF StartInit, StartInv, StartTypeOK, Grows, SearchBounded, FirstFound, NoSearch

\* Halving keeps the bounds.
LEMMA HalfKeeps ==
  ASSUME StartInv, search.on, search.lower < search.upper
  PROVE  /\ Half(search) \in [on : BOOLEAN, lower : 0..MaxHeight, upper : 0..MaxHeight]
         /\ Half(search).on
         /\ Half(search).lower <= Half(search).upper /\ Half(search).upper <= head
         /\ stamp[Half(search).upper] >= StartsAt
         /\ \A n \in 0..head : n < Half(search).lower => stamp[n] < StartsAt
<1> DEFINE middle == (search.lower + search.upper) \div 2
<1>1. /\ search \in [on : BOOLEAN, lower : 0..MaxHeight, upper : 0..MaxHeight]
      /\ head \in 0..MaxHeight /\ stamp \in [0..head -> 0..MaxTime]
      /\ search.upper <= head /\ stamp[search.upper] >= StartsAt
      /\ \A n \in 0..head : n < search.lower => stamp[n] < StartsAt
      /\ StartsAt \in Nat /\ MaxHeight \in Nat /\ MaxTime \in Nat
  BY StartAssumption DEF StartInv, StartTypeOK, SearchBounded
<1>2. /\ middle \in Nat /\ search.lower <= middle /\ middle < search.upper
      /\ middle \in 0..head /\ search.lower \in Nat /\ search.upper \in Nat
  BY <1>1, SMT
<1> HIDE DEF middle
<1>3. CASE stamp[middle] >= StartsAt
  <2>1. Half(search) = [search EXCEPT !.upper = middle]
    BY <1>3 DEF Half, middle
  <2>2. /\ [search EXCEPT !.upper = middle] \in [on : BOOLEAN, lower : 0..MaxHeight, upper : 0..MaxHeight]
        /\ [search EXCEPT !.upper = middle].on
        /\ [search EXCEPT !.upper = middle].lower = search.lower
        /\ [search EXCEPT !.upper = middle].upper = middle
    BY <1>1, <1>2, SMT
  <2> QED BY <1>1, <1>2, <1>3, <2>1, <2>2, SMT
<1>4. CASE ~(stamp[middle] >= StartsAt)
  <2>1. Half(search) = [search EXCEPT !.lower = middle + 1]
    BY <1>4 DEF Half, middle
  <2>2. /\ [search EXCEPT !.lower = middle + 1] \in [on : BOOLEAN, lower : 0..MaxHeight, upper : 0..MaxHeight]
        /\ [search EXCEPT !.lower = middle + 1].on
        /\ [search EXCEPT !.lower = middle + 1].lower = middle + 1
        /\ [search EXCEPT !.lower = middle + 1].upper = search.upper
    BY <1>1, <1>2, SMT
  <2>3. \A n \in 0..head : n < middle + 1 => stamp[n] < StartsAt
    <3> SUFFICES ASSUME NEW n \in 0..head, n < middle + 1 PROVE stamp[n] < StartsAt
      OBVIOUS
    <3>1. n <= middle BY <1>1, <1>2, SMT
    <3>2. stamp[n] <= stamp[middle] BY <1>2, <3>1 DEF StartInv, Grows
    <3>3. stamp[n] \in Nat /\ stamp[middle] \in Nat BY <1>1, <1>2, SMT
    <3> QED BY <1>1, <1>4, <3>2, <3>3, SMT
  <2> QED BY <1>1, <1>2, <2>1, <2>2, <2>3, SMT
<1> QED BY <1>3, <1>4

\* A new block changes nothing below it.
LEMMA NewBlockKeeps ==
  ASSUME StartInv, NEW time \in 0..MaxTime, NewBlock(time) PROVE StartInv'
<1>1. /\ search \in [on : BOOLEAN, lower : 0..MaxHeight, upper : 0..MaxHeight]
      /\ head \in 0..MaxHeight /\ stamp \in [0..head -> 0..MaxTime] /\ answers \subseteq 0..head
      /\ MaxHeight \in Nat /\ MaxTime \in Nat /\ StartsAt \in Nat
  BY StartAssumption DEF StartInv, StartTypeOK
<1>2. /\ head' = head + 1 /\ head < MaxHeight
      /\ stamp' = [n \in 0..head + 1 |-> IF n <= head THEN stamp[n] ELSE time]
      /\ search' = search /\ answers' = answers /\ stamp[head] <= time
  BY DEF NewBlock
<1>3. /\ \A n \in 0..head : stamp'[n] = stamp[n]
      /\ stamp'[head + 1] = time
      /\ stamp' \in [0..head' -> 0..MaxTime]
      /\ head' \in 0..MaxHeight /\ answers' \subseteq 0..head'
  BY <1>1, <1>2, SMT
<1>4. StartTypeOK'
  BY <1>1, <1>2, <1>3 DEF StartTypeOK
<1>5. Grows'
  <2> SUFFICES ASSUME NEW i \in 0..head', NEW j \in 0..head', i <= j PROVE stamp'[i] <= stamp'[j]
    BY DEF Grows
  <2>1. \A n \in 0..head : stamp[n] <= stamp[head] /\ stamp[n] \in Nat
    BY <1>1, SMT DEF StartInv, Grows
  <2>2. CASE j \in 0..head
    <3>1. i \in 0..head BY <1>1, <1>2, <2>2, SMT
    <3> QED BY <1>3, <2>2, <3>1 DEF StartInv, Grows
  <2>3. CASE j = head + 1
    BY <1>1, <1>2, <1>3, <2>1, <2>3, SMT
  <2> QED BY <1>1, <1>2, <2>2, <2>3, SMT
<1>6. SearchBounded'
  <2> SUFFICES ASSUME search.on
               PROVE  /\ search.lower <= search.upper /\ search.upper <= head + 1
                      /\ stamp'[search.upper] >= StartsAt
                      /\ \A n \in 0..head + 1 : n < search.lower => stamp'[n] < StartsAt
    BY <1>2 DEF SearchBounded
  <2>1. /\ search.lower <= search.upper /\ search.upper <= head
        /\ stamp[search.upper] >= StartsAt
        /\ \A n \in 0..head : n < search.lower => stamp[n] < StartsAt
    BY DEF StartInv, SearchBounded
  <2> QED BY <1>1, <1>3, <2>1, SMT
<1>7. FirstFound'
  <2> SUFFICES ASSUME NEW b \in answers
               PROVE  stamp'[b] >= StartsAt /\ \A n \in 0..head + 1 : n < b => stamp'[n] < StartsAt
    BY <1>2 DEF FirstFound
  <2>1. /\ b \in 0..head /\ stamp[b] >= StartsAt
        /\ \A n \in 0..head : n < b => stamp[n] < StartsAt
    BY <1>1 DEF StartInv, FirstFound
  <2> QED BY <1>1, <1>3, <2>1, SMT
<1> QED BY <1>4, <1>5, <1>6, <1>7 DEF StartInv

\* Every step keeps the invariant.
LEMMA StartStep == ASSUME StartInv, [StartNext]_startVars PROVE StartInv'
<1>1. ASSUME NEW time \in 0..MaxTime, NewBlock(time) PROVE StartInv'
  BY <1>1, NewBlockKeeps
<1>2. CASE Look
  BY <1>2, StartAssumption, SMT DEF Look, StartInv, StartTypeOK, Grows, SearchBounded, FirstFound
<1>3. CASE Narrow
  <2>1. search.on /\ search.lower < search.upper /\ search' = Half(search)
        /\ head' = head /\ stamp' = stamp /\ answers' = answers
    BY <1>3 DEF Narrow
  <2> QED BY <2>1, HalfKeeps DEF StartInv, StartTypeOK, Grows, SearchBounded, FirstFound
<1>4. CASE Found
  <2>1. /\ search.on /\ search.lower = search.upper /\ search' = NoSearch
        /\ head' = head /\ stamp' = stamp
        /\ answers' = IF stamp[search.lower] >= StartsAt THEN answers \cup {search.lower} ELSE answers
    BY <1>4 DEF Found
  <2>2. NoSearch \in [on : BOOLEAN, lower : 0..MaxHeight, upper : 0..MaxHeight] /\ ~NoSearch.on
    BY StartAssumption, SMT DEF NoSearch
  <2>3. search.lower \in 0..head
    BY <2>1, StartAssumption, SMT DEF StartInv, StartTypeOK, SearchBounded
  <2>4. FirstFound'
    BY <2>1 DEF StartInv, SearchBounded, FirstFound
  <2> QED BY <2>1, <2>2, <2>3, <2>4 DEF StartInv, StartTypeOK, Grows, SearchBounded
<1>5. CASE LookFails
  <2>1. NoSearch \in [on : BOOLEAN, lower : 0..MaxHeight, upper : 0..MaxHeight] /\ ~NoSearch.on
    BY StartAssumption, SMT DEF NoSearch
  <2> QED BY <1>5, <2>1 DEF LookFails, StartInv, StartTypeOK, Grows, SearchBounded, FirstFound
<1>6. CASE UNCHANGED startVars
  BY <1>6 DEF startVars, StartInv, StartTypeOK, Grows, SearchBounded, FirstFound
<1> QED BY <1>1, <1>2, <1>3, <1>4, <1>5, <1>6 DEF StartNext

\* startBlockEntropy always finds the first block at or after the start, on every
\* chain and however it has grown between two calls: a tournament has one seed.
THEOREM OneSeedAlways == StartSpec => []OneSeed
<1>1. StartInv => OneSeed
  <2> SUFFICES ASSUME StartInv PROVE \A b, c \in answers : b = c
    BY DEF StartInv, FirstFound, OneSeed
  <2>1. answers \subseteq 0..head /\ head \in Nat /\ stamp \in [0..head -> 0..MaxTime]
        /\ StartsAt \in Nat /\ MaxTime \in Nat
    BY StartAssumption, SMT DEF StartInv, StartTypeOK
  <2>2. ASSUME NEW b \in answers, NEW c \in answers, b < c PROVE FALSE
    <3>1. stamp[b] >= StartsAt /\ stamp[b] < StartsAt BY <2>1, <2>2 DEF StartInv, FirstFound
    <3>2. stamp[b] \in Nat BY <2>1, SMT
    <3> QED BY <2>1, <3>1, <3>2, SMT
  <2> QED BY <2>1, <2>2, SMT
<1> QED BY <1>1, StartInitInv, StartStep, PTL DEF StartSpec

-----------------------------------------------------------------------------
(* The store: types. *)

PurgeType == [open : BOOLEAN, seeds : SUBSET Ids, connected : SUBSET Ids,
              selected : SUBSET records, rest : SUBSET records, found : BOOLEAN]

\* While no purge is open its fields are empty.
StoreInv == StoreTypeOK /\ (~purge.open => purge = NoPurge)

\* NoPurge fits any table.
LEMMA NoPurgeType ==
  ASSUME NEW table
  PROVE  /\ NoPurge \in [open : BOOLEAN, seeds : SUBSET Ids, connected : SUBSET Ids,
                         selected : SUBSET table, rest : SUBSET table, found : BOOLEAN]
         /\ ~NoPurge.open
  BY DEF NoPurge

LEMMA StoreInitInv == StoreInit => StoreInv
<1> SUFFICES ASSUME StoreInit PROVE StoreInv
  OBVIOUS
<1>1. counters \in [Ids -> 0..SafeInteger]
  BY StoreAssumption, SMT DEF StoreInit
<1> QED BY <1>1, NoPurgeType DEF StoreInit, StoreInv, StoreTypeOK

\* Everything a purge's step writes fits its type.
LEMMA PurgeRowType ==
  ASSUME StoreInv, NEW r \in purge.rest, PurgeRow(r)
  PROVE  purge' \in PurgeType /\ purge'.open
<1>1. purge \in PurgeType /\ purge.open /\ records \subseteq Row
  BY DEF StoreInv, StoreTypeOK, PurgeType, PurgeRow
<1>2. r \in records /\ r \in Row
  BY <1>1 DEF PurgeType
<1>3. r.key \in Ids
  BY <1>2 DEF Row
<1>4. [purge EXCEPT !.rest = @ \ {r}] \in PurgeType /\ [purge EXCEPT !.rest = @ \ {r}].open
  BY <1>1 DEF PurgeType
<1>5. LET q == [purge EXCEPT !.rest = @ \ {r}, !.selected = @ \cup {r},
                             !.connected = @ \cup {r.key}, !.found = TRUE]
      IN q \in PurgeType /\ q.open
  BY <1>1, <1>2, <1>3 DEF PurgeType
<1> QED BY <1>4, <1>5 DEF PurgeRow

LEMMA StoreStep == ASSUME StoreInv, [StoreNext]_storeVars PROVE StoreInv'
<1> USE StoreAssumption
<1>1. ASSUME NEW n \in Namespaces, NEW k \in Ids, NEW refs \in SUBSET Ids,
             Put(n, k, refs) \/ PutIfAbsent(n, k, refs)
      PROVE  StoreInv'
  <2>1. Put(n, k, refs) BY <1>1 DEF PutIfAbsent
  <2>2. [namespace |-> n, key |-> k, refs |-> refs] \in Row BY <1>1 DEF Row
  <2>3. records' \subseteq Row BY <2>1, <2>2 DEF Put, StoreInv, StoreTypeOK, At
  <2> QED BY <2>1, <2>3, NoPurgeType DEF Put, StoreInv, StoreTypeOK
<1>2. ASSUME NEW n \in Namespaces, NEW k \in Ids, Delete(n, k) PROVE StoreInv'
  <2>1. records' \subseteq Row BY <1>2 DEF Delete, StoreInv, StoreTypeOK, At
  <2> QED BY <1>2, <2>1, NoPurgeType DEF Delete, StoreInv, StoreTypeOK
<1>3. ASSUME NEW seeds \in SUBSET Ids, PurgeBegin(seeds) PROVE StoreInv'
  BY <1>3 DEF PurgeBegin, StoreInv, StoreTypeOK
<1>4. ASSUME NEW r \in purge.rest, PurgeRow(r) PROVE StoreInv'
  <2>1. purge' \in PurgeType /\ purge'.open BY <1>4, PurgeRowType
  <2> QED BY <1>4, <2>1 DEF PurgeRow, StoreInv, StoreTypeOK, PurgeType
<1>5. CASE PurgeAgain
  BY <1>5 DEF PurgeAgain, StoreInv, StoreTypeOK
<1>6. CASE PurgeDelete
  <2>1. records' \subseteq Row /\ leases' \subseteq Lease /\ purge' = NoPurge
        /\ claims' = claims /\ clock' = clock
    BY <1>6 DEF PurgeDelete, StoreInv, StoreTypeOK
  <2>2. counters' \in [Ids -> 0..SafeInteger]
    BY <1>6, SMT DEF PurgeDelete, StoreInv, StoreTypeOK
  <2> QED BY <2>1, <2>2, NoPurgeType DEF StoreInv, StoreTypeOK
<1>7. CASE PurgeFails
  BY <1>7, NoPurgeType DEF PurgeFails, StoreInv, StoreTypeOK
<1>8. ASSUME NEW w \in Claimants, NEW k \in Ids, NEW f \in Ids, NEW time \in LeaseTimes,
             ClaimLease(w, k, f, time)
      PROVE  StoreInv'
  <2>1. clock + time \in Nat BY SMT DEF StoreInv, StoreTypeOK
  <2>2. /\ [key |-> k, fingerprint |-> f, owner |-> OwnerOf[w], expires |-> clock + time] \in Lease
        /\ \A b \in BOOLEAN :
              [who |-> w, key |-> k, until |-> clock + time, alone |-> b] \in Claim
    BY <2>1 DEF Lease, Claim
  <2>3. leases' \subseteq Lease /\ claims' \subseteq Claim
    BY <1>8, <2>2 DEF ClaimLease, StoreInv, StoreTypeOK
  <2> QED BY <1>8, <2>3 DEF ClaimLease, StoreInv, StoreTypeOK
<1>9. ASSUME NEW c \in claims, ReleaseLease(c) PROVE StoreInv'
  BY <1>9 DEF ReleaseLease, StoreInv, StoreTypeOK
<1>10. ASSUME NEW k \in Ids, Increment(k, 1) PROVE StoreInv'
  <2>1. counters' \in [Ids -> 0..SafeInteger]
    BY <1>10, SMT DEF Increment, StoreInv, StoreTypeOK
  <2> QED BY <1>10, <2>1 DEF Increment, StoreInv, StoreTypeOK
<1>11. ASSUME NEW o \in Owners, ProcessEnd(o) PROVE StoreInv'
  BY <1>11 DEF ProcessEnd, StoreInv, StoreTypeOK
<1>12. CASE Later
  <2>1. clock' \in Nat BY <1>12, SMT DEF Later, StoreInv, StoreTypeOK
  <2> QED BY <1>12, <2>1 DEF Later, StoreInv, StoreTypeOK
<1>13. CASE UNCHANGED storeVars
  BY <1>13 DEF storeVars, StoreInv, StoreTypeOK
<1>16. ASSUME NEW o \in Owners, NEW k \in Ids, ReleaseLeft(o, k) PROVE StoreInv'
  BY <1>16 DEF ReleaseLeft, StoreInv, StoreTypeOK
<1>14. CASE RowNext
  BY <1>14, <1>1, <1>2, <1>3, <1>4, <1>5, <1>6, <1>7 DEF RowNext
<1>15. CASE LeaseNext
  BY <1>15, <1>8, <1>9, <1>10, <1>11, <1>12, <1>16 DEF LeaseNext
<1> QED BY <1>13, <1>14, <1>15 DEF StoreNext

\* The tables hold what they are made for, in every state of every behaviour.
THEOREM StoreTyped == StoreSpec => []StoreTypeOK
<1>1. StoreInv => StoreTypeOK
  BY DEF StoreInv
<1> QED BY <1>1, StoreInitInv, StoreStep, PTL DEF StoreSpec

-----------------------------------------------------------------------------
(* The store: leases. *)

\* A key has one row.  A call that was granted its lease alone has, while its time lasts,
\* its row and no other call of its owner beside it.  A purge finds no claim.
OneRow == \A l, m \in leases : l.key = m.key => l = m
Lasting(c) == c.alone /\ clock < c.until
RowStands ==
    \A c \in claims : Lasting(c) =>
        \E l \in leases : l.key = c.key /\ l.owner = OwnerOf[c.who] /\ l.expires = c.until
StaysAlone ==
    \A c, d \in claims :
        Lasting(c) /\ d.key = c.key /\ OwnerOf[d.who] = OwnerOf[c.who] => d = c
PurgedAlone == purge.open => claims = {}
LeaseInv == StoreInv /\ OneRow /\ RowStands /\ StaysAlone /\ PurgedAlone

LEMMA LeaseInitInv == StoreInit => LeaseInv
  BY StoreInitInv, NoPurgeType DEF StoreInit, LeaseInv, OneRow, RowStands, StaysAlone, PurgedAlone

\* A claim is granted on a key under which no call that was granted its lease alone
\* has time left.
LEMMA ClaimKeeps ==
  ASSUME LeaseInv, NEW w \in Claimants, NEW k \in Ids, NEW f \in Ids, NEW time \in LeaseTimes,
         ClaimLease(w, k, f, time)
  PROVE  OneRow' /\ RowStands' /\ StaysAlone'
<1> DEFINE l0 == [key |-> k, fingerprint |-> f, owner |-> OwnerOf[w], expires |-> clock + time]
           c0 == [who |-> w, key |-> k, until |-> clock + time,
                  alone |-> UnderWay(OwnerOf[w], k) = {}]
<1>1. /\ leases' = {l \in leases : l.key # k} \cup {l0}
      /\ claims' = claims \cup {c0} /\ clock' = clock
      /\ MayClaim(k, f)
  BY DEF ClaimLease
<1>2. /\ l0.key = k /\ l0.owner = OwnerOf[w] /\ l0.expires = clock + time
      /\ c0.who = w /\ c0.key = k /\ c0.until = clock + time
      /\ c0.alone => \A c \in claims : OwnerOf[c.who] # OwnerOf[w] \/ c.key # k
  BY DEF UnderWay
<1> HIDE DEF l0, c0
<1>3. OneRow'
  BY <1>1, <1>2 DEF LeaseInv, OneRow
<1>4. ASSUME NEW c \in claims, Lasting(c) PROVE c.key # k
  <2>1. SUFFICES ASSUME c.key = k PROVE FALSE
    OBVIOUS
  <2>2. PICK l \in leases : l.key = c.key /\ l.expires = c.until
    BY <1>4 DEF LeaseInv, RowStands
  <2>3. l.expires <= clock
    BY <1>1, <2>1, <2>2 DEF MayClaim
  <2>4. clock \in Nat /\ c.until \in Nat
    BY DEF LeaseInv, StoreInv, StoreTypeOK, Claim
  <2> QED BY <1>4, <2>2, <2>3, <2>4, SMT DEF Lasting
<1>5. RowStands'
  <2> SUFFICES ASSUME NEW c \in claims', Lasting(c)
               PROVE  \E l \in leases' : /\ l.key = c.key /\ l.owner = OwnerOf[c.who]
                                         /\ l.expires = c.until
    BY <1>1 DEF RowStands, Lasting
  <2>1. CASE c = c0
    BY <1>1, <1>2, <2>1
  <2>2. CASE c \in claims
    <3>1. PICK l \in leases : /\ l.key = c.key /\ l.owner = OwnerOf[c.who]
                              /\ l.expires = c.until
      BY <2>2 DEF LeaseInv, RowStands
    <3>2. l \in leases' BY <1>1, <1>4, <2>2, <3>1
    <3> QED BY <3>1, <3>2
  <2> QED BY <1>1, <2>1, <2>2
<1>6. StaysAlone'
  <2> SUFFICES ASSUME NEW c \in claims', NEW d \in claims', Lasting(c), d.key = c.key,
                      OwnerOf[d.who] = OwnerOf[c.who]
               PROVE  d = c
    BY <1>1 DEF StaysAlone, Lasting
  <2>1. CASE c \in claims
    <3>1. c.key # k BY <1>4, <2>1
    <3>2. d \in claims BY <1>1, <1>2, <3>1
    <3> QED BY <2>1, <3>2 DEF LeaseInv, StaysAlone
  <2>2. CASE c = c0
    <3>1. c0.alone BY <2>2 DEF Lasting
    <3> QED BY <1>1, <1>2, <2>2, <3>1
  <2> QED BY <1>1, <2>1, <2>2
<1> QED BY <1>3, <1>5, <1>6

LEMMA LeaseStep == ASSUME LeaseInv, [StoreNext]_storeVars PROVE LeaseInv'
<1>1. StoreInv' BY StoreStep DEF LeaseInv
<1>2. ASSUME NEW w \in Claimants, NEW k \in Ids, NEW f \in Ids, NEW time \in LeaseTimes,
             ClaimLease(w, k, f, time)
      PROVE  LeaseInv'
  <2>1. ~purge.open /\ purge' = purge BY <1>2 DEF ClaimLease
  <2> QED BY <1>1, <1>2, <2>1, ClaimKeeps DEF LeaseInv, PurgedAlone
<1>3. ASSUME NEW c \in claims, ReleaseLease(c) PROVE LeaseInv'
  <2>1. /\ leases' = {l \in leases : l.key # c.key \/ l.owner # OwnerOf[c.who]}
        /\ claims' = claims \ {c} /\ purge' = purge /\ clock' = clock /\ ~purge.open
    BY <1>3 DEF ReleaseLease, RowsOf
  <2>2. OneRow' /\ StaysAlone' /\ PurgedAlone'
    BY <2>1 DEF LeaseInv, OneRow, StaysAlone, PurgedAlone, Lasting
  <2>3. ASSUME NEW d \in claims', Lasting(d)
        PROVE  d.key # c.key \/ OwnerOf[d.who] # OwnerOf[c.who]
    BY <2>1, <2>3 DEF LeaseInv, StaysAlone
  <2>4. RowStands'
    BY <2>1, <2>3 DEF LeaseInv, RowStands, Lasting
  <2> QED BY <1>1, <2>2, <2>4 DEF LeaseInv
<1>4. ASSUME NEW o \in Owners, ProcessEnd(o) PROVE LeaseInv'
  <2>1. /\ claims' \subseteq claims /\ leases' = leases /\ clock' = clock
        /\ ~purge.open /\ purge' = purge
    BY <1>4 DEF ProcessEnd
  <2> QED BY <1>1, <2>1 DEF LeaseInv, OneRow, RowStands, StaysAlone, PurgedAlone, Lasting
<1>18. ASSUME NEW o \in Owners, NEW k \in Ids, ReleaseLeft(o, k) PROVE LeaseInv'
  <2>1. /\ leases' = {l \in leases : l.key # k \/ l.owner # o}
        /\ \A c \in claims : OwnerOf[c.who] # o
        /\ claims' = claims /\ purge' = purge /\ clock' = clock
    BY <1>18 DEF ReleaseLeft, RowsOf
  <2> QED BY <1>1, <2>1 DEF LeaseInv, OneRow, RowStands, StaysAlone, PurgedAlone, Lasting
<1>5. CASE Later
  <2>1. /\ clock' = clock + 1 /\ leases' = leases /\ claims' = claims /\ purge' = purge
        /\ clock \in Nat /\ \A c \in claims : c.until \in Nat
    BY <1>5 DEF Later, LeaseInv, StoreInv, StoreTypeOK, Claim
  <2>2. \A c \in claims : clock' < c.until => clock < c.until
    BY <2>1, SMT
  <2> QED BY <1>1, <2>1, <2>2 DEF LeaseInv, OneRow, RowStands, StaysAlone, PurgedAlone, Lasting
<1>6. CASE PurgeDelete
  <2>1. /\ leases' \subseteq leases /\ claims' = claims /\ claims = {} /\ ~purge'.open
    BY <1>6, NoPurgeType DEF PurgeDelete, Ended, LeaseInv, PurgedAlone
  <2> QED BY <1>1, <2>1 DEF LeaseInv, OneRow, RowStands, StaysAlone, PurgedAlone
<1>7. ASSUME leases' = leases, claims' = claims, clock' = clock, purge'.open => purge.open \/ claims = {}
      PROVE  LeaseInv'
  BY <1>1, <1>7 DEF LeaseInv, OneRow, RowStands, StaysAlone, PurgedAlone, Lasting
<1>8. ASSUME NEW n \in Namespaces, NEW k \in Ids, NEW refs \in SUBSET Ids,
             Put(n, k, refs) \/ PutIfAbsent(n, k, refs)
      PROVE  LeaseInv'
  BY <1>7, <1>8 DEF Put, PutIfAbsent
<1>9. ASSUME NEW n \in Namespaces, NEW k \in Ids, Delete(n, k) PROVE LeaseInv'
  BY <1>7, <1>9 DEF Delete
<1>10. ASSUME NEW seeds \in SUBSET Ids, PurgeBegin(seeds) PROVE LeaseInv'
  BY <1>7, <1>10 DEF PurgeBegin
<1>11. ASSUME NEW r \in purge.rest, PurgeRow(r) PROVE LeaseInv'
  BY <1>7, <1>11 DEF PurgeRow
<1>12. CASE PurgeAgain
  BY <1>7, <1>12 DEF PurgeAgain
<1>13. CASE PurgeFails
  BY <1>7, <1>13, NoPurgeType DEF PurgeFails
<1>14. ASSUME NEW k \in Ids, Increment(k, 1) PROVE LeaseInv'
  BY <1>7, <1>14 DEF Increment
<1>15. CASE UNCHANGED storeVars
  BY <1>7, <1>15 DEF storeVars
<1>16. CASE RowNext
  BY <1>16, <1>6, <1>8, <1>9, <1>10, <1>11, <1>12, <1>13 DEF RowNext
<1>17. CASE LeaseNext
  BY <1>17, <1>2, <1>3, <1>4, <1>5, <1>14, <1>18 DEF LeaseNext
<1> QED BY <1>15, <1>16, <1>17 DEF StoreNext

\* A call that was granted its lease with no call of its owner under way holds it alone
\* while its time lasts: a late release, the end of a process and the claims of others
\* never take it away.
THEOREM LeaseHeldAlways == StoreSpec => []LeaseHeld
<1>1. LeaseInv => LeaseHeld
  <2> SUFFICES ASSUME LeaseInv, NEW c \in claims, c.alone, clock < c.until
               PROVE  /\ \E l \in leases : /\ l.key = c.key /\ l.owner = OwnerOf[c.who]
                                            /\ l.expires = c.until
                      /\ \A d \in claims :
                            /\ d.key = c.key
                            /\ OwnerOf[d.who] = OwnerOf[c.who] \/ (d.alone /\ clock < d.until)
                            => d = c
    BY DEF LeaseHeld
  <2>1. PICK l \in leases : l.key = c.key /\ l.owner = OwnerOf[c.who] /\ l.expires = c.until
    BY DEF LeaseInv, RowStands, Lasting
  <2>2. ASSUME NEW d \in claims, d.key = c.key, OwnerOf[d.who] = OwnerOf[c.who] PROVE d = c
    BY <2>2 DEF LeaseInv, StaysAlone, Lasting
  <2>3. ASSUME NEW d \in claims, d.key = c.key, d.alone, clock < d.until PROVE d = c
    <3>1. PICK m \in leases : m.key = d.key /\ m.owner = OwnerOf[d.who] /\ m.expires = d.until
      BY <2>3 DEF LeaseInv, RowStands, Lasting
    <3>2. m = l BY <2>1, <2>3, <3>1 DEF LeaseInv, OneRow
    <3> QED BY <2>1, <2>2, <2>3, <3>1, <3>2
  <2> QED BY <2>1, <2>2, <2>3
<1> QED BY <1>1, LeaseInitInv, LeaseStep, PTL DEF StoreSpec

\* Where the calls of one owner for a key never overlap - every tick has a UUID of its own,
\* the calls of other workers share a promise - two calls never work under one key while
\* both have time left.
OwnersInTurn ==
    \A c, d \in claims : c.key = d.key /\ OwnerOf[c.who] = OwnerOf[d.who] => c = d
Exclusive ==
    \A c, d \in claims : c.key = d.key /\ clock < c.until /\ clock < d.until => c = d
AllAlone == \A c \in claims : c.alone

LEMMA AloneStep ==
  ASSUME OwnersInTurn', LeaseInv, AllAlone, [StoreNext]_storeVars
  PROVE  AllAlone'
<1>1. ASSUME NEW w \in Claimants, NEW k \in Ids, NEW f \in Ids, NEW time \in LeaseTimes,
             ClaimLease(w, k, f, time)
      PROVE  AllAlone'
  <2> DEFINE c0 == [who |-> w, key |-> k, until |-> clock + time,
                    alone |-> UnderWay(OwnerOf[w], k) = {}]
  <2>1. claims' = claims \cup {c0} /\ \A c \in claims : c.who # w
    BY <1>1 DEF ClaimLease
  <2>2. c0.who = w /\ c0.key = k
    OBVIOUS
  <2>3. UnderWay(OwnerOf[w], k) = {}
    <3> HIDE DEF c0
    <3>1. SUFFICES ASSUME NEW c \in claims, OwnerOf[c.who] = OwnerOf[w], c.key = k PROVE FALSE
      BY DEF UnderWay
    <3>2. c = c0
      BY <2>1, <2>2, <3>1 DEF OwnersInTurn
    <3> QED BY <2>1, <2>2, <3>2
  <2>4. c0.alone
    BY <2>3, Zenon
  <2> HIDE DEF c0
  <2> QED BY <2>1, <2>4, Zenon DEF AllAlone
<1>2. ASSUME claims' \subseteq claims PROVE AllAlone'
  BY <1>2 DEF AllAlone
<1>3. CASE RowNext
  <2>1. claims' = claims
    BY <1>3 DEF RowNext, Put, PutIfAbsent, Delete, PurgeBegin, PurgeRow, PurgeAgain,
                PurgeDelete, PurgeFails
  <2> QED BY <1>2, <2>1
<1>4. CASE LeaseNext
  <2>1. (\E w \in Claimants, k, f \in Ids, time \in LeaseTimes : ClaimLease(w, k, f, time))
        \/ claims' \subseteq claims
    BY <1>4 DEF LeaseNext, ReleaseLease, Increment, ProcessEnd, ReleaseLeft, Later
  <2> QED BY <1>1, <1>2, <2>1
<1>5. CASE UNCHANGED storeVars
  BY <1>2, <1>5 DEF storeVars
<1> QED BY <1>3, <1>4, <1>5 DEF StoreNext

\* Whoever finishes late, releases or starts again.
THEOREM LeasesExclude == StoreSpec /\ []OwnersInTurn => []Exclusive
<1>1. LeaseInv /\ AllAlone => Exclusive
  BY DEF LeaseInv, RowStands, OneRow, StaysAlone, Lasting, AllAlone, Exclusive
<1>2. StoreInit => AllAlone
  BY DEF StoreInit, AllAlone
<1>3. OwnersInTurn' /\ LeaseInv /\ AllAlone /\ [StoreNext]_storeVars => AllAlone'
  BY AloneStep
<1> QED BY <1>1, <1>2, <1>3, LeaseInitInv, LeaseStep, PTL DEF StoreSpec

-----------------------------------------------------------------------------
(* The store: a purge. *)

\* The loop's invariant.  What is connected follows from the seeds and is the seeds
\* with the keys of the selected rows, each of which is linked; when a pass has found
\* nothing so far, what it has read is selected or not linked.
Follows == \A ids \in SUBSET Ids : purge.seeds \subseteq ids /\ Closed(ids) => purge.connected \subseteq ids
SelectedLinked ==
    \A r \in purge.selected : r.key \in purge.connected /\ Linked(r, purge.connected)
ReadOrLinked ==
    ~purge.found => \A r \in records : r \in purge.rest \/ r \in purge.selected \/ ~Linked(r, purge.connected)
PurgeInv ==
    /\ StoreInv
    /\ purge.open => /\ purge.seeds \subseteq purge.connected
                     /\ Follows /\ SelectedLinked /\ ReadOrLinked

LEMMA PurgeInitInv == StoreInit => PurgeInv
  BY StoreInitInv, NoPurgeType DEF StoreInit, PurgeInv

\* More identifiers link more rows.
LEMMA LinkedMore ==
  ASSUME NEW r, NEW ids, NEW more, ids \subseteq more, Linked(r, ids) PROVE Linked(r, more)
  BY DEF Linked

\* Reading a row keeps the loop's invariant.
LEMMA PurgeRowKeeps ==
  ASSUME PurgeInv, NEW r \in purge.rest, PurgeRow(r)
  PROVE  purge.seeds \subseteq purge'.connected /\ purge'.seeds = purge.seeds
         /\ Follows' /\ SelectedLinked' /\ ReadOrLinked'
<1>1. /\ purge.open /\ purge \in PurgeType /\ records \subseteq Row /\ r \in records
      /\ records' = records /\ purge.selected \subseteq records
      /\ purge.seeds \subseteq purge.connected /\ Follows /\ SelectedLinked /\ ReadOrLinked
  BY DEF PurgeInv, StoreInv, StoreTypeOK, PurgeType, PurgeRow
<1>2. CASE r \notin purge.selected /\ Linked(r, purge.connected)
  <2>1. purge' = [purge EXCEPT !.rest = @ \ {r}, !.selected = @ \cup {r},
                               !.connected = @ \cup {r.key}, !.found = TRUE]
    BY <1>2 DEF PurgeRow
  <2>2. /\ purge'.seeds = purge.seeds /\ purge'.selected = purge.selected \cup {r}
        /\ purge'.connected = purge.connected \cup {r.key} /\ purge'.found = TRUE
    BY <1>1, <2>1 DEF PurgeType
  <2>3. Follows'
    <3> SUFFICES ASSUME NEW ids \in SUBSET Ids, purge.seeds \subseteq ids,
                        \A s \in records : Linked(s, ids) => s.key \in ids
                 PROVE  purge.connected \cup {r.key} \subseteq ids
      BY <1>1, <2>2 DEF Follows, Closed, Linked
    <3>1. purge.connected \subseteq ids BY <1>1 DEF Follows, Closed
    <3>2. Linked(r, ids) BY <1>2, <3>1, LinkedMore
    <3> QED BY <1>1, <3>1, <3>2
  <2>4. SelectedLinked'
    <3> SUFFICES ASSUME NEW s \in purge.selected \cup {r}
                 PROVE  s.key \in purge'.connected /\ Linked(s, purge'.connected)
      BY <2>2 DEF SelectedLinked, Linked
    <3>1. CASE s = r BY <2>2, <3>1 DEF Linked
    <3>2. CASE s \in purge.selected BY <1>1, <2>2, <3>2, LinkedMore DEF SelectedLinked
    <3> QED BY <3>1, <3>2
  <2> QED BY <1>1, <2>2, <2>3, <2>4 DEF ReadOrLinked
<1>3. CASE ~(r \notin purge.selected /\ Linked(r, purge.connected))
  <2>1. purge' = [purge EXCEPT !.rest = @ \ {r}]
    BY <1>3 DEF PurgeRow
  <2>2. /\ purge'.seeds = purge.seeds /\ purge'.selected = purge.selected
        /\ purge'.connected = purge.connected /\ purge'.found = purge.found
        /\ purge'.rest = purge.rest \ {r}
    BY <1>1, <2>1 DEF PurgeType
  <2>3. Follows' /\ SelectedLinked'
    BY <1>1, <2>2 DEF Follows, Closed, SelectedLinked, Linked
  <2>4. ReadOrLinked'
    BY <1>1, <1>3, <2>2 DEF ReadOrLinked, Linked
  <2> QED BY <1>1, <2>2, <2>3, <2>4
<1> QED BY <1>2, <1>3

LEMMA PurgeStep == ASSUME PurgeInv, [StoreNext]_storeVars PROVE PurgeInv'
<1>1. StoreInv' BY StoreStep DEF PurgeInv
<1>2. ASSUME ~purge'.open PROVE PurgeInv'
  BY <1>1, <1>2 DEF PurgeInv
<1>3. ASSUME purge' = purge, purge.open => records' = records PROVE PurgeInv'
  <2>1. CASE ~purge.open BY <1>1, <1>3, <2>1 DEF PurgeInv
  <2>2. CASE purge.open
    BY <1>1, <1>3, <2>2 DEF PurgeInv, Follows, Closed, SelectedLinked, ReadOrLinked, Linked
  <2> QED BY <2>1, <2>2
<1>4. ASSUME NEW n \in Namespaces, NEW k \in Ids, NEW refs \in SUBSET Ids,
             Put(n, k, refs) \/ PutIfAbsent(n, k, refs)
      PROVE  PurgeInv'
  BY <1>3, <1>4 DEF Put, PutIfAbsent
<1>5. ASSUME NEW n \in Namespaces, NEW k \in Ids, Delete(n, k) PROVE PurgeInv'
  BY <1>3, <1>5 DEF Delete
<1>6. ASSUME NEW seeds \in SUBSET Ids, PurgeBegin(seeds) PROVE PurgeInv'
  <2>1. /\ purge'.seeds = seeds /\ purge'.connected = seeds /\ purge'.selected = {}
        /\ purge'.rest = records /\ records' = records
    BY <1>6 DEF PurgeBegin
  <2>2. Follows' /\ SelectedLinked' /\ ReadOrLinked'
    BY <2>1 DEF Follows, SelectedLinked, ReadOrLinked
  <2> QED BY <1>1, <2>1, <2>2 DEF PurgeInv
<1>7. ASSUME NEW r \in purge.rest, PurgeRow(r) PROVE PurgeInv'
  <2>1. purge'.open BY <1>7, PurgeRowType DEF PurgeInv
  <2> QED BY <1>1, <1>7, <2>1, PurgeRowKeeps DEF PurgeInv
<1>8. CASE PurgeAgain
  <2>1. purge \in PurgeType /\ purge.open /\ records' = records
        /\ purge' = [purge EXCEPT !.rest = records, !.found = FALSE]
    BY <1>8 DEF PurgeAgain, PurgeInv, StoreInv, StoreTypeOK, PurgeType
  <2>2. /\ purge'.seeds = purge.seeds /\ purge'.connected = purge.connected
        /\ purge'.selected = purge.selected /\ purge'.rest = records /\ purge'.found = FALSE
    BY <2>1 DEF PurgeType
  <2>3. Follows' /\ SelectedLinked' /\ ReadOrLinked'
    BY <2>1, <2>2 DEF PurgeInv, Follows, Closed, SelectedLinked, ReadOrLinked, Linked
  <2> QED BY <1>1, <2>1, <2>2, <2>3 DEF PurgeInv
<1>9. CASE PurgeDelete
  BY <1>2, <1>9, NoPurgeType DEF PurgeDelete
<1>10. CASE PurgeFails
  BY <1>2, <1>10, NoPurgeType DEF PurgeFails
<1>11. ASSUME NEW w \in Claimants, NEW k \in Ids, NEW f \in Ids, NEW time \in LeaseTimes,
              ClaimLease(w, k, f, time)
       PROVE  PurgeInv'
  BY <1>3, <1>11 DEF ClaimLease
<1>12. ASSUME NEW c \in claims, ReleaseLease(c) PROVE PurgeInv'
  BY <1>3, <1>12 DEF ReleaseLease
<1>13. ASSUME NEW k \in Ids, Increment(k, 1) PROVE PurgeInv'
  BY <1>3, <1>13 DEF Increment
<1>14. ASSUME NEW o \in Owners, NEW k \in Ids, ReleaseLeft(o, k) PROVE PurgeInv'
  BY <1>3, <1>14 DEF ReleaseLeft
<1>15. CASE Later
  BY <1>3, <1>15 DEF Later
<1>16. CASE UNCHANGED storeVars
  BY <1>3, <1>16 DEF storeVars
<1>17. CASE RowNext
  BY <1>17, <1>4, <1>5, <1>6, <1>7, <1>8, <1>9, <1>10 DEF RowNext
<1>18. CASE LeaseNext
  <2>1. ASSUME NEW o \in Owners, ProcessEnd(o) PROVE PurgeInv'
    BY <1>3, <2>1 DEF ProcessEnd
  <2> QED BY <1>18, <2>1, <1>11, <1>12, <1>13, <1>14, <1>15 DEF LeaseNext
<1> QED BY <1>16, <1>17, <1>18 DEF StoreNext

\* What a purge deletes is exactly what follows from its identifiers, for every table,
\* every order of its rows and however many passes it takes.
THEOREM PurgeExactAlways == StoreSpec => []PurgeExact
<1>1. PurgeInv => PurgeExact
  <2> SUFFICES ASSUME PurgeInv, Ended
               PROVE  /\ purge.connected = Reached(purge.seeds)
                      /\ purge.selected = {r \in records : Linked(r, Reached(purge.seeds))}
    BY DEF PurgeExact
  <2>1. /\ purge.open /\ purge.rest = {} /\ ~purge.found
        /\ purge.connected \subseteq Ids /\ purge.selected \subseteq records
        /\ purge.seeds \subseteq purge.connected /\ Follows /\ SelectedLinked
        /\ \A r \in records : r \in purge.selected \/ ~Linked(r, purge.connected)
    BY DEF PurgeInv, Ended, StoreInv, StoreTypeOK, ReadOrLinked
  <2>2. Closed(purge.connected)
    BY <2>1 DEF Closed, SelectedLinked
  <2>3. Reached(purge.seeds) \subseteq purge.connected
    BY <2>1, <2>2 DEF Reached
  <2>4. purge.connected \subseteq Reached(purge.seeds)
    BY <2>1 DEF Reached, Follows
  <2>5. purge.connected = Reached(purge.seeds)
    BY <2>3, <2>4
  <2>6. purge.selected = {r \in records : Linked(r, purge.connected)}
    BY <2>1 DEF SelectedLinked
  <2> QED BY <2>5, <2>6
<1> QED BY <1>1, PurgeInitInv, PurgeStep, PTL DEF StoreSpec

-----------------------------------------------------------------------------
(* The public record. *)

Drops == {"drop match", "drop events", "drop verdict"}
Writing ==
    \A i \in 1..Len(todo) :
        \/ todo[i].do \in {"open", "publish"}
        \/ i = 1 /\ todo[i].do = "event" /\ public[todo[i].match] # None
MayDrop(s, rows, results, kept) ==
    \/ s.do = "revise"
    \/ /\ s.do \in Drops
       /\ \E a \in kept :
             /\ s.do = "drop match" /\ rows[s.match] # None => a.public[s.match] = rows[s.match]
             /\ results[s.match] # None => a.verdicts[s.match] = results[s.match]
Dropping == \A i \in 1..Len(todo) : MayDrop(todo[i], public, verdicts, archive)

\* A call either publishes or drops, and drops only what the archive has as it is.
RecordInv == RecordTypeOK /\ (Writing \/ Dropping)

\* The order of a bracket, as the steps of a call.
LEMMA OrderType ==
  ASSUME NEW r \in {1, 2}
  PROVE  /\ Len(BracketOrder[r]) \in Nat
         /\ \A i \in 1..Len(BracketOrder[r]) : BracketOrder[r][i] \in Matches
         /\ DOMAIN BracketOrder[r] = 1..Len(BracketOrder[r])
<1>1. BracketOrder[r] \in Seq(Matches)
  BY RecordAssumption
<1> QED BY <1>1

LEMMA LoopSteps ==
  ASSUME NEW r \in {1, 2}, NEW kind \in {"open", "publish"},
         todo' = [i \in DOMAIN BracketOrder[r] |-> [do |-> kind, match |-> BracketOrder[r][i]]]
  PROVE  todo' \in Seq(Steps) /\ Writing'
<1> DEFINE n == Len(BracketOrder[r])
<1>1. /\ n \in Nat /\ DOMAIN BracketOrder[r] = 1..n
      /\ \A i \in 1..n : BracketOrder[r][i] \in Matches
  BY OrderType
<1> HIDE DEF n
<1>2. \A i \in 1..n : [do |-> kind, match |-> BracketOrder[r][i]] \in Steps
  BY <1>1 DEF Steps
<1>3. todo' = [i \in 1..n |-> [do |-> kind, match |-> BracketOrder[r][i]]]
  BY <1>1
<1>4. todo' \in Seq(Steps) /\ Len(todo') = n
  BY <1>1, <1>2, <1>3
<1>5. \A i \in 1..n : todo'[i].do = kind
  <2> SUFFICES ASSUME NEW i \in 1..n PROVE todo'[i].do = kind
    OBVIOUS
  <2>1. todo'[i] = [do |-> kind, match |-> BracketOrder[r][i]] BY <1>3
  <2> QED BY <2>1
<1> QED BY <1>4, <1>5 DEF Writing

LEMMA RecordInitInv == RecordInit => RecordInv
<1> SUFFICES ASSUME RecordInit PROVE RecordInv
  OBVIOUS
<1>1. public \in [Matches -> MatchRows \cup {None}]
  BY DEF RecordInit
<1>2. log \in [Matches -> Logs]
  <2> SUFFICES ASSUME NEW m \in Matches PROVE log[m] \in Logs
    BY DEF RecordInit
  <2>1. CASE public[m] = None
    <3>1. log[m] = <<>> BY <2>1 DEF RecordInit
    <3> QED BY <3>1, RecordAssumption DEF Logs
  <2>2. CASE public[m] # None
    <3>1. log[m] = <<public[m].state>> BY <2>2 DEF RecordInit
    <3>2. public[m].state \in {"SCHEDULED", "JUDGING", "RETRYABLE", "FINALIZED"}
      BY <1>1, <2>2 DEF MatchRows
    <3> QED BY <3>1, <3>2, RecordAssumption DEF Logs
  <2> QED BY <2>1, <2>2
<1>3. todo = <<>> BY DEF RecordInit
<1>4. todo \in Seq(Steps) /\ Writing
  BY <1>3 DEF Writing
<1>5. verdicts \in [Matches -> Verdicts \cup {None}]
  <2>1. verdicts = [m \in Matches |-> None] BY DEF RecordInit
  <2> QED BY <2>1
<1>6. revision \in {1, 2} /\ settling \in 0..2
  <2>1. revision = 1 /\ settling = 0 BY DEF RecordInit
  <2> QED BY <2>1, SMT
<1>7. over \in BOOLEAN /\ migrating \in BOOLEAN
  BY DEF RecordInit
<1> QED BY <1>1, <1>2, <1>4, <1>5, <1>6, <1>7 DEF RecordInv, RecordTypeOK

\* The steps after the first keep what they are.
LEMMA TailKeeps ==
  ASSUME RecordInv, todo # <<>>, todo' = Tail(todo), public' = public, verdicts' = verdicts,
         archive' = archive
  PROVE  todo' \in Seq(Steps) /\ (Writing' \/ Dropping')
<1>1. todo \in Seq(Steps) BY DEF RecordInv, RecordTypeOK
<1>2. /\ todo' \in Seq(Steps) /\ Len(todo') = Len(todo) - 1 /\ Len(todo) \in Nat /\ Len(todo) >= 1
      /\ \A i \in 1..Len(todo') : todo'[i] = todo[i + 1] /\ i + 1 \in 1..Len(todo)
  BY <1>1
<1>3. Writing => Writing'
  BY <1>2 DEF Writing
<1>4. Dropping => Dropping'
  BY <1>2 DEF Dropping
<1>5. Writing \/ Dropping BY DEF RecordInv
<1>6. todo' \in Seq(Steps) BY <1>2
<1> QED BY <1>3, <1>4, <1>5, <1>6

\* With nothing to write both hold.
LEMMA NothingToDo == ASSUME todo' = <<>> PROVE todo' \in Seq(Steps) /\ Writing'
<1>1. todo' \in Seq(Steps) /\ Len(todo') = 0 BY SMT
<1> QED BY <1>1 DEF Writing

\* What the first step is tells what the call does.
LEMMA FirstStep ==
  ASSUME RecordInv, todo # <<>>
  PROVE  /\ todo \in Seq(Steps) /\ Len(todo) \in Nat /\ Len(todo) >= 1 /\ todo[1] \in Steps
         /\ todo[1].do \in {"open", "publish", "event"} => Writing /\ todo[1].match \in Matches
         /\ todo[1].do \in Drops => Dropping /\ todo[1].match \in Matches
<1>1. todo \in Seq(Steps) BY DEF RecordInv, RecordTypeOK
<1>2. Len(todo) \in Nat /\ Len(todo) >= 1 /\ todo[1] \in Steps
  BY <1>1
<1>3. 1 \in 1..Len(todo) BY <1>2
<1>4. todo[1].do \in {"open", "publish", "event"} => Writing
  <2>1. Dropping => todo[1].do \in Drops \cup {"revise"} BY <1>3 DEF Dropping, MayDrop
  <2> QED BY <2>1 DEF RecordInv, Drops
<1>5. todo[1].do \in Drops => Dropping
  BY <1>3 DEF Writing, Drops, RecordInv
<1>6. todo[1].do # "revise" => todo[1].match \in Matches
  BY <1>2 DEF Steps
<1> QED BY <1>1, <1>2, <1>4, <1>5, <1>6 DEF Drops

\* The row a step publishes is a row.
LEMMA StoredType ==
  ASSUME RecordInv, NEW s \in Steps, s.match \in Matches, NEW offered \in MatchRows
  PROVE  /\ Stored(s.match, offered) \in MatchRows
         /\ Stored(s.match, offered).state = offered.state
         /\ Stored(s.match, offered).winner = offered.winner
<1> DEFINE row == Stored(s.match, offered)
           more == offered.staged \/ (public[s.match] # None /\ public[s.match].staged)
<1>1. row = [offered EXCEPT !.staged = more] BY DEF Stored
<1>2. offered.staged \in BOOLEAN BY DEF MatchRows
<1>3. more \in BOOLEAN
  <2>1. public[s.match] \in MatchRows \cup {None} BY DEF RecordInv, RecordTypeOK
  <2>2. public[s.match] # None => public[s.match].staged \in BOOLEAN BY <2>1 DEF MatchRows
  <2> QED BY <1>2, <2>2
<1> HIDE DEF more, row
<1>4. CASE offered \in [state : {"SCHEDULED", "JUDGING", "RETRYABLE"}, winner : {None}, staged : BOOLEAN]
  <2>1. row \in [state : {"SCHEDULED", "JUDGING", "RETRYABLE"}, winner : {None}, staged : BOOLEAN]
        /\ row.state = offered.state /\ row.winner = offered.winner
    BY <1>1, <1>3, <1>4
  <2> QED BY <2>1 DEF MatchRows, row
<1>5. CASE offered \in [state : {"FINALIZED"}, winner : Sides, staged : BOOLEAN]
  <2>1. row \in [state : {"FINALIZED"}, winner : Sides, staged : BOOLEAN]
        /\ row.state = offered.state /\ row.winner = offered.winner
    BY <1>1, <1>3, <1>5
  <2> QED BY <2>1 DEF MatchRows, row
<1> QED BY <1>4, <1>5 DEF MatchRows

\* Publishing a match.
LEMMA PublishKeeps ==
  ASSUME RecordInv, NEW offered \in MatchRows, PublishMatch(offered)
  PROVE  public' \in [Matches -> MatchRows \cup {None}] /\ todo' \in Seq(Steps) /\ Writing'
<1> DEFINE m == todo[1].match
           row == Stored(m, offered)
<1>1. /\ todo # <<>> /\ todo[1].do \in {"open", "publish"}
      /\ IF MatchRefused(m, row) THEN todo' = <<>> /\ public' = public
         ELSE /\ public' = [public EXCEPT ![m] = row]
              /\ todo' = IF Logged(m, row) THEN [todo EXCEPT ![1].do = "event"] ELSE Tail(todo)
  BY DEF PublishMatch, Idle
<1>2. /\ todo \in Seq(Steps) /\ Len(todo) \in Nat /\ Len(todo) >= 1 /\ todo[1] \in Steps
      /\ Writing /\ m \in Matches
  BY <1>1, FirstStep
<1>3. row \in MatchRows BY <1>2, StoredType
<1>4. public \in [Matches -> MatchRows \cup {None}] BY DEF RecordInv, RecordTypeOK
<1> HIDE DEF m, row
<1>5. public' \in [Matches -> MatchRows \cup {None}]
  BY <1>1, <1>2, <1>3, <1>4
<1>6. CASE todo' = <<>> BY <1>5, <1>6, NothingToDo
<1>7. CASE todo' = Tail(todo)
  <2>1. /\ todo' \in Seq(Steps) /\ Len(todo') = Len(todo) - 1
        /\ \A i \in 1..Len(todo') : todo'[i] = todo[i + 1] /\ i + 1 \in 1..Len(todo)
    BY <1>2, <1>7
  <2>2. Writing' BY <1>2, <2>1 DEF Writing
  <2> QED BY <1>5, <2>1, <2>2
<1>8. CASE todo' = [todo EXCEPT ![1].do = "event"] /\ public' = [public EXCEPT ![m] = row]
  <2>1. [todo[1] EXCEPT !.do = "event"] \in Steps /\ [todo[1] EXCEPT !.do = "event"].do = "event"
        /\ [todo[1] EXCEPT !.do = "event"].match = m
    BY <1>1, <1>2 DEF Steps, m
  <2>2. todo' = [todo EXCEPT ![1] = [todo[1] EXCEPT !.do = "event"]]
    BY <1>8
  <2>3. todo' \in Seq(Steps) /\ Len(todo') = Len(todo)
    BY <1>2, <2>1, <2>2
  <2>4. \A i \in 1..Len(todo) : todo'[i] = IF i = 1 THEN [todo[1] EXCEPT !.do = "event"] ELSE todo[i]
    BY <1>2, <2>2
  <2>5. todo'[1].do = "event" /\ todo'[1].match = m
    <3>1. 1 \in 1..Len(todo) BY <1>2
    <3>2. todo'[1] = [todo[1] EXCEPT !.do = "event"] BY <2>4, <3>1
    <3> QED BY <2>1, <3>2
  <2>6. public'[m] # None
    BY <1>2, <1>3, <1>4, <1>8, RecordAssumption
  <2>7. \A i \in 1..Len(todo') : i # 1 => todo'[i].do \in {"open", "publish"}
    BY <1>2, <2>3, <2>4 DEF Writing
  <2>8. Writing'
    BY <2>5, <2>6, <2>7 DEF Writing
  <2> QED BY <1>5, <2>3, <2>8
<1> QED BY <1>1, <1>6, <1>7, <1>8

\* An event is appended, and at the limit the oldest goes.
LEMMA EventKeeps ==
  ASSUME RecordInv, WriteEvent
  PROVE  log' \in [Matches -> Logs]
<1> DEFINE S == {"SCHEDULED", "JUDGING", "RETRYABLE", "FINALIZED"}
           m == todo[1].match
           all == Append(log[m], public[m].state)
           kept == IF Len(all) <= MaxEvents THEN all ELSE Tail(all)
<1>1. todo # <<>> /\ todo[1].do = "event" /\ log' = [log EXCEPT ![m] = kept]
  BY DEF WriteEvent, Idle
<1>2. m \in Matches /\ Writing /\ Len(todo) \in Nat /\ Len(todo) >= 1 BY <1>1, FirstStep
<1>3. log \in [Matches -> Logs] /\ public[m] \in MatchRows \cup {None}
  BY <1>2 DEF RecordInv, RecordTypeOK
<1>4. log[m] \in Seq(S) /\ Len(log[m]) <= MaxEvents /\ MaxEvents \in Nat \ {0}
  BY <1>2, <1>3, RecordAssumption DEF Logs
<1>5. public[m] # None BY <1>1, <1>2 DEF Writing
<1>6. public[m].state \in S BY <1>3, <1>5 DEF MatchRows
<1> HIDE DEF m, S
<1>7. kept \in Seq(S) /\ Len(kept) <= MaxEvents
  BY <1>4, <1>6
<1>8. kept \in Logs BY <1>7 DEF Logs, S
<1> QED BY <1>1, <1>2, <1>3, <1>8

\* Another step in the place of the first.
LEMMA FirstChanged ==
  ASSUME NEW s \in Seq(Steps), s # <<>>, NEW step \in Steps, NEW t, t = [s EXCEPT ![1] = step]
  PROVE  /\ t \in Seq(Steps) /\ Len(t) = Len(s)
         /\ \A i \in 1..Len(s) : t[i] = IF i = 1 THEN step ELSE s[i]
OBVIOUS

\* The steps after the first.
LEMMA RestOfSteps ==
  ASSUME NEW s \in Seq(Steps), s # <<>>
  PROVE  /\ Tail(s) \in Seq(Steps)
         /\ \A i \in 1..Len(Tail(s)) : Tail(s)[i] = s[i + 1] /\ i + 1 \in 1..Len(s)
         /\ \A i \in 1..Len(s) : s[i] \in Steps
         /\ 1 \in 1..Len(s)
OBVIOUS

\* What is dropped is in the archive, and what is left to drop stays so.
LEMMA DropKeeps ==
  ASSUME RecordInv, todo # <<>>, todo[1].do \in Drops,
         NEW step \in Steps, step.do \in {"drop events", "drop verdict"},
         step.match = todo[1].match,
         archive' = archive,
         \A m \in Matches : public'[m] = public[m] \/ public'[m] = None,
         \A m \in Matches : verdicts'[m] = verdicts[m] \/ verdicts'[m] = None,
         todo' = Tail(todo) \/ todo' = [todo EXCEPT ![1] = step]
  PROVE  todo' \in Seq(Steps) /\ Dropping'
<1>1. todo \in Seq(Steps) /\ Dropping /\ todo[1].match \in Matches
  BY FirstStep
<1>2. ASSUME NEW s \in Steps, MayDrop(s, public, verdicts, archive)
      PROVE  MayDrop(s, public', verdicts', archive')
  <2>1. CASE s.do = "revise" BY <2>1 DEF MayDrop
  <2>2. CASE s.do # "revise"
    <3>1. s.match \in Matches BY <2>2 DEF Steps
    <3>2. PICK a \in archive :
            /\ s.do = "drop match" /\ public[s.match] # None => a.public[s.match] = public[s.match]
            /\ verdicts[s.match] # None => a.verdicts[s.match] = verdicts[s.match]
      BY <1>2, <2>2 DEF MayDrop
    <3>3. s.do \in Drops BY <1>2, <2>2 DEF MayDrop
    <3> QED BY <3>1, <3>2, <3>3 DEF MayDrop
  <2> QED BY <2>1, <2>2
<1>3. \A i \in 1..Len(todo) : MayDrop(todo[i], public', verdicts', archive')
  <2>1. \A i \in 1..Len(todo) : todo[i] \in Steps
    BY <1>1, RestOfSteps
  <2>2. \A i \in 1..Len(todo) : MayDrop(todo[i], public, verdicts, archive)
    BY ONLY <1>1 DEF Dropping
  <2> QED BY ONLY <1>2, <2>1, <2>2
<1>4. CASE todo' = Tail(todo)
  <2>1. /\ todo' \in Seq(Steps)
        /\ \A i \in 1..Len(todo') : todo'[i] = todo[i + 1] /\ i + 1 \in 1..Len(todo)
    BY <1>1, <1>4, RestOfSteps
  <2>2. \A i \in 1..Len(todo') : MayDrop(todo'[i], public', verdicts', archive')
    BY ONLY <1>3, <2>1
  <2> QED BY <2>1, <2>2 DEF Dropping
<1>5. CASE todo' = [todo EXCEPT ![1] = step]
  <2>1. /\ todo' \in Seq(Steps) /\ Len(todo') = Len(todo)
        /\ \A i \in 1..Len(todo) : todo'[i] = IF i = 1 THEN step ELSE todo[i]
    BY ONLY <1>1, <1>5, FirstChanged, todo # <<>>, step \in Steps
  <2>2. MayDrop(todo[1], public', verdicts', archive')
    <3>1. 1 \in 1..Len(todo) BY <1>1, RestOfSteps
    <3> QED BY ONLY <1>3, <3>1
  <2>3. MayDrop(step, public', verdicts', archive')
    BY <2>2 DEF MayDrop, Drops
  <2>4. \A i \in 1..Len(todo') : MayDrop(todo'[i], public', verdicts', archive')
    BY ONLY <1>3, <2>1, <2>3
  <2> QED BY <2>1, <2>4 DEF Dropping
<1> QED BY <1>4, <1>5

\* The archive has everything there is when a migration begins to drop.
LEMMA ArchiveKeeps ==
  ASSUME RecordInv, NEW sameSecond \in BOOLEAN, ArchiveTournamentMatches(sameSecond)
  PROVE  todo' \in Seq(Steps) /\ Dropping' /\ (archive # {} => archive' = archive)
<1> DEFINE n == Len(BracketOrder[1])
           step(i) == IF i <= n THEN [do |-> "drop match", match |-> BracketOrder[1][i]]
                      ELSE [do |-> "revise"]
<1>1. /\ archive' = {Archived} /\ public' = public /\ verdicts' = verdicts
      /\ todo' = [i \in 1..n + 1 |-> step(i)]
      /\ archive # {} => archive = {Archived}
  BY DEF ArchiveTournamentMatches
<1>2. n \in Nat /\ \A i \in 1..n : BracketOrder[1][i] \in Matches
  BY OrderType
<1> HIDE DEF n
<1>3. Archived.public = public /\ Archived.verdicts = verdicts
  BY DEF Archived
<1>4. ASSUME NEW i \in 1..n + 1 PROVE step(i) \in Steps /\ MayDrop(step(i), public, verdicts, {Archived})
  <2>1. CASE i <= n
    <3>1. step(i) = [do |-> "drop match", match |-> BracketOrder[1][i]] /\ BracketOrder[1][i] \in Matches
      BY <1>2, <2>1
    <3> QED BY <1>3, <3>1 DEF Steps, MayDrop, Drops
  <2>2. CASE ~(i <= n)
    <3>1. step(i) = [do |-> "revise"] BY <2>2
    <3> QED BY <3>1 DEF Steps, MayDrop
  <2> QED BY <2>1, <2>2
<1> HIDE DEF step
<1>5. todo' \in Seq(Steps) /\ Len(todo') = n + 1 /\ \A i \in 1..n + 1 : todo'[i] = step(i)
  BY <1>1, <1>2, <1>4
<1>6. Dropping'
  BY <1>1, <1>4, <1>5 DEF Dropping
<1> QED BY <1>1, <1>5, <1>6

LEMMA RecordStep == ASSUME RecordInv, [RecordNext]_recordVars PROVE RecordInv'
<1>0. /\ public \in [Matches -> MatchRows \cup {None}] /\ log \in [Matches -> Logs]
      /\ verdicts \in [Matches -> Verdicts \cup {None}]
      /\ revision \in {1, 2} /\ settling \in {0, 1, 2} /\ over \in BOOLEAN /\ migrating \in BOOLEAN
      /\ todo \in Seq(Steps) /\ (Writing \/ Dropping)
  BY SMT DEF RecordInv, RecordTypeOK
<1>a. ASSUME /\ public' \in [Matches -> MatchRows \cup {None}] /\ log' \in [Matches -> Logs]
             /\ verdicts' \in [Matches -> Verdicts \cup {None}]
             /\ revision' \in {1, 2} /\ settling' \in {0, 1, 2} /\ over' \in BOOLEAN /\ migrating' \in BOOLEAN
             /\ todo' \in Seq(Steps) /\ (Writing' \/ Dropping')
      PROVE  RecordInv'
  <2>1. settling' \in 0..2 BY <1>a, SMT
  <2> QED BY <1>a, <2>1 DEF RecordInv, RecordTypeOK
<1>1. ASSUME NEW final \in BOOLEAN, Refresh(final) PROVE RecordInv'
  <2>1. todo' \in Seq(Steps) /\ Writing'
    BY <1>0, <1>1, LoopSteps DEF Refresh, OpenBracket
  <2> QED BY <1>0, <1>a, <1>1, <2>1 DEF Refresh
<1>2. CASE PublishMatchProgress
  <2>1. todo' \in Seq(Steps) /\ Writing'
    BY <1>0, <1>2, LoopSteps DEF PublishMatchProgress
  <2> QED BY <1>0, <1>a, <1>2, <2>1 DEF PublishMatchProgress
<1>3. CASE SettleBegin
  <2>1. todo' = <<>> BY <1>3 DEF SettleBegin, Idle
  <2> QED BY <1>0, <1>a, <1>3, <2>1, NothingToDo DEF SettleBegin
<1>4. CASE SettleEnd
  <2>1. settling \in {1, 2} BY <1>0, <1>4 DEF SettleEnd
  <2>2. todo' \in Seq(Steps) /\ Writing'
    BY <1>4, <2>1, LoopSteps DEF SettleEnd, OpenBracket
  <2> QED BY <1>0, <1>a, <1>4, <2>1, <2>2 DEF SettleEnd
<1>5. CASE SettleFail
  <2>1. todo' = <<>> BY <1>5 DEF SettleFail, Idle
  <2> QED BY <1>0, <1>a, <1>5, <2>1, NothingToDo DEF SettleFail
<1>6. ASSUME NEW m \in Matches, NEW v \in Verdicts, PublishVerdict(m, v) PROVE RecordInv'
  <2>1. todo' = <<>> BY <1>6 DEF PublishVerdict, Idle
  <2>2. verdicts' \in [Matches -> Verdicts \cup {None}]
    BY <1>0, <1>6 DEF PublishVerdict
  <2> QED BY <1>0, <1>a, <1>6, <2>1, <2>2, NothingToDo DEF PublishVerdict
<1>7. ASSUME NEW sameSecond \in BOOLEAN, ArchiveTournamentMatches(sameSecond) PROVE RecordInv'
  <2>1. todo' \in Seq(Steps) /\ Dropping' BY <1>7, ArchiveKeeps
  <2> QED BY <1>0, <1>a, <1>7, <2>1 DEF ArchiveTournamentMatches
<1>8. CASE SkipMatch
  <2>1. todo' \in Seq(Steps) /\ (Writing' \/ Dropping')
    BY <1>8, TailKeeps DEF SkipMatch, Idle
  <2> QED BY <1>0, <1>a, <1>8, <2>1 DEF SkipMatch
<1>9. ASSUME NEW offered \in MatchRows, PublishMatch(offered) PROVE RecordInv'
  <2>1. /\ public' \in [Matches -> MatchRows \cup {None}] /\ todo' \in Seq(Steps) /\ Writing'
    BY <1>9, PublishKeeps
  <2> QED BY <1>0, <1>a, <1>9, <2>1 DEF PublishMatch
<1>10. CASE WriteEvent
  <2>1. log' \in [Matches -> Logs] BY <1>10, EventKeeps
  <2>2. todo' \in Seq(Steps) /\ (Writing' \/ Dropping')
    BY <1>10, TailKeeps DEF WriteEvent, Idle
  <2> QED BY <1>0, <1>a, <1>10, <2>1, <2>2 DEF WriteEvent
<1>11. CASE DropMatch
  <2>1. /\ todo # <<>> /\ todo[1].do \in Drops /\ archive' = archive /\ verdicts' = verdicts
        /\ public' = [public EXCEPT ![todo[1].match] = None]
        /\ todo' = [todo EXCEPT ![1].do = "drop events"]
    BY <1>11 DEF DropMatch, Idle, Drops
  <2>2. /\ public' \in [Matches -> MatchRows \cup {None}]
        /\ \A m \in Matches : public'[m] = public[m] \/ public'[m] = None
    BY <1>0, <2>1
  <2>3. [todo[1] EXCEPT !.do = "drop events"] \in Steps
        /\ [todo[1] EXCEPT !.do = "drop events"].do = "drop events"
        /\ [todo[1] EXCEPT !.do = "drop events"].match = todo[1].match
    BY <2>1, FirstStep DEF Steps, Drops
  <2>4. todo' = [todo EXCEPT ![1] = [todo[1] EXCEPT !.do = "drop events"]]
    BY <2>1
  <2>5. todo' \in Seq(Steps) /\ Dropping' BY <2>1, <2>2, <2>3, <2>4, DropKeeps
  <2> QED BY <1>0, <1>a, <1>11, <2>2, <2>5 DEF DropMatch
<1>12. CASE DropEvents
  <2>1. /\ todo # <<>> /\ todo[1].do \in Drops /\ archive' = archive /\ verdicts' = verdicts
        /\ public' = public /\ log' = [log EXCEPT ![todo[1].match] = <<>>]
        /\ todo' = [todo EXCEPT ![1].do = "drop verdict"]
    BY <1>12 DEF DropEvents, Idle, Drops
  <2>2. <<>> \in Logs BY RecordAssumption DEF Logs
  <2>3. log' \in [Matches -> Logs] BY <1>0, <2>1, <2>2
  <2>4. [todo[1] EXCEPT !.do = "drop verdict"] \in Steps
        /\ [todo[1] EXCEPT !.do = "drop verdict"].do = "drop verdict"
        /\ [todo[1] EXCEPT !.do = "drop verdict"].match = todo[1].match
    BY <2>1, FirstStep DEF Steps, Drops
  <2>5. todo' = [todo EXCEPT ![1] = [todo[1] EXCEPT !.do = "drop verdict"]]
    BY <2>1
  <2>6. todo' \in Seq(Steps) /\ Dropping' BY <2>1, <2>4, <2>5, DropKeeps
  <2> QED BY <1>0, <1>a, <1>12, <2>3, <2>6 DEF DropEvents
<1>13. CASE DropVerdict
  <2>1. /\ todo # <<>> /\ todo[1].do \in Drops /\ archive' = archive /\ public' = public
        /\ verdicts' = [verdicts EXCEPT ![todo[1].match] = None]
        /\ todo' = Tail(todo)
    BY <1>13 DEF DropVerdict, Idle, Drops
  <2>2. /\ verdicts' \in [Matches -> Verdicts \cup {None}]
        /\ \A m \in Matches : verdicts'[m] = verdicts[m] \/ verdicts'[m] = None
    BY <1>0, <2>1
  <2>3. todo[1] \in Steps /\ todo[1].do = "drop verdict"
    BY <1>13, <2>1, FirstStep DEF DropVerdict
  <2>4. todo' \in Seq(Steps) /\ Dropping' BY <2>1, <2>2, <2>3, DropKeeps
  <2> QED BY <1>0, <1>a, <1>13, <2>2, <2>4 DEF DropVerdict
<1>14. CASE WriteRevision
  <2>1. todo' \in Seq(Steps) /\ (Writing' \/ Dropping')
    BY <1>14, TailKeeps DEF WriteRevision, Idle
  <2> QED BY <1>0, <1>a, <1>14, <2>1 DEF WriteRevision
<1>15. CASE ProcessCrash
  <2>1. todo' \in Seq(Steps) /\ Writing' BY <1>15, NothingToDo DEF ProcessCrash
  <2> QED BY <1>0, <1>a, <1>15, <2>1 DEF ProcessCrash
<1>16. CASE Deploy
  <2>1. todo' = <<>> BY <1>16 DEF Deploy, Idle
  <2> QED BY <1>0, <1>a, <1>16, <2>1, NothingToDo DEF Deploy
<1>17. CASE UNCHANGED recordVars
  BY <1>17 DEF recordVars, RecordInv, RecordTypeOK, Writing, Dropping
<1> QED
  BY <1>1, <1>2, <1>3, <1>4, <1>5, <1>6, <1>7, <1>8, <1>9, <1>10, <1>11, <1>12, <1>13, <1>14,
     <1>15, <1>16, <1>17
  DEF RecordNext

\* The tables of the public record hold rows, logs of bounded length and verdicts.
THEOREM RecordTyped == RecordSpec => []RecordTypeOK
<1>1. RecordInv => RecordTypeOK
  BY DEF RecordInv
<1> QED BY <1>1, RecordInitInv, RecordStep, PTL DEF RecordSpec

\* The row and the verdict of a match, before and after a step.
RowKept(m, rows, kept) ==
    public[m] # None /\ public[m].state = "FINALIZED" =>
        \/ rows[m] # None /\ rows[m].state = "FINALIZED" /\ rows[m].winner = public[m].winner
        \/ \E a \in kept : a.public[m] = public[m]
VerdictKept(m, results, kept) ==
    verdicts[m] # None =>
        \/ results[m] # None /\ CanEnrichVerdict(verdicts[m], results[m])
        \/ \E a \in kept : a.verdicts[m] = verdicts[m]

\* A final row is published again only as it is.
LEMMA FinalRowKept ==
  ASSUME RecordInv, NEW offered \in MatchRows, PublishMatch(offered)
  PROVE  \A m \in Matches : RowKept(m, public', archive')
<1> DEFINE n == todo[1].match
           row == Stored(n, offered)
<1>1. /\ todo # <<>> /\ todo[1].do \in {"open", "publish"}
      /\ public' = public \/ (~MatchRefused(n, row) /\ public' = [public EXCEPT ![n] = row])
  BY DEF PublishMatch, Idle
<1>2. todo[1] \in Steps /\ n \in Matches
  BY <1>1, FirstStep
<1>3. row \in MatchRows BY <1>2, StoredType
<1>4. public \in [Matches -> MatchRows \cup {None}] BY DEF RecordInv, RecordTypeOK
<1> HIDE DEF n, row
<1>5. CASE public' = public
  BY <1>5 DEF RowKept
<1>6. CASE ~MatchRefused(n, row) /\ public' = [public EXCEPT ![n] = row]
  <2> SUFFICES ASSUME NEW m \in Matches, public[m] # None, public[m].state = "FINALIZED"
               PROVE  public'[m] # None /\ public'[m].state = "FINALIZED"
                      /\ public'[m].winner = public[m].winner
    BY DEF RowKept
  <2>1. CASE m # n BY <1>4, <1>6, <2>1
  <2>2. CASE m = n
    <3>1. public'[m] = row BY <1>4, <1>6, <2>2
    <3>2. row # None BY <1>3, RecordAssumption
    <3>3. public[n] = row \/ [public[n] EXCEPT !.staged = TRUE] = row
      BY <1>6, <2>2 DEF MatchRefused, Terminal
    <3>4. public[n] \in [state : {"FINALIZED"}, winner : Sides, staged : BOOLEAN]
      BY <1>4, <2>2 DEF MatchRows
    <3>5. row.state = public[n].state /\ row.winner = public[n].winner
      BY <3>3, <3>4
    <3> QED BY <2>2, <3>1, <3>2, <3>5
  <2> QED BY <2>1, <2>2
<1> QED BY <1>1, <1>5, <1>6

\* A verdict keeps its facts.
LEMMA SameVerdict == ASSUME NEW v PROVE CanEnrichVerdict(v, v)
  BY DEF CanEnrichVerdict

\* What was shown as final is not taken back.
LEMMA RecordKeeps == ASSUME RecordInv, [RecordNext]_recordVars PROVE ResultsKept
<1>1. ASSUME archive # {} => archive' = archive,
             \A m \in Matches : RowKept(m, public', archive'),
             \A m \in Matches : VerdictKept(m, verdicts', archive')
      PROVE  ResultsKept
  BY <1>1 DEF ResultsKept, RowKept, VerdictKept
<1>2. public' = public => \A m \in Matches : RowKept(m, public', archive')
  BY DEF RowKept
<1>3. verdicts' = verdicts => \A m \in Matches : VerdictKept(m, verdicts', archive')
  BY SameVerdict DEF VerdictKept
<1>4. ASSUME public' = public, verdicts' = verdicts, archive # {} => archive' = archive
      PROVE  ResultsKept
  BY <1>1, <1>2, <1>3, <1>4
<1>5. ASSUME NEW final \in BOOLEAN, Refresh(final) PROVE ResultsKept
  BY <1>4, <1>5 DEF Refresh
<1>6. ASSUME NEW m \in Matches, NEW v \in Verdicts, PublishVerdict(m, v) PROVE ResultsKept
  <2>1. /\ archive' = archive /\ public' = public
        /\ verdicts[m] # None => CanEnrichVerdict(verdicts[m], v)
        /\ verdicts' = [verdicts EXCEPT ![m] = v]
    BY <1>6 DEF PublishVerdict
  <2>2. verdicts \in [Matches -> Verdicts \cup {None}] BY DEF RecordInv, RecordTypeOK
  <2>3. v # None BY <1>6, RecordAssumption
  <2>4. ASSUME NEW n \in Matches PROVE VerdictKept(n, verdicts', archive')
    <3>1. CASE n = m BY <2>1, <2>2, <2>3, <3>1 DEF VerdictKept
    <3>2. CASE n # m
      <4>1. verdicts'[n] = verdicts[n] BY <2>1, <2>2, <3>2
      <4> QED BY <4>1, SameVerdict DEF VerdictKept
    <3> QED BY <3>1, <3>2
  <2> QED BY <1>1, <1>2, <2>1, <2>4
<1>7. ASSUME NEW sameSecond \in BOOLEAN, ArchiveTournamentMatches(sameSecond) PROVE ResultsKept
  <2>1. archive # {} => archive' = archive BY <1>7, ArchiveKeeps
  <2> QED BY <1>4, <1>7, <2>1 DEF ArchiveTournamentMatches
<1>8. ASSUME NEW offered \in MatchRows, PublishMatch(offered) PROVE ResultsKept
  <2>1. verdicts' = verdicts /\ archive' = archive BY <1>8 DEF PublishMatch
  <2> QED BY <1>1, <1>3, <1>8, <2>1, FinalRowKept
<1>9. CASE DropMatch
  <2>1. /\ todo # <<>> /\ todo[1].do = "drop match" /\ archive' = archive /\ verdicts' = verdicts
        /\ public' = [public EXCEPT ![todo[1].match] = None]
    BY <1>9 DEF DropMatch, Idle
  <2>2. todo[1].match \in Matches /\ Dropping BY <2>1, FirstStep DEF Drops
  <2>3. MayDrop(todo[1], public, verdicts, archive)
    BY <2>1, <2>2, FirstStep, RestOfSteps DEF Dropping
  <2>4. public[todo[1].match] # None =>
          \E a \in archive : a.public[todo[1].match] = public[todo[1].match]
    BY <2>1, <2>3 DEF MayDrop, Drops
  <2>5. ASSUME NEW m \in Matches PROVE RowKept(m, public', archive')
    <3>1. CASE m = todo[1].match BY <2>1, <2>4, <3>1 DEF RowKept
    <3>2. CASE m # todo[1].match
      <4>1. public'[m] = public[m] BY <2>1, <3>2 DEF RecordInv, RecordTypeOK
      <4> QED BY <4>1 DEF RowKept
    <3> QED BY <3>1, <3>2
  <2> QED BY <1>1, <1>3, <2>1, <2>5
<1>10. CASE DropVerdict
  <2>1. /\ todo # <<>> /\ todo[1].do = "drop verdict" /\ archive' = archive /\ public' = public
        /\ verdicts' = [verdicts EXCEPT ![todo[1].match] = None]
    BY <1>10 DEF DropVerdict, Idle
  <2>2. todo[1].match \in Matches /\ Dropping BY <2>1, FirstStep DEF Drops
  <2>3. MayDrop(todo[1], public, verdicts, archive)
    BY <2>1, <2>2, FirstStep, RestOfSteps DEF Dropping
  <2>4. verdicts[todo[1].match] # None =>
          \E a \in archive : a.verdicts[todo[1].match] = verdicts[todo[1].match]
    BY <2>1, <2>3 DEF MayDrop, Drops
  <2>5. ASSUME NEW m \in Matches PROVE VerdictKept(m, verdicts', archive')
    <3>1. CASE m = todo[1].match BY <2>1, <2>4, <3>1 DEF VerdictKept
    <3>2. CASE m # todo[1].match
      <4>1. verdicts'[m] = verdicts[m] BY <2>1, <3>2 DEF RecordInv, RecordTypeOK
      <4> QED BY <4>1, SameVerdict DEF VerdictKept
    <3> QED BY <3>1, <3>2
  <2> QED BY <1>1, <1>2, <2>1, <2>5
<1>11. CASE \/ PublishMatchProgress \/ SettleBegin \/ SettleEnd \/ SettleFail \/ SkipMatch
            \/ WriteEvent \/ DropEvents \/ WriteRevision \/ ProcessCrash \/ Deploy
            \/ UNCHANGED recordVars
  <2>1. public' = public /\ verdicts' = verdicts /\ archive' = archive
    BY <1>11
    DEF PublishMatchProgress, SettleBegin, SettleEnd, SettleFail, SkipMatch, WriteEvent,
        DropEvents, WriteRevision, ProcessCrash, Deploy, recordVars
  <2> QED BY <1>4, <2>1
<1> QED BY <1>5, <1>6, <1>7, <1>8, <1>9, <1>10, <1>11 DEF RecordNext

\* A result the public was shown is not taken back, for every bracket, every order of
\* reports and every place where the process ends.
THEOREM NothingIsLost == RecordSpec => NothingLost
<1>1. RecordInv /\ [RecordNext]_recordVars => ResultsKept
  BY RecordKeeps
<1>2. RecordInv => RecordTypeOK
  BY DEF RecordInv
<1> QED BY <1>1, <1>2, RecordInitInv, RecordStep, PTL DEF RecordSpec, NothingLost

-----------------------------------------------------------------------------
(* The sale of an agent.  What the service believes of a listing lags behind *)
(* Arc, so the invariant keeps, for every row and for every snapshot being   *)
(* read, the facts of Arc that no step takes back.                           *)

Certificate == [owner : Users \cup {NoUser}, state : {"NONE", "ELIGIBLE", "APPROVED"}]
Creditors == Users \cup {Platform}

MarketTyped ==
    /\ certificate \in [Certificates -> Certificate]
    /\ intent \in [Certificates -> {"none", "prepared", "sent", "listed"}]
    /\ saleRow \in [Certificates -> ListingRow]
    /\ agentOwner \in Users
    /\ purchases \in [Certificates -> Seq(Purchase)]
    /\ \A c \in Certificates : Len(purchases[c]) <= MaxPurchases
    /\ reading \in [Readers -> Snapshot]
    /\ graceOver \subseteq Certificates
    /\ wallet \in [Certificates -> {"idle", "approved", "listed", "reverted"}]
    /\ cancelling \in [Certificates -> {"idle", "sent", "mined", "reverted"}]
    /\ eligibility \in [Certificates -> {"none", "approved", "consumed"}]
    /\ listing \in [Certificates -> ListingState]
    /\ payer \in [Certificates -> Users \cup {NoUser}]
    /\ nftOwner \in Users /\ nftApproved \in BOOLEAN
    /\ creditOf \in [Creditors -> Nat] /\ usdc \in [Accounts -> Nat]
    /\ expired \subseteq Certificates
    /\ saleRestarts \in 0..MaxSaleRestarts

\* A certificate, its intent, its listing on Arc and its row come in this order.
InOrder(c) ==
    /\ certificate[c].state # "NONE" => Seller(c) \in Users
    /\ intent[c] # "none" => certificate[c].state # "NONE"
    /\ wallet[c] # "idle" => intent[c] # "none"
    /\ listing[c] # "NONE" => wallet[c] = "listed"
    /\ saleRow[c].state # "NONE" => intent[c] = "listed"

\* Somebody's purchase was mined, and he is who bought the token of that listing.
Mined(c, u) == \E i \in DOMAIN purchases[c] : purchases[c][i].buyer = u /\ purchases[c][i].tx = "mined"
PaidFor(c) == listing[c] = "SOLD" => payer[c] \in Users /\ Mined(c, payer[c])
HasBought(u) == \E d \in Certificates : listing[d] = "SOLD" /\ payer[d] = u

\* A row names the last purchase begun, if any.
RowTrue(c) ==
    /\ saleRow[c].purchase \in {0, Len(purchases[c])}
    /\ saleRow[c].buyer # NoUser =>
          /\ saleRow[c].purchase \in DOMAIN purchases[c]
          /\ purchases[c][saleRow[c].purchase].buyer = saleRow[c].buyer
    /\ saleRow[c].state = "SOLD" =>
          listing[c] = "SOLD" /\ saleRow[c].buyer # NoUser /\ HasBought(saleRow[c].buyer)

\* A snapshot, however old, of a sold listing.
SnapshotTrue(r) ==
    reading[r] # NoRead =>
        /\ reading[r].of \in Certificates /\ intent[reading[r].of] = "listed"
        /\ reading[r].state # "none"
        /\ reading[r].state = "SOLD" =>
              /\ listing[reading[r].of] = "SOLD"
              /\ reading[r].owner # NoUser => HasBought(reading[r].owner)

\* Once it was sold, the token belongs to somebody who bought it.
TokenBought == (\E c \in Certificates : listing[c] = "SOLD") => HasBought(nftOwner)

MarketInv ==
    /\ MarketTyped /\ TokenBought /\ SalesWhole
    /\ \A c \in Certificates : InOrder(c) /\ PaidFor(c) /\ RowTrue(c)
    /\ \A r \in Readers : SnapshotTrue(r)

-----------------------------------------------------------------------------

LEMMA MarketInit == MarketplaceInit => MarketInv
<1> SUFFICES ASSUME MarketplaceInit PROVE MarketInv
  OBVIOUS
<1>1. MarketTyped
  <2>1. FirstOwner \in Users /\ MaxPurchases \in Nat /\ MaxSaleRestarts \in Nat /\ FundsOf \in [Users -> Nat]
    BY MarketplaceAssumption DEF MarketplaceAssumption
  <2>2. certificate \in [Certificates -> Certificate]
    BY DEF MarketplaceInit, Certificate
  <2>3. saleRow \in [Certificates -> ListingRow]
    BY <2>1 DEF MarketplaceInit, ListingRow, RowState
  <2>4. purchases \in [Certificates -> Seq(Purchase)]
    BY DEF MarketplaceInit
  <2>5. reading \in [Readers -> Snapshot]
    BY DEF MarketplaceInit, NoRead, Snapshot
  <2>6. creditOf \in [Creditors -> Nat] /\ usdc \in [Accounts -> Nat]
    BY <2>1 DEF MarketplaceInit, Creditors, Accounts
  <2>7. /\ intent \in [Certificates -> {"none", "prepared", "sent", "listed"}]
        /\ wallet \in [Certificates -> {"idle", "approved", "listed", "reverted"}]
        /\ cancelling \in [Certificates -> {"idle", "sent", "mined", "reverted"}]
        /\ eligibility \in [Certificates -> {"none", "approved", "consumed"}]
    BY DEF MarketplaceInit
  <2>8. /\ listing \in [Certificates -> ListingState]
        /\ payer \in [Certificates -> Users \cup {NoUser}]
        /\ agentOwner \in Users /\ nftOwner \in Users
        /\ graceOver \subseteq Certificates /\ expired \subseteq Certificates
    BY <2>1 DEF MarketplaceInit, ListingState
  <2>9. saleRestarts \in 0..MaxSaleRestarts
    BY <2>1 DEF MarketplaceInit
  <2>11. nftApproved \in BOOLEAN
    BY Zenon DEF MarketplaceInit
  <2>10. \A c \in Certificates : Len(purchases[c]) <= MaxPurchases
    BY <2>1 DEF MarketplaceInit
  <2> QED
    BY <2>2, <2>3, <2>4, <2>5, <2>6, <2>7, <2>8, <2>9, <2>10, <2>11 DEF MarketTyped
<1>2. SalesWhole
  <2>1. \A c \in Certificates : listing[c] # "SOLD"
    BY DEF MarketplaceInit
  <2>2. Cardinality({c \in Certificates : listing[c] = "SOLD"}) = 0
    BY <2>1, FS_EmptySet
  <2>3. ASSUME NEW u \in Users PROVE SoldBy(u) = 0 /\ BoughtBy(u) = 0
    BY <2>1, FS_EmptySet DEF SoldBy, BoughtBy
  <2>4. SumFunctionOnSet(creditOf, Creditors) = 0
    <3>1. IsFiniteSet(Creditors)
      BY MarketplaceAssumption, FS_AddElement DEF MarketplaceAssumption, Creditors
    <3>2. \A a \in Creditors : creditOf[a] = 0
      BY DEF MarketplaceInit, Creditors
    <3> QED
      BY <3>1, <3>2, SumZero
  <2>5. /\ Price \in Nat /\ Fee \in 0..Price /\ FundsOf \in [Users -> Nat]
        /\ Platform \notin Users /\ Market \notin Users /\ Market # Platform
    BY MarketplaceAssumption DEF MarketplaceAssumption
  <2>6. ASSUME NEW u \in Users
        PROVE  /\ usdc[u] + creditOf[u] = FundsOf[u] - Price * BoughtBy(u) + (Price - Fee) * SoldBy(u)
               /\ Owned(u, nftOwner) = Owned(u, FirstOwner) + BoughtBy(u) - SoldBy(u)
    <3>1. usdc[u] = FundsOf[u] /\ creditOf[u] = 0 /\ nftOwner = FirstOwner
      BY DEF MarketplaceInit, Accounts
    <3> QED
      BY <2>3, <2>5, <3>1 DEF Owned
  <2>7. usdc[Platform] = 0 /\ creditOf[Platform] = 0 /\ usdc[Market] = 0
    BY <2>5 DEF MarketplaceInit, Accounts
  <2> QED
    BY <2>2, <2>4, <2>5, <2>6, <2>7 DEF SalesWhole, Creditors
<1>3. ASSUME NEW c \in Certificates PROVE InOrder(c) /\ PaidFor(c) /\ RowTrue(c)
  BY DEF MarketplaceInit, InOrder, PaidFor, RowTrue
<1>4. \A r \in Readers : SnapshotTrue(r)
  BY DEF MarketplaceInit, SnapshotTrue
<1>5. TokenBought
  BY DEF MarketplaceInit, TokenBought
<1> QED
  BY <1>1, <1>2, <1>3, <1>4, <1>5 DEF MarketInv

-----------------------------------------------------------------------------
(* What most steps leave as it is. *)

\* Arc takes no sale back.
LEMMA BoughtForever ==
    ASSUME \A c \in Certificates : listing[c] = "SOLD" => listing'[c] = "SOLD" /\ payer'[c] = payer[c],
           NEW u, HasBought(u)
    PROVE  HasBought(u)'
BY DEF HasBought

\* The books change only with a sale or a withdrawal.
LEMMA BooksKept ==
    ASSUME SalesWhole, UNCHANGED <<creditOf, usdc, nftOwner>>,
           \A c \in Certificates : listing'[c] = "SOLD" <=> listing[c] = "SOLD",
           \A c \in Certificates : listing[c] = "SOLD" =>
               payer'[c] = payer[c] /\ certificate'[c].owner = certificate[c].owner
    PROVE  SalesWhole'
<1>1. {c \in Certificates : listing[c] = "SOLD"}' = {c \in Certificates : listing[c] = "SOLD"}
  OBVIOUS
<1>2. ASSUME NEW u \in Users PROVE SoldBy(u)' = SoldBy(u) /\ BoughtBy(u)' = BoughtBy(u)
  <2>1. {c \in Certificates : listing'[c] = "SOLD" /\ certificate'[c].owner = u}
          = {c \in Certificates : listing[c] = "SOLD" /\ certificate[c].owner = u}
    OBVIOUS
  <2>2. {c \in Certificates : listing'[c] = "SOLD" /\ payer'[c] = u}
          = {c \in Certificates : listing[c] = "SOLD" /\ payer[c] = u}
    OBVIOUS
  <2> QED
    BY <2>1, <2>2 DEF SoldBy, BoughtBy, Seller
<1> QED
  BY <1>1, <1>2 DEF SalesWhole, Owned
\* A step that leaves the sales on Arc as they are.
LEMMA ArcKept ==
    ASSUME MarketInv, UNCHANGED <<payer, nftOwner, creditOf, usdc>>,
           \A c \in Certificates : listing'[c] = "SOLD" <=> listing[c] = "SOLD",
           \A c \in Certificates : listing[c] = "SOLD" => certificate'[c].owner = certificate[c].owner
    PROVE  SalesWhole' /\ TokenBought'
<1>1. SalesWhole'
  BY BooksKept DEF MarketInv
<1>2. TokenBought'
  BY DEF MarketInv, TokenBought, HasBought
<1> QED
  BY <1>1, <1>2

\* Purchases that are answered, given up or sent keep their buyers, and what is mined stays so.
LEMMA PurchasesGoOn ==
    ASSUME MarketInv, UNCHANGED <<payer, saleRow>>,
           \A c \in Certificates : listing'[c] = "SOLD" <=> listing[c] = "SOLD",
           purchases' \in [Certificates -> Seq(Purchase)],
           \A c \in Certificates :
              /\ Len(purchases'[c]) = Len(purchases[c])
              /\ \A i \in 1..Len(purchases[c]) :
                    /\ purchases'[c][i].buyer = purchases[c][i].buyer
                    /\ purchases[c][i].tx = "mined" => purchases'[c][i].tx = "mined"
    PROVE  \A c \in Certificates : PaidFor(c)' /\ RowTrue(c)'
<1> SUFFICES ASSUME NEW c \in Certificates PROVE PaidFor(c)' /\ RowTrue(c)'
  OBVIOUS
<1>1. PaidFor(c) /\ RowTrue(c) /\ purchases[c] \in Seq(Purchase) /\ purchases'[c] \in Seq(Purchase)
  BY DEF MarketInv, MarketTyped
<1>2. /\ DOMAIN purchases[c] = 1..Len(purchases[c]) /\ DOMAIN purchases'[c] = 1..Len(purchases[c])
  BY <1>1
<1>3. PaidFor(c)'
  BY <1>1, <1>2 DEF PaidFor, Mined
<1>4. RowTrue(c)'
  BY <1>1, <1>2 DEF RowTrue, HasBought
<1> QED
  BY <1>3, <1>4

LEMMA PurchasesKept ==
    ASSUME MarketInv, UNCHANGED <<payer, purchases>>,
           \A c \in Certificates : listing'[c] = "SOLD" <=> listing[c] = "SOLD",
           \A c \in Certificates :
              /\ saleRow'[c].buyer = saleRow[c].buyer /\ saleRow'[c].purchase = saleRow[c].purchase
              /\ saleRow'[c].state = "SOLD" => saleRow[c].state = "SOLD"
    PROVE  \A c \in Certificates : PaidFor(c)' /\ RowTrue(c)'
BY DEF MarketInv, PaidFor, Mined, RowTrue, HasBought

\* A snapshot stays true while rows are only added and sales stand.
LEMMA SnapshotsKept ==
    ASSUME MarketInv, UNCHANGED <<payer, reading>>,
           \A c \in Certificates : listing'[c] = "SOLD" <=> listing[c] = "SOLD",
           \A c \in Certificates : intent[c] = "listed" => intent'[c] = "listed"
    PROVE  \A r \in Readers : SnapshotTrue(r)'
BY DEF MarketInv, SnapshotTrue, HasBought

LEMMA CreateEligibilityStep ==
    ASSUME MarketInv, NEW u \in Users, NEW c \in Certificates, CreateEligibility(u, c)
    PROVE  MarketInv'
<1>1. MarketTyped'
  BY  DEF MarketInv, MarketTyped, CreateEligibility, Certificate, service, traffic, arc
<1>2. \A d \in Certificates : InOrder(d)'
  BY DEF MarketInv, MarketTyped, InOrder, Seller, CreateEligibility, service, traffic, arc
<1>3. SalesWhole' /\ TokenBought'
  BY ArcKept DEF MarketInv, MarketTyped, InOrder, CreateEligibility, service, traffic, arc
<1>4. \A d \in Certificates : PaidFor(d)' /\ RowTrue(d)'
  BY PurchasesKept DEF CreateEligibility, service, traffic, arc
<1>5. \A r \in Readers : SnapshotTrue(r)'
  BY SnapshotsKept DEF CreateEligibility, service, traffic, arc
<1> QED
  BY <1>1, <1>2, <1>3, <1>4, <1>5 DEF MarketInv

LEMMA ApproveOnArcStep ==
    ASSUME MarketInv, NEW c \in Certificates, ApproveOnArc(c)
    PROVE  MarketInv'
<1>1. MarketTyped'
  BY  DEF MarketInv, MarketTyped, ApproveOnArc, service, traffic, arc
<1>2. \A d \in Certificates : InOrder(d)'
  BY DEF MarketInv, MarketTyped, InOrder, Seller, ApproveOnArc, service, traffic, arc
<1>3. SalesWhole' /\ TokenBought'
  BY ArcKept DEF MarketInv, MarketTyped, InOrder, ApproveOnArc, service, traffic, arc
<1>4. \A d \in Certificates : PaidFor(d)' /\ RowTrue(d)'
  BY PurchasesKept DEF ApproveOnArc, service, traffic, arc
<1>5. \A r \in Readers : SnapshotTrue(r)'
  BY SnapshotsKept DEF ApproveOnArc, service, traffic, arc
<1> QED
  BY <1>1, <1>2, <1>3, <1>4, <1>5 DEF MarketInv

LEMMA ApproveEligibilityStep ==
    ASSUME MarketInv, NEW c \in Certificates, ApproveEligibility(c)
    PROVE  MarketInv'
<1>1. MarketTyped'
  BY  DEF MarketInv, MarketTyped, ApproveEligibility, Certificate, service, traffic, arc
<1>2. \A d \in Certificates : InOrder(d)'
  BY DEF MarketInv, MarketTyped, InOrder, Seller, ApproveEligibility, service, traffic, arc
<1>3. SalesWhole' /\ TokenBought'
  BY ArcKept DEF MarketInv, MarketTyped, InOrder, ApproveEligibility, service, traffic, arc
<1>4. \A d \in Certificates : PaidFor(d)' /\ RowTrue(d)'
  BY PurchasesKept DEF ApproveEligibility, service, traffic, arc
<1>5. \A r \in Readers : SnapshotTrue(r)'
  BY SnapshotsKept DEF ApproveEligibility, service, traffic, arc
<1> QED
  BY <1>1, <1>2, <1>3, <1>4, <1>5 DEF MarketInv

LEMMA BeginListingStep ==
    ASSUME MarketInv, NEW c \in Certificates, BeginListing(c)
    PROVE  MarketInv'
<1>1. MarketTyped'
  BY  DEF MarketInv, MarketTyped, BeginListing, service, traffic, arc
<1>2. \A d \in Certificates : InOrder(d)'
  BY DEF MarketInv, MarketTyped, InOrder, Seller, BeginListing, service, traffic, arc
<1>3. SalesWhole' /\ TokenBought'
  BY ArcKept DEF MarketInv, MarketTyped, InOrder, BeginListing, service, traffic, arc
<1>4. \A d \in Certificates : PaidFor(d)' /\ RowTrue(d)'
  BY PurchasesKept DEF BeginListing, service, traffic, arc
<1>5. \A r \in Readers : SnapshotTrue(r)'
  BY SnapshotsKept DEF BeginListing, service, traffic, arc
<1> QED
  BY <1>1, <1>2, <1>3, <1>4, <1>5 DEF MarketInv

LEMMA ApproveTokenStep ==
    ASSUME MarketInv, NEW c \in Certificates, ApproveToken(c)
    PROVE  MarketInv'
<1>1. MarketTyped'
  BY  DEF MarketInv, MarketTyped, ApproveToken, service, traffic, arc
<1>2. \A d \in Certificates : InOrder(d)'
  BY DEF MarketInv, MarketTyped, InOrder, Seller, ApproveToken, service, traffic, arc
<1>3. SalesWhole' /\ TokenBought'
  BY ArcKept DEF MarketInv, MarketTyped, InOrder, ApproveToken, service, traffic, arc
<1>4. \A d \in Certificates : PaidFor(d)' /\ RowTrue(d)'
  BY PurchasesKept DEF ApproveToken, service, traffic, arc
<1>5. \A r \in Readers : SnapshotTrue(r)'
  BY SnapshotsKept DEF ApproveToken, service, traffic, arc
<1> QED
  BY <1>1, <1>2, <1>3, <1>4, <1>5 DEF MarketInv

LEMMA RecordListingStep ==
    ASSUME MarketInv, NEW c \in Certificates, RecordListingTransaction(c)
    PROVE  MarketInv'
<1>1. MarketTyped'
  BY  DEF MarketInv, MarketTyped, RecordListingTransaction, service, traffic, arc
<1>2. \A d \in Certificates : InOrder(d)'
  BY DEF MarketInv, MarketTyped, InOrder, Seller, RecordListingTransaction, service, traffic, arc
<1>3. SalesWhole' /\ TokenBought'
  BY ArcKept DEF MarketInv, MarketTyped, InOrder, RecordListingTransaction, service, traffic, arc
<1>4. \A d \in Certificates : PaidFor(d)' /\ RowTrue(d)'
  BY PurchasesKept DEF RecordListingTransaction, service, traffic, arc
<1>5. \A r \in Readers : SnapshotTrue(r)'
  BY SnapshotsKept DEF RecordListingTransaction, service, traffic, arc
<1> QED
  BY <1>1, <1>2, <1>3, <1>4, <1>5 DEF MarketInv

LEMMA GraceEndsStep ==
    ASSUME MarketInv, NEW c \in Certificates, GraceEnds(c)
    PROVE  MarketInv'
<1>1. MarketTyped'
  BY  DEF MarketInv, MarketTyped, GraceEnds, service, traffic, arc
<1>2. \A d \in Certificates : InOrder(d)'
  BY DEF MarketInv, MarketTyped, InOrder, Seller, GraceEnds, service, traffic, arc
<1>3. SalesWhole' /\ TokenBought'
  BY ArcKept DEF MarketInv, MarketTyped, InOrder, GraceEnds, service, traffic, arc
<1>4. \A d \in Certificates : PaidFor(d)' /\ RowTrue(d)'
  BY PurchasesKept DEF GraceEnds, service, traffic, arc
<1>5. \A r \in Readers : SnapshotTrue(r)'
  BY SnapshotsKept DEF GraceEnds, service, traffic, arc
<1> QED
  BY <1>1, <1>2, <1>3, <1>4, <1>5 DEF MarketInv

LEMMA ExpiresStep ==
    ASSUME MarketInv, NEW c \in Certificates, Expires(c)
    PROVE  MarketInv'
<1>1. MarketTyped'
  BY  DEF MarketInv, MarketTyped, Expires, service, traffic, arc
<1>2. \A d \in Certificates : InOrder(d)'
  BY DEF MarketInv, MarketTyped, InOrder, Seller, Expires, service, traffic, arc
<1>3. SalesWhole' /\ TokenBought'
  BY ArcKept DEF MarketInv, MarketTyped, InOrder, Expires, service, traffic, arc
<1>4. \A d \in Certificates : PaidFor(d)' /\ RowTrue(d)'
  BY PurchasesKept DEF Expires, service, traffic, arc
<1>5. \A r \in Readers : SnapshotTrue(r)'
  BY SnapshotsKept DEF Expires, service, traffic, arc
<1> QED
  BY <1>1, <1>2, <1>3, <1>4, <1>5 DEF MarketInv

LEMMA CreateListingStep ==
    ASSUME MarketInv, NEW c \in Certificates, CreateListing(c)
    PROVE  MarketInv'
<1>1. MarketTyped'
  BY DEF MarketInv, MarketTyped, ListingState, CreateListing, service, traffic, arc
<1>2. \A d \in Certificates : InOrder(d)'
  BY DEF MarketInv, MarketTyped, InOrder, Seller, CreateListing, service, traffic, arc
<1>3. SalesWhole' /\ TokenBought'
  BY ArcKept DEF MarketInv, MarketTyped, InOrder, CreateListing, service, traffic, arc
<1>4. \A d \in Certificates : PaidFor(d)' /\ RowTrue(d)'
  BY PurchasesKept DEF MarketInv, MarketTyped, InOrder, CreateListing, service, traffic, arc
<1>5. \A q \in Readers : SnapshotTrue(q)'
  BY SnapshotsKept DEF MarketInv, MarketTyped, InOrder, CreateListing, service, traffic, arc
<1> QED
  BY <1>1, <1>2, <1>3, <1>4, <1>5 DEF MarketInv

LEMMA FinishListingStep ==
    ASSUME MarketInv, NEW c \in Certificates, FinishListing(c)
    PROVE  MarketInv'
<1>1. MarketTyped'
  BY DEF MarketInv, MarketTyped, FinishListing, ListingRow, RowState, service, traffic, arc
<1>2. \A d \in Certificates : InOrder(d)'
  BY DEF MarketInv, MarketTyped, InOrder, Seller, FinishListing, service, traffic, arc
<1>3. SalesWhole' /\ TokenBought'
  BY ArcKept DEF MarketInv, MarketTyped, InOrder, FinishListing, service, traffic, arc
<1>4. \A d \in Certificates : PaidFor(d)' /\ RowTrue(d)'
  BY PurchasesKept DEF MarketInv, MarketTyped, FinishListing, service, traffic, arc
<1>5. \A q \in Readers : SnapshotTrue(q)'
  BY SnapshotsKept DEF MarketInv, MarketTyped, FinishListing, service, traffic, arc
<1> QED
  BY <1>1, <1>2, <1>3, <1>4, <1>5 DEF MarketInv

LEMMA BeginCancellationStep ==
    ASSUME MarketInv, NEW c \in Certificates, BeginCancellation(c)
    PROVE  MarketInv'
<1>1. MarketTyped'
  BY DEF MarketInv, MarketTyped, BeginCancellation, ListingRow, RowState, service, traffic, arc
<1>2. \A d \in Certificates : InOrder(d)'
  BY DEF MarketInv, MarketTyped, InOrder, Seller, BeginCancellation, service, traffic, arc
<1>3. SalesWhole' /\ TokenBought'
  BY ArcKept DEF MarketInv, MarketTyped, InOrder, BeginCancellation, service, traffic, arc
<1>4. \A d \in Certificates : PaidFor(d)' /\ RowTrue(d)'
  BY PurchasesKept DEF MarketInv, MarketTyped, BeginCancellation, service, traffic, arc
<1>5. \A q \in Readers : SnapshotTrue(q)'
  BY SnapshotsKept DEF MarketInv, MarketTyped, BeginCancellation, service, traffic, arc
<1> QED
  BY <1>1, <1>2, <1>3, <1>4, <1>5 DEF MarketInv

LEMMA CancelStep ==
    ASSUME MarketInv, NEW c \in Certificates, Cancel(c)
    PROVE  MarketInv'
<1>1. MarketTyped'
  BY DEF MarketInv, MarketTyped, Cancel, ListingState, service, traffic, arc
<1>2. \A d \in Certificates : InOrder(d)'
  BY DEF MarketInv, MarketTyped, InOrder, Seller, Cancel, service, traffic, arc
<1>3. SalesWhole' /\ TokenBought'
  BY ArcKept DEF MarketInv, MarketTyped, InOrder, Cancel, service, traffic, arc
<1>4. \A d \in Certificates : PaidFor(d)' /\ RowTrue(d)'
  BY PurchasesKept DEF MarketInv, MarketTyped, Cancel, service, traffic, arc
<1>5. \A q \in Readers : SnapshotTrue(q)'
  BY SnapshotsKept DEF MarketInv, MarketTyped, Cancel, service, traffic, arc
<1> QED
  BY <1>1, <1>2, <1>3, <1>4, <1>5 DEF MarketInv

LEMMA ReadListingStep ==
    ASSUME MarketInv, NEW r \in Readers, NEW c \in Certificates, ReadListing(r, c)
    PROVE  MarketInv'
<1>1. MarketTyped'
  BY DEF MarketInv, MarketTyped, ReadListing, Snapshot, ListingState, service, traffic, arc
<1>2. \A d \in Certificates : InOrder(d)'
  BY DEF MarketInv, MarketTyped, InOrder, Seller, ReadListing, service, traffic, arc
<1>3. SalesWhole' /\ TokenBought'
  BY ArcKept DEF MarketInv, MarketTyped, InOrder, ReadListing, service, traffic, arc
<1>4. \A d \in Certificates : PaidFor(d)' /\ RowTrue(d)'
  BY PurchasesKept DEF MarketInv, MarketTyped, ReadListing, service, traffic, arc
<1>5. \A q \in Readers : SnapshotTrue(q)'
  <2> SUFFICES ASSUME NEW q \in Readers PROVE SnapshotTrue(q)'
    OBVIOUS
  <2>1. CASE q # r
    <3>1. reading'[q] = reading[q] /\ UNCHANGED <<intent, listing, payer>>
      BY <2>1 DEF MarketInv, MarketTyped, ReadListing, service, arc
    <3> QED
      BY <3>1 DEF MarketInv, SnapshotTrue, HasBought
  <2>2. CASE q = r
    <3>1. PICK seen : /\ reading' = [reading EXCEPT ![r] = [of |-> c, state |-> seen, owner |-> NoUser]]
                      /\ seen \in {listing[c], "EXPIRED"}
      BY Zenon DEF ReadListing
    <3>2. reading'[q].of = c /\ reading'[q].state = seen /\ reading'[q].owner = NoUser
      BY <2>2, <3>1 DEF MarketInv, MarketTyped
    <3>3. seen # "none" /\ intent[c] = "listed" /\ UNCHANGED <<intent, listing>>
      BY <3>1 DEF MarketInv, MarketTyped, InOrder, ListingState, ReadListing, service, arc
    <3> QED
      BY <3>1, <3>2, <3>3 DEF SnapshotTrue
  <2> QED
    BY <2>1, <2>2
<1> QED
  BY <1>1, <1>2, <1>3, <1>4, <1>5 DEF MarketInv

LEMMA ReadOwnerStep ==
    ASSUME MarketInv, NEW r \in Readers, ReadOwner(r)
    PROVE  MarketInv'
<1>1. MarketTyped'
  <2>1. [reading[r] EXCEPT !.owner = nftOwner] \in Snapshot
    <3>1. reading[r] \in Snapshot /\ nftOwner \in Users
      BY DEF MarketInv, MarketTyped
    <3> QED
      BY <3>1 DEF Snapshot
  <2>2. reading' \in [Readers -> Snapshot]
    BY <2>1 DEF MarketInv, MarketTyped, ReadOwner
  <2> QED
    BY <2>2 DEF MarketInv, MarketTyped, ReadOwner, service, traffic, arc
<1>2. \A d \in Certificates : InOrder(d)'
  BY DEF MarketInv, MarketTyped, InOrder, Seller, ReadOwner, service, traffic, arc
<1>3. SalesWhole' /\ TokenBought'
  BY ArcKept DEF MarketInv, MarketTyped, InOrder, ReadOwner, service, traffic, arc
<1>4. \A d \in Certificates : PaidFor(d)' /\ RowTrue(d)'
  BY PurchasesKept DEF MarketInv, MarketTyped, ReadOwner, service, traffic, arc
<1>5. \A q \in Readers : SnapshotTrue(q)'
  BY DEF MarketInv, MarketTyped, ReadOwner, SnapshotTrue, TokenBought, HasBought, Snapshot, NoRead, service, traffic, arc
<1> QED
  BY <1>1, <1>2, <1>3, <1>4, <1>5 DEF MarketInv

\* A row that follows Arc to sold names the owner of the token, who bought it.
LEMMA PublishStep ==
    ASSUME MarketInv, NEW r \in Readers, Publish(r)
    PROVE  MarketInv'
<1>1. PICK snapshot \in Snapshot : snapshot = reading[r]
  BY DEF MarketInv, MarketTyped
<1>2. PICK c : c = snapshot.of
  OBVIOUS
<1>3. snapshot.owner \in Users /\ snapshot # NoRead
  <2>1. snapshot.owner # NoUser
    BY <1>1 DEF Publish
  <2> QED
    BY <2>1 DEF Snapshot, NoRead
<1>4. /\ c \in Certificates /\ intent[c] = "listed" /\ snapshot.state # "none"
      /\ snapshot.state = "SOLD" => listing[c] = "SOLD" /\ HasBought(snapshot.owner)
  <2>1. SnapshotTrue(r) /\ snapshot.owner # NoUser
    BY <1>1 DEF MarketInv, Publish
  <2> QED
    BY <1>1, <1>2, <1>3, <2>1 DEF SnapshotTrue
<1>5. /\ reading' = [reading EXCEPT ![r] = NoRead]
      /\ UNCHANGED <<certificate, intent, graceOver, purchases, wallet, cancelling, saleRestarts, arc>>
  BY DEF Publish
<1>6. PICK row \in ListingRow :
         /\ saleRow' = [saleRow EXCEPT ![c] = row]
         /\ row.purchase \in {0, saleRow[c].purchase}
         /\ row.buyer # NoUser => row.buyer = saleRow[c].buyer /\ row.purchase = saleRow[c].purchase
         /\ row.state = "SOLD" =>
               \/ row = saleRow[c]
               \/ row.buyer = snapshot.owner /\ snapshot.state = "SOLD"
         /\ agentOwner' \in Users
  <2>0. saleRow \in [Certificates -> ListingRow] /\ saleRow[c] \in ListingRow /\ agentOwner \in Users
    BY <1>4 DEF MarketInv, MarketTyped
  <2>1. CASE MayPublish(c, snapshot) /\ Follow(c, snapshot.state)
    <3>1. PICK row : row = [saleRow[c] EXCEPT !.state = snapshot.state]
      OBVIOUS
    <3>2. snapshot.state \in RowState
      BY <1>4 DEF Snapshot, ListingState, RowState
    <3>3. /\ row \in ListingRow /\ row.state = snapshot.state
          /\ row.buyer = saleRow[c].buyer /\ row.purchase = saleRow[c].purchase
      BY <2>0, <3>1, <3>2 DEF ListingRow
    <3>4. saleRow' = [saleRow EXCEPT ![c] = row]
      BY <2>1, <3>1 DEF Follow
    <3>5. snapshot.state = "SOLD" => saleRow[c].buyer = snapshot.owner
      BY <2>1 DEF MayPublish
    <3>6. agentOwner' \in Users
      BY <1>3, <2>0, <2>1, <3>5 DEF Follow
    <3> QED
      BY <3>3, <3>4, <3>5, <3>6
  <2>2. CASE Release(c)
    <3>1. [state |-> "ACTIVE", buyer |-> NoUser, purchase |-> 0] \in ListingRow
      BY MarketplaceAssumption DEF MarketplaceAssumption, ListingRow, RowState
    <3> QED
      BY <2>0, <2>2, <3>1 DEF Release
  <2>3. CASE UNCHANGED <<saleRow, agentOwner>>
    <3>1. saleRow' = [saleRow EXCEPT ![c] = saleRow[c]]
      BY <2>0, <2>3
    <3> QED
      BY <2>0, <2>3, <3>1
  <2> QED
    BY <1>1, <1>2, <2>1, <2>2, <2>3 DEF Publish
<1>7. \A d \in Certificates : saleRow'[d] = IF d = c THEN row ELSE saleRow[d]
  BY <1>4, <1>6 DEF MarketInv, MarketTyped
<1>8. MarketTyped'
  <2>1. NoRead \in Snapshot
    BY DEF NoRead, Snapshot
  <2>2. reading' \in [Readers -> Snapshot] /\ saleRow' \in [Certificates -> ListingRow]
    BY <1>4, <1>5, <1>6, <2>1 DEF MarketInv, MarketTyped
  <2> QED
    BY <1>5, <1>6, <2>2 DEF MarketInv, MarketTyped, arc
<1>9. \A d \in Certificates : InOrder(d)'
  BY <1>4, <1>5, <1>7 DEF MarketInv, InOrder, Seller, arc
<1>10. SalesWhole' /\ TokenBought'
  BY <1>5, ArcKept DEF arc
<1>11. ASSUME NEW d \in Certificates PROVE PaidFor(d)' /\ RowTrue(d)'
  <2>1. PaidFor(d)' /\ RowTrue(d)
    BY <1>5 DEF MarketInv, PaidFor, Mined, arc
  <2>2. CASE d # c
    <3>1. saleRow'[d] = saleRow[d]
      BY <1>7, <2>2
    <3> QED
      BY <1>5, <2>1, <3>1 DEF RowTrue, HasBought, arc
  <2>3. CASE d = c
    <3>1. saleRow'[d] = row
      BY <1>7, <2>3
    <3>2. \A u : HasBought(u) => HasBought(u)'
      BY <1>5 DEF HasBought, arc
    <3>3. row.state = "SOLD" =>
            listing[c] = "SOLD" /\ row.buyer # NoUser /\ HasBought(row.buyer)
      <4>1. CASE row = saleRow[c]
        BY <2>1, <2>3, <4>1 DEF RowTrue
      <4>2. CASE row # saleRow[c]
        BY <1>3, <1>4, <1>6, <4>2, MarketplaceAssumption DEF MarketplaceAssumption
      <4> QED
        BY <4>1, <4>2
    <3>4. /\ row.purchase \in {0, Len(purchases[c])}
          /\ row.buyer # NoUser =>
                row.purchase \in DOMAIN purchases[c] /\ purchases[c][row.purchase].buyer = row.buyer
      BY <1>6, <2>1, <2>3 DEF RowTrue
    <3>5. RowTrue(d)'
      BY <1>5, <2>3, <3>1, <3>2, <3>3, <3>4 DEF RowTrue, arc
    <3> QED
      BY <2>1, <3>5
  <2> QED
    BY <2>2, <2>3
<1>12. ASSUME NEW q \in Readers PROVE SnapshotTrue(q)'
  <2>1. reading'[q] = NoRead \/ reading'[q] = reading[q]
    BY <1>5 DEF MarketInv, MarketTyped
  <2> QED
    BY <1>5, <2>1 DEF MarketInv, SnapshotTrue, HasBought, arc
<1> QED
  BY <1>8, <1>9, <1>10, <1>11, <1>12 DEF MarketInv

-----------------------------------------------------------------------------
(* Purchases.                                                               *)

\* A purchase may be begun only while the row's keys have a number.
LEMMA RoomForPurchase ==
    ASSUME MarketTyped, NEW c \in Certificates, Begun < MaxPurchases
    PROVE  Len(purchases[c]) < MaxPurchases
<1> DEFINE Numbers == 1..MaxPurchases
           All == Certificates \X Numbers
           Keys == {p \in All : p[2] \in DOMAIN purchases[p[1]]}
           Mine == {c} \X Numbers
<1>1. MaxPurchases \in Nat /\ IsFiniteSet(Certificates)
  BY MarketplaceAssumption DEF MarketplaceAssumption
<1>2. Len(purchases[c]) \in Nat /\ Len(purchases[c]) <= MaxPurchases
      /\ DOMAIN purchases[c] = 1..Len(purchases[c])
  BY DEF MarketTyped
<1> SUFFICES ASSUME Len(purchases[c]) = MaxPurchases PROVE FALSE
  BY <1>1, <1>2
<1>3. Mine \subseteq Keys
  BY <1>2
<1>4. IsFiniteSet(Numbers) /\ Cardinality(Numbers) = MaxPurchases
  BY <1>1, FS_Interval
<1>5. IsFiniteSet(Keys)
  <2>1. IsFiniteSet(All)
    BY <1>1, <1>4, FS_Product
  <2>2. Keys \subseteq All
    OBVIOUS
  <2> QED
    BY <2>1, <2>2, FS_Subset
<1>6. Cardinality(Mine) = 1 * MaxPurchases
  <2>1. IsFiniteSet({c}) /\ Cardinality({c}) = 1
    BY FS_Singleton
  <2>2. Cardinality({c} \X Numbers) = Cardinality({c}) * Cardinality(Numbers)
    <3> HIDE DEF Numbers
    <3> QED
      BY <1>4, <2>1, FS_Product
  <2> QED
    BY <1>4, <2>1, <2>2
<1>7. Cardinality(Mine) <= Cardinality(Keys)
  BY <1>3, <1>5, FS_Subset
<1>8. Begun = Cardinality(Keys) /\ Cardinality(Keys) \in Nat
  BY <1>5, FS_CardinalityType DEF Begun
<1> HIDE DEF Mine, Keys
<1> QED
  BY <1>1, <1>6, <1>7, <1>8

\* One purchase changes in place.
LEMMA OnePurchase ==
    ASSUME MarketTyped, NEW c \in Certificates, NEW i \in DOMAIN purchases[c], NEW p \in Purchase,
           p.buyer = purchases[c][i].buyer,
           purchases[c][i].tx = "mined" => p.tx = "mined",
           purchases' = [purchases EXCEPT ![c][i] = p]
    PROVE  /\ purchases' \in [Certificates -> Seq(Purchase)]
           /\ \A d \in Certificates :
                 /\ Len(purchases'[d]) = Len(purchases[d])
                 /\ \A j \in 1..Len(purchases[d]) :
                       /\ purchases'[d][j].buyer = purchases[d][j].buyer
                       /\ purchases[d][j].tx = "mined" => purchases'[d][j].tx = "mined"
           /\ purchases'[c][i] = p
<1>1. PICK mine : mine = [purchases[c] EXCEPT ![i] = p]
  OBVIOUS
<1>2. purchases \in [Certificates -> Seq(Purchase)] /\ purchases[c] \in Seq(Purchase)
  BY DEF MarketTyped
<1>3. mine \in Seq(Purchase) /\ Len(mine) = Len(purchases[c])
  BY <1>1, <1>2, ExceptSeq
<1>4. purchases' = [purchases EXCEPT ![c] = mine]
  BY <1>1
<1>5. purchases' \in [Certificates -> Seq(Purchase)]
  BY <1>2, <1>3, <1>4
<1>6. \A d \in Certificates : purchases'[d] = IF d = c THEN mine ELSE purchases[d]
  BY <1>2, <1>4
<1>7. DOMAIN purchases[c] = 1..Len(purchases[c])
  BY <1>2
<1>8. \A j \in 1..Len(purchases[c]) : mine[j] = IF j = i THEN p ELSE purchases[c][j]
  BY <1>1, <1>2, <1>7
<1> QED
  BY <1>3, <1>5, <1>6, <1>7, <1>8

LEMMA SendPurchaseStep ==
    ASSUME MarketInv, NEW c \in Certificates, NEW i \in DOMAIN purchases[c], SendPurchase(c, i)
    PROVE  MarketInv'
<1>0. UNCHANGED <<service, reading, wallet, cancelling, saleRestarts, arc>>
  BY DEF SendPurchase
<1>1. PICK p \in Purchase :
         /\ purchases' = [purchases EXCEPT ![c][i] = p]
         /\ p.buyer = purchases[c][i].buyer
         /\ purchases[c][i].tx = "mined" => p.tx = "mined"
  <2>1. PICK was \in Purchase : was = purchases[c][i]
    BY DEF MarketInv, MarketTyped
  <2>2. PICK p : p = IF usdc[was.buyer] >= Price THEN [was EXCEPT !.tx = "sent"]
                     ELSE [was EXCEPT !.awaited = FALSE]
    OBVIOUS
  <2>3. p \in Purchase /\ p.buyer = was.buyer
    <3>1. [was EXCEPT !.tx = "sent"] \in Purchase /\ [was EXCEPT !.tx = "sent"].buyer = was.buyer
      BY DEF Purchase
    <3>2. /\ [was EXCEPT !.awaited = FALSE] \in Purchase
          /\ [was EXCEPT !.awaited = FALSE].buyer = was.buyer
      BY DEF Purchase
    <3> QED
      BY <2>2, <3>1, <3>2
  <2>4. was.tx = "none" /\ purchases' = [purchases EXCEPT ![c][i] = p]
    BY <2>1, <2>2 DEF SendPurchase
  <2> QED
    BY <2>1, <2>3, <2>4
<1>2. /\ purchases' \in [Certificates -> Seq(Purchase)]
      /\ \A d \in Certificates :
            /\ Len(purchases'[d]) = Len(purchases[d])
            /\ \A j \in 1..Len(purchases[d]) :
                  /\ purchases'[d][j].buyer = purchases[d][j].buyer
                  /\ purchases[d][j].tx = "mined" => purchases'[d][j].tx = "mined"
  BY <1>1, OnePurchase DEF MarketInv
<1>3. MarketTyped'
  BY <1>0, <1>2 DEF MarketInv, MarketTyped, service, arc
<1>4. \A d \in Certificates : InOrder(d)'
  BY <1>0 DEF MarketInv, InOrder, Seller, service, arc
<1>5. SalesWhole' /\ TokenBought'
  BY <1>0, ArcKept DEF service, arc
<1>6. \A d \in Certificates : PaidFor(d)' /\ RowTrue(d)'
  BY <1>0, <1>2, PurchasesGoOn DEF service, arc
<1>7. \A q \in Readers : SnapshotTrue(q)'
  BY <1>0, SnapshotsKept DEF service, arc
<1> QED
  BY <1>3, <1>4, <1>5, <1>6, <1>7 DEF MarketInv

LEMMA PurchaseAnsweredStep ==
    ASSUME MarketInv, NEW c \in Certificates, NEW i \in DOMAIN purchases[c], PurchaseAnswered(c, i)
    PROVE  MarketInv'
<1>0. UNCHANGED <<service, reading, wallet, cancelling, saleRestarts, arc>>
  BY DEF PurchaseAnswered
<1>1. PICK p \in Purchase :
         /\ purchases' = [purchases EXCEPT ![c][i] = p]
         /\ p.buyer = purchases[c][i].buyer
         /\ purchases[c][i].tx = "mined" => p.tx = "mined"
  <2>1. PICK was \in Purchase : was = purchases[c][i]
    BY DEF MarketInv, MarketTyped
  <2>2. PICK p : p = [was EXCEPT !.awaited = FALSE]
    OBVIOUS
  <2>3. p \in Purchase /\ p.buyer = was.buyer /\ p.tx = was.tx
    BY <2>2 DEF Purchase
  <2>4. purchases' = [purchases EXCEPT ![c][i] = p]
    BY <2>1, <2>2 DEF PurchaseAnswered
  <2> QED
    BY <2>1, <2>3, <2>4
<1>2. /\ purchases' \in [Certificates -> Seq(Purchase)]
      /\ \A d \in Certificates :
            /\ Len(purchases'[d]) = Len(purchases[d])
            /\ \A j \in 1..Len(purchases[d]) :
                  /\ purchases'[d][j].buyer = purchases[d][j].buyer
                  /\ purchases[d][j].tx = "mined" => purchases'[d][j].tx = "mined"
  BY <1>1, OnePurchase DEF MarketInv
<1>3. MarketTyped'
  BY <1>0, <1>2 DEF MarketInv, MarketTyped, service, arc
<1>4. \A d \in Certificates : InOrder(d)'
  BY <1>0 DEF MarketInv, InOrder, Seller, service, arc
<1>5. SalesWhole' /\ TokenBought'
  BY <1>0, ArcKept DEF service, arc
<1>6. \A d \in Certificates : PaidFor(d)' /\ RowTrue(d)'
  BY <1>0, <1>2, PurchasesGoOn DEF service, arc
<1>7. \A q \in Readers : SnapshotTrue(q)'
  BY <1>0, SnapshotsKept DEF service, arc
<1> QED
  BY <1>3, <1>4, <1>5, <1>6, <1>7 DEF MarketInv

LEMMA BeginPurchaseStep ==
    ASSUME MarketInv, NEW u \in Users, NEW c \in Certificates, BeginPurchase(u, c)
    PROVE  MarketInv'
<1>0. UNCHANGED <<certificate, intent, agentOwner, reading, wallet, cancelling, saleRestarts, arc>>
  BY DEF BeginPurchase
<1>1. \A d \in Certificates : PaidFor(d) /\ RowTrue(d) /\ InOrder(d)
  BY DEF MarketInv
<1>2. /\ purchases \in [Certificates -> Seq(Purchase)] /\ saleRow \in [Certificates -> ListingRow]
      /\ graceOver \subseteq Certificates
      /\ \A d \in Certificates : Len(purchases[d]) <= MaxPurchases /\ Len(purchases[d]) \in Nat
      /\ MaxPurchases \in Nat /\ NoUser \notin Users
  BY MarketplaceAssumption DEF MarketInv, MarketTyped, MarketplaceAssumption
<1>3. /\ \A d \in Certificates : saleRow'[d].state = "NONE" <=> saleRow[d].state = "NONE"
      /\ MarketTyped'
      /\ \A d \in Certificates : PaidFor(d)' /\ RowTrue(d)'
  <2>1. CASE /\ saleRow[c].state = "ACTIVE" /\ Begun < MaxPurchases
             /\ purchases' = [purchases EXCEPT ![c] =
                                 Append(@, [buyer |-> u, awaited |-> TRUE, tx |-> "none"])]
             /\ saleRow' = [saleRow EXCEPT ![c] = [state |-> "BUY_SUBMITTED", buyer |-> u,
                                               purchase |-> Len(purchases[c]) + 1]]
             /\ graceOver' = graceOver \ {c}
    <3>1. PICK p : p = [buyer |-> u, awaited |-> TRUE, tx |-> "none"]
      OBVIOUS
    <3>2. p \in Purchase /\ p.buyer = u
      BY <3>1 DEF Purchase
    <3>3. PICK mine : mine = Append(purchases[c], p)
      OBVIOUS
    <3>4. /\ mine \in Seq(Purchase) /\ Len(mine) = Len(purchases[c]) + 1
          /\ \A j \in 1..Len(purchases[c]) : mine[j] = purchases[c][j]
          /\ mine[Len(purchases[c]) + 1] = p
      BY <1>2, <3>2, <3>3, AppendProperties
    <3>5. Len(purchases[c]) < MaxPurchases
      BY <2>1, RoomForPurchase DEF MarketInv
    <3>6. PICK row : row = [state |-> "BUY_SUBMITTED", buyer |-> u, purchase |-> Len(purchases[c]) + 1]
      OBVIOUS
    <3>7. row \in ListingRow /\ row.state = "BUY_SUBMITTED" /\ row.buyer = u /\ row.purchase = Len(purchases[c]) + 1
      BY <1>2, <3>5, <3>6 DEF ListingRow, RowState
    <3>8. /\ purchases' = [purchases EXCEPT ![c] = mine]
          /\ saleRow' = [saleRow EXCEPT ![c] = row]
      BY <2>1, <3>1, <3>3, <3>6
    <3>9. /\ \A d \in Certificates : purchases'[d] = IF d = c THEN mine ELSE purchases[d]
          /\ \A d \in Certificates : saleRow'[d] = IF d = c THEN row ELSE saleRow[d]
      BY <1>2, <3>8
    <3>10. MarketTyped'
      <4>1. purchases' \in [Certificates -> Seq(Purchase)] /\ saleRow' \in [Certificates -> ListingRow]
        BY <1>2, <3>4, <3>7, <3>8
      <4>2. \A d \in Certificates : Len(purchases'[d]) <= MaxPurchases
        BY <1>2, <3>4, <3>5, <3>9
      <4>3. graceOver' \subseteq Certificates
        BY <1>2, <2>1
      <4> QED
        BY <1>0, <4>1, <4>2, <4>3 DEF MarketInv, MarketTyped, arc
    <3>11. ASSUME NEW d \in Certificates PROVE PaidFor(d)' /\ RowTrue(d)'
      <4>1. CASE d # c
        <5>1. purchases'[d] = purchases[d] /\ saleRow'[d] = saleRow[d]
          BY <3>9, <4>1
        <5> QED
          BY <1>0, <1>1, <5>1 DEF PaidFor, Mined, RowTrue, HasBought, arc
      <4>2. CASE d = c
        <5>1. purchases'[d] = mine /\ saleRow'[d] = row
          BY <3>9, <4>2
        <5>2. DOMAIN mine = 1..(Len(purchases[c]) + 1) /\ DOMAIN purchases[c] = 1..Len(purchases[c])
          BY <1>2, <3>4
        <5>3. PaidFor(d)'
          <6> SUFFICES ASSUME listing[c] = "SOLD"
                       PROVE  payer[c] \in Users /\ \E j \in DOMAIN mine : mine[j].buyer = payer[c] /\ mine[j].tx = "mined"
            BY <1>0, <4>2, <5>1 DEF PaidFor, Mined, arc
          <6>1. payer[c] \in Users /\ Mined(c, payer[c])
            BY <1>1 DEF PaidFor
          <6>2. PICK j \in DOMAIN purchases[c] : purchases[c][j].buyer = payer[c] /\ purchases[c][j].tx = "mined"
            BY <6>1 DEF Mined
          <6>3. j \in DOMAIN mine /\ mine[j] = purchases[c][j]
            BY <1>2, <3>4, <5>2
          <6> QED
            BY <6>1, <6>2, <6>3
        <5>4. RowTrue(d)'
          BY <1>2, <3>2, <3>4, <3>7, <5>1, <5>2 DEF RowTrue
        <5> QED
          BY <5>3, <5>4
      <4> QED
        BY <4>1, <4>2
    <3>12. \A d \in Certificates : saleRow'[d].state = "NONE" <=> saleRow[d].state = "NONE"
      BY <2>1, <3>7, <3>9
    <3> QED
      BY <3>10, <3>11, <3>12
  <2>2. CASE /\ saleRow[c].state = "BUY_SUBMITTED" /\ saleRow[c].buyer = u
             /\ purchases' = [purchases EXCEPT ![c][saleRow[c].purchase].awaited = TRUE]
             /\ UNCHANGED <<saleRow, graceOver>>
    <3>1. PICK i \in DOMAIN purchases[c] : i = saleRow[c].purchase
      BY <1>1, <1>2, <2>2 DEF RowTrue
    <3>2. PICK was \in Purchase : was = purchases[c][i]
      BY <1>2
    <3>3. PICK p : p = [was EXCEPT !.awaited = TRUE]
      OBVIOUS
    <3>4. p \in Purchase /\ p.buyer = was.buyer /\ p.tx = was.tx
      BY <3>3 DEF Purchase
    <3>5. purchases' = [purchases EXCEPT ![c][i] = p]
      BY <2>2, <3>1, <3>2, <3>3
    <3>6. /\ purchases' \in [Certificates -> Seq(Purchase)]
          /\ \A d \in Certificates :
                /\ Len(purchases'[d]) = Len(purchases[d])
                /\ \A j \in 1..Len(purchases[d]) :
                      /\ purchases'[d][j].buyer = purchases[d][j].buyer
                      /\ purchases[d][j].tx = "mined" => purchases'[d][j].tx = "mined"
      BY <3>2, <3>4, <3>5, OnePurchase DEF MarketInv
    <3>7. MarketTyped'
      BY <1>0, <2>2, <3>6 DEF MarketInv, MarketTyped, arc
    <3>8. \A d \in Certificates : PaidFor(d)' /\ RowTrue(d)'
      BY <1>0, <2>2, <3>6, PurchasesGoOn DEF arc
    <3> QED
      BY <2>2, <3>7, <3>8
  <2> QED
    BY <2>1, <2>2 DEF BeginPurchase
<1>4. \A d \in Certificates : InOrder(d)'
  BY <1>0, <1>1, <1>3 DEF InOrder, Seller, arc
<1>5. SalesWhole' /\ TokenBought'
  BY <1>0, ArcKept DEF arc
<1>6. \A q \in Readers : SnapshotTrue(q)'
  BY <1>0, SnapshotsKept DEF arc
<1> QED
  BY <1>3, <1>4, <1>5, <1>6 DEF MarketInv

LEMMA SaleRestartStep ==
    ASSUME MarketInv, SaleRestart
    PROVE  MarketInv'
<1>0. /\ UNCHANGED <<service, wallet, cancelling, arc>>
      /\ reading' = [r \in Readers |-> NoRead]
  BY DEF SaleRestart
<1>1. /\ purchases' \in [Certificates -> Seq(Purchase)]
      /\ \A d \in Certificates :
            /\ Len(purchases'[d]) = Len(purchases[d])
            /\ \A j \in 1..Len(purchases[d]) :
                  /\ purchases'[d][j].buyer = purchases[d][j].buyer
                  /\ purchases[d][j].tx = "mined" => purchases'[d][j].tx = "mined"
  <2>1. ASSUME NEW d \in Certificates
        PROVE  /\ purchases'[d] \in Seq(Purchase) /\ Len(purchases'[d]) = Len(purchases[d])
               /\ \A j \in 1..Len(purchases[d]) :
                     /\ purchases'[d][j].buyer = purchases[d][j].buyer
                     /\ purchases[d][j].tx = "mined" => purchases'[d][j].tx = "mined"
    <3>1. purchases[d] \in Seq(Purchase) /\ DOMAIN purchases[d] = 1..Len(purchases[d])
      BY DEF MarketInv, MarketTyped
    <3>2. purchases'[d] = [j \in 1..Len(purchases[d]) |-> [purchases[d][j] EXCEPT !.awaited = FALSE]]
      BY <3>1 DEF SaleRestart
    <3>3. ASSUME NEW j \in 1..Len(purchases[d])
          PROVE  /\ [purchases[d][j] EXCEPT !.awaited = FALSE] \in Purchase
                 /\ [purchases[d][j] EXCEPT !.awaited = FALSE].buyer = purchases[d][j].buyer
                 /\ [purchases[d][j] EXCEPT !.awaited = FALSE].tx = purchases[d][j].tx
      <4>1. purchases[d][j] \in Purchase
        BY <3>1
      <4> QED
        BY <4>1 DEF Purchase
    <3>4. Len(purchases[d]) \in Nat
      BY <3>1
    <3>5. purchases'[d] \in Seq(Purchase) /\ Len(purchases'[d]) = Len(purchases[d])
      BY <3>2, <3>3, <3>4
    <3> QED
      BY <3>2, <3>3, <3>5
  <2>2. purchases' = [d \in Certificates |-> purchases'[d]]
    BY DEF SaleRestart
  <2> QED
    BY <2>1, <2>2
<1>2. MarketTyped'
  <2>1. reading' \in [Readers -> Snapshot]
    BY <1>0 DEF NoRead, Snapshot
  <2>2. saleRestarts' \in 0..MaxSaleRestarts
    BY MarketplaceAssumption DEF MarketplaceAssumption, MarketInv, MarketTyped, SaleRestart
  <2> QED
    BY <1>0, <1>1, <2>1, <2>2 DEF MarketInv, MarketTyped, service, arc
<1>3. \A d \in Certificates : InOrder(d)'
  BY <1>0 DEF MarketInv, InOrder, Seller, service, arc
<1>4. SalesWhole' /\ TokenBought'
  BY <1>0, ArcKept DEF service, arc
<1>5. \A d \in Certificates : PaidFor(d)' /\ RowTrue(d)'
  BY <1>0, <1>1, PurchasesGoOn DEF service, arc
<1>6. \A q \in Readers : SnapshotTrue(q)'
  BY <1>0 DEF SnapshotTrue
<1> QED
  BY <1>2, <1>3, <1>4, <1>5, <1>6 DEF MarketInv


-----------------------------------------------------------------------------
(* The sale and the credit.                                                 *)

SalesMade == Cardinality({c \in Certificates : listing[c] = "SOLD"})
SalesOf == [v \in Users |-> SoldBy(v)]
PurchasesOf == [v \in Users |-> BoughtBy(v)]

\* The listings sold, and those among them somebody sold or bought, after a sale.
LEMMA OneMoreSold ==
    ASSUME MarketTyped, NEW c \in Certificates, listing[c] # "SOLD", NEW u \in Users, NEW s \in Users, u # s,
           certificate[c].owner = s, certificate' = certificate,
           listing' = [listing EXCEPT ![c] = "SOLD"], payer' = [payer EXCEPT ![c] = u]
    PROVE  /\ SalesMade' = SalesMade + 1 /\ SalesMade \in Nat
           /\ SalesOf \in [Users -> Nat] /\ SalesOf' = [SalesOf EXCEPT ![s] = @ + 1]
           /\ PurchasesOf \in [Users -> Nat] /\ PurchasesOf' = [PurchasesOf EXCEPT ![u] = @ + 1]
<1>0. /\ IsFiniteSet(Certificates)
      /\ \A d \in Certificates : /\ listing'[d] = IF d = c THEN "SOLD" ELSE listing[d]
                               /\ payer'[d] = IF d = c THEN u ELSE payer[d]
  BY MarketplaceAssumption DEF MarketplaceAssumption, MarketTyped
<1> DEFINE All == {d \in Certificates : listing[d] = "SOLD"}
           Sales(v) == {d \in Certificates : listing[d] = "SOLD" /\ certificate[d].owner = v}
           Buys(v) == {d \in Certificates : listing[d] = "SOLD" /\ payer[d] = v}
<1>1. IsFiniteSet(All) /\ Cardinality(All) \in Nat /\ c \notin All
  BY <1>0, FS_Subset, FS_CardinalityType
<1>2. SalesMade' = Cardinality(All) + 1 /\ SalesMade = Cardinality(All)
  <2>1. {d \in Certificates : listing'[d] = "SOLD"} = All \cup {c}
    BY <1>0
  <2>3. SalesMade' = Cardinality(All \cup {c}) /\ SalesMade = Cardinality(All)
    BY <2>1 DEF SalesMade
  <2> HIDE DEF All
  <2>2. Cardinality(All \cup {c}) = Cardinality(All) + 1
    BY <1>1, FS_AddElement
  <2> QED
    BY <2>2, <2>3
<1>3. ASSUME NEW v \in Users
      PROVE  SoldBy(v)' = SoldBy(v) + (IF v = s THEN 1 ELSE 0) /\ SoldBy(v) \in Nat
  <2>1. IsFiniteSet(Sales(v)) /\ Cardinality(Sales(v)) \in Nat /\ c \notin Sales(v)
    BY <1>0, FS_Subset, FS_CardinalityType
  <2>2. SoldBy(v) = Cardinality(Sales(v))
    BY DEF SoldBy, Seller
  <2>3. CASE v = s
    <3>1. {d \in Certificates : listing'[d] = "SOLD" /\ certificate'[d].owner = v} = Sales(v) \cup {c}
      BY <1>0, <2>3
    <3>2. SoldBy(v)' = Cardinality(Sales(v) \cup {c})
      BY <3>1 DEF SoldBy, Seller
    <3> HIDE DEF Sales
    <3>3. Cardinality(Sales(v) \cup {c}) = Cardinality(Sales(v)) + 1
      BY <2>1, FS_AddElement
    <3> QED
      BY <2>1, <2>2, <2>3, <3>2, <3>3
  <2>4. CASE v # s
    <3>1. {d \in Certificates : listing'[d] = "SOLD" /\ certificate'[d].owner = v} = Sales(v)
      BY <1>0, <2>4
    <3>2. SoldBy(v)' = Cardinality(Sales(v))
      BY <3>1 DEF SoldBy, Seller
    <3> HIDE DEF Sales
    <3> QED
      BY <2>1, <2>2, <2>4, <3>2
  <2> QED
    BY <2>3, <2>4
<1>4. ASSUME NEW v \in Users
      PROVE  BoughtBy(v)' = BoughtBy(v) + (IF v = u THEN 1 ELSE 0) /\ BoughtBy(v) \in Nat
  <2>1. IsFiniteSet(Buys(v)) /\ Cardinality(Buys(v)) \in Nat /\ c \notin Buys(v)
    BY <1>0, FS_Subset, FS_CardinalityType
  <2>2. BoughtBy(v) = Cardinality(Buys(v))
    BY DEF BoughtBy
  <2>3. CASE v = u
    <3>1. {d \in Certificates : listing'[d] = "SOLD" /\ payer'[d] = v} = Buys(v) \cup {c}
      BY <1>0, <2>3
    <3>2. BoughtBy(v)' = Cardinality(Buys(v) \cup {c})
      BY <3>1 DEF BoughtBy
    <3> HIDE DEF Buys
    <3>3. Cardinality(Buys(v) \cup {c}) = Cardinality(Buys(v)) + 1
      BY <2>1, FS_AddElement
    <3> QED
      BY <2>1, <2>2, <2>3, <3>2, <3>3
  <2>4. CASE v # u
    <3>1. {d \in Certificates : listing'[d] = "SOLD" /\ payer'[d] = v} = Buys(v)
      BY <1>0, <2>4
    <3>2. BoughtBy(v)' = Cardinality(Buys(v))
      BY <3>1 DEF BoughtBy
    <3> HIDE DEF Buys
    <3> QED
      BY <2>1, <2>2, <2>4, <3>2
  <2> QED
    BY <2>3, <2>4
<1>5. ASSUME NEW v \in Users
      PROVE  /\ SalesOf[v] = SoldBy(v) /\ PurchasesOf[v] = BoughtBy(v)
             /\ SalesOf'[v] = SoldBy(v)' /\ PurchasesOf'[v] = BoughtBy(v)'
  BY DEF SalesOf, PurchasesOf
<1>6. /\ SalesOf \in [Users -> Nat] /\ SalesOf' = [v \in Users |-> SalesOf'[v]]
      /\ PurchasesOf \in [Users -> Nat] /\ PurchasesOf' = [v \in Users |-> PurchasesOf'[v]]
  BY <1>3, <1>4 DEF SalesOf, PurchasesOf
<1>7. SalesOf' = [SalesOf EXCEPT ![s] = @ + 1]
  BY <1>3, <1>5, <1>6
<1>8. PurchasesOf' = [PurchasesOf EXCEPT ![u] = @ + 1]
  BY <1>4, <1>5, <1>6
<1> QED
  BY <1>1, <1>2, <1>6, <1>7, <1>8

\* A sale moves one price, in two credits, and one token.
LEMMA SaleBooked ==
    ASSUME MarketTyped, SalesWhole, NEW c \in Certificates, NEW u \in Users, certificate' = certificate,
           MayBuy(u, c), TokenMoves(c), Sold(u, c)
    PROVE  SalesWhole' /\ creditOf' \in [Creditors -> Nat] /\ usdc' \in [Accounts -> Nat]
<1>1. PICK s \in Users : s = Seller(c)
  BY DEF MarketTyped, TokenMoves
<1>2. /\ u # s /\ listing[c] # "SOLD" /\ usdc[u] >= Price /\ certificate[c].owner = s /\ nftOwner = s
  BY <1>1 DEF MayBuy, TokenMoves, Seller
<1>3. /\ Price \in Nat /\ Fee \in 0..Price /\ FundsOf \in [Users -> Nat] /\ IsFiniteSet(Users)
      /\ Platform \notin Users /\ Market \notin Users /\ Market # Platform
  BY MarketplaceAssumption DEF MarketplaceAssumption
<1>4. creditOf \in [Creditors -> Nat] /\ usdc \in [Accounts -> Nat]
  BY DEF MarketTyped
<1>5. \A a \in Creditors : creditOf'[a] = IF a = Platform THEN creditOf[a] + Fee
                                        ELSE IF a = s THEN creditOf[a] + Price - Fee ELSE creditOf[a]
  BY <1>1, <1>3, <1>4 DEF Sold, Creditors
<1>6. \A a \in Accounts : usdc'[a] = IF a = Market THEN usdc[a] + Price
                                   ELSE IF a = u THEN usdc[a] - Price ELSE usdc[a]
  BY <1>3, <1>4 DEF Sold, Accounts
<1>7. creditOf' \in [Creditors -> Nat]
  <2>1. creditOf' = [a \in Creditors |-> creditOf'[a]]
    BY <1>4 DEF Sold
  <2>2. \A a \in Creditors : creditOf'[a] \in Nat
    BY <1>3, <1>4, <1>5
  <2> QED
    BY <2>1, <2>2
<1>8. usdc' \in [Accounts -> Nat]
  <2>1. usdc' = [a \in Accounts |-> usdc'[a]]
    BY <1>4 DEF Sold
  <2>2. \A a \in Accounts : usdc'[a] \in Nat
    BY <1>2, <1>3, <1>4, <1>6
  <2> QED
    BY <2>1, <2>2
<1>9. /\ SalesMade' = SalesMade + 1 /\ SalesMade \in Nat
      /\ \A v \in Users :
            /\ SoldBy(v)' = SoldBy(v) + (IF v = s THEN 1 ELSE 0) /\ SoldBy(v) \in Nat
            /\ BoughtBy(v)' = BoughtBy(v) + (IF v = u THEN 1 ELSE 0) /\ BoughtBy(v) \in Nat
  <2>1. /\ MarketTyped /\ listing[c] # "SOLD" /\ u # s
        /\ certificate[c].owner = s /\ certificate' = certificate
        /\ listing' = [listing EXCEPT ![c] = "SOLD"] /\ payer' = [payer EXCEPT ![c] = u]
    BY <1>2 DEF Sold
  <2>2. SalesMade' = SalesMade + 1 /\ SalesMade \in Nat
    BY <2>1, OneMoreSold
  <2>3. /\ SalesOf \in [Users -> Nat] /\ SalesOf' = [SalesOf EXCEPT ![s] = @ + 1]
        /\ PurchasesOf \in [Users -> Nat] /\ PurchasesOf' = [PurchasesOf EXCEPT ![u] = @ + 1]
    BY <2>1, OneMoreSold, ZenonT(30)
  <2>4. ASSUME NEW v \in Users
        PROVE  /\ SalesOf[v] = SoldBy(v) /\ PurchasesOf[v] = BoughtBy(v)
               /\ SalesOf'[v] = SoldBy(v)' /\ PurchasesOf'[v] = BoughtBy(v)'
    BY DEF SalesOf, PurchasesOf
  <2> QED
    BY <2>2, <2>3, <2>4
<1>10. ASSUME NEW v \in Users
       PROVE  (usdc[v] + creditOf[v] = FundsOf[v] - Price * BoughtBy(v) + (Price - Fee) * SoldBy(v))'
  <2>1. usdc[v] + creditOf[v] = FundsOf[v] - Price * BoughtBy(v) + (Price - Fee) * SoldBy(v)
    BY DEF SalesWhole
  <2>2. v \in Accounts /\ v \in Creditors /\ v # Platform /\ v # Market
    BY <1>3 DEF Accounts, Creditors
  <2>3. usdc[v] \in Nat /\ creditOf[v] \in Nat /\ FundsOf[v] \in Nat
    BY <1>3, <1>4, <2>2
  <2>4. PICK bought \in Nat, sold \in Nat : bought = BoughtBy(v) /\ sold = SoldBy(v)
    BY <1>9
  <2>5. PICK g \in Int : g = Price - Fee
    BY <1>3
  <2>6. Price * (bought + 1) = Price * bought + Price /\ g * (sold + 1) = g * sold + g
    BY <1>3
  <2>7. Price * bought \in Int /\ g * sold \in Int
    BY <1>3
  <2>11. usdc[v] + creditOf[v] = FundsOf[v] - Price * bought + g * sold
    BY <2>1, <2>4, <2>5
  <2>8. CASE v = u
    <3>1. BoughtBy(v)' = bought + 1 /\ SoldBy(v)' = sold
      BY <1>2, <1>9, <2>4, <2>8
    <3>2. usdc'[v] = usdc[v] - Price /\ creditOf'[v] = creditOf[v]
      BY <1>2, <1>5, <1>6, <2>2, <2>8
    <3>3. usdc'[v] + creditOf'[v] = FundsOf[v] - Price * (bought + 1) + g * sold
      BY <1>3, <2>3, <2>6, <2>7, <2>11, <3>2
    <3> QED
      BY <2>5, <3>1, <3>3
  <2>9. CASE v = s
    <3>1. BoughtBy(v)' = bought /\ SoldBy(v)' = sold + 1
      BY <1>2, <1>9, <2>4, <2>9
    <3>2. usdc'[v] = usdc[v] /\ creditOf'[v] = creditOf[v] + Price - Fee
      BY <1>2, <1>5, <1>6, <2>2, <2>9
    <3>3. usdc'[v] + creditOf'[v] = FundsOf[v] - Price * bought + g * (sold + 1)
      BY <1>3, <2>3, <2>5, <2>6, <2>7, <2>11, <3>2
    <3> QED
      BY <2>5, <3>1, <3>3
  <2>10. CASE v # u /\ v # s
    <3>1. BoughtBy(v)' = bought /\ SoldBy(v)' = sold
      BY <1>9, <2>4, <2>10
    <3>2. usdc'[v] = usdc[v] /\ creditOf'[v] = creditOf[v]
      BY <1>5, <1>6, <2>2, <2>10
    <3> QED
      BY <2>1, <2>4, <3>1, <3>2
  <2> QED
    BY <2>8, <2>9, <2>10
<1>11. ASSUME NEW v \in Users
       PROVE  (Owned(v, nftOwner) = Owned(v, FirstOwner) + BoughtBy(v) - SoldBy(v))'
  <2>1. Owned(v, nftOwner) = Owned(v, FirstOwner) + BoughtBy(v) - SoldBy(v)
    BY DEF SalesWhole
  <2>2. nftOwner' = u
    BY DEF Sold
  <2> QED
    BY <1>2, <1>9, <2>1, <2>2 DEF Owned
<1>12. (usdc[Platform] + creditOf[Platform]
          = Fee * Cardinality({d \in Certificates : listing[d] = "SOLD"}))'
  <2>1. PICK n \in Nat : n = SalesMade
    BY <1>9
  <2>2. usdc[Platform] + creditOf[Platform] = Fee * n
    BY <2>1 DEF SalesWhole, SalesMade
  <2>3. usdc'[Platform] = usdc[Platform] /\ creditOf'[Platform] = creditOf[Platform] + Fee
    BY <1>3, <1>5, <1>6 DEF Accounts, Creditors
  <2>4. usdc[Platform] \in Nat /\ creditOf[Platform] \in Nat
    BY <1>4 DEF Accounts, Creditors
  <2>5. Fee * (n + 1) = Fee * n + Fee /\ Fee * n \in Int
    BY <1>3
  <2>6. usdc'[Platform] + creditOf'[Platform] = Fee * (n + 1)
    BY <1>3, <2>2, <2>3, <2>4, <2>5
  <2>7. SalesMade' = n + 1
    BY <1>9, <2>1
  <2> QED
    BY <2>6, <2>7 DEF SalesMade
<1>13. (usdc[Market] = SumFunctionOnSet(creditOf, Creditors))'
  <2>1. IsFiniteSet(Creditors)
    BY <1>3, FS_AddElement DEF Creditors
  <2>2. PICK half : half = [a \in Creditors |-> IF a = s THEN creditOf[a] + Price - Fee ELSE creditOf[a]]
    OBVIOUS
  <2>3. /\ \A a \in Creditors : creditOf[a] \in Int /\ half[a] \in Int /\ creditOf'[a] \in Int
        /\ s \in Creditors /\ Platform \in Creditors
        /\ \A a \in Creditors \ {s} : half[a] = creditOf[a]
        /\ \A a \in Creditors \ {Platform} : creditOf'[a] = half[a]
    BY <1>3, <1>4, <1>5, <1>7, <2>2 DEF Creditors
  <2>12. \A y \in Creditors : creditOf[y] \in Int /\ half[y] \in Int
    BY <2>3
  <2>4. SumFunctionOnSet(half, Creditors) = SumFunctionOnSet(creditOf, Creditors) - creditOf[s] + half[s]
    BY <2>1, <2>3, <2>12, SumUpdate
  <2>5. SumFunctionOnSet(creditOf', Creditors)
          = SumFunctionOnSet(half, Creditors) - half[Platform] + creditOf'[Platform]
    BY <2>1, <2>3, SumUpdate
  <2>6. SumFunctionOnSet(creditOf, Creditors) \in Int
    BY <2>1, <2>3, SumType
  <2>7. half[s] = creditOf[s] + Price - Fee /\ half[Platform] = creditOf[Platform]
        /\ creditOf'[Platform] = creditOf[Platform] + Fee
    BY <1>3, <1>5, <2>2, <2>3
  <2>8. usdc'[Market] = usdc[Market] + Price /\ usdc[Market] \in Nat
    BY <1>4, <1>6 DEF Accounts
  <2>9. usdc[Market] = SumFunctionOnSet(creditOf, Creditors)
    BY DEF SalesWhole, Creditors
  <2>10. creditOf[s] \in Nat /\ creditOf[Platform] \in Nat
    BY <1>4, <2>3
  <2>11. usdc'[Market] = SumFunctionOnSet(creditOf', Creditors)
    BY <1>3, <2>4, <2>5, <2>6, <2>7, <2>8, <2>9, <2>10
  <2> QED
    BY <2>11 DEF Creditors
<1> QED
  BY <1>7, <1>8, <1>10, <1>11, <1>12, <1>13 DEF SalesWhole, Creditors


LEMMA BuyStep ==
    ASSUME MarketInv, NEW c \in Certificates, NEW i \in DOMAIN purchases[c], Buy(c, i)
    PROVE  MarketInv'
<1> DEFINE succeeds == MayBuy(purchases[c][i].buyer, c) /\ TokenMoves(c)
<1>0. UNCHANGED <<service, reading, wallet, cancelling, saleRestarts, eligibility, expired>>
  BY DEF Buy
<1>1. PICK was \in Purchase : was = purchases[c][i]
  BY DEF MarketInv, MarketTyped
<1>2. PICK u \in Users : u = was.buyer
  BY DEF Purchase
<1>3. PICK p : p = [was EXCEPT !.tx = IF succeeds THEN "mined" ELSE "reverted"]
  OBVIOUS
<1>4. p \in Purchase /\ p.buyer = u /\ was.tx # "mined" /\ purchases' = [purchases EXCEPT ![c][i] = p]
  <2>1. was.tx = "sent"
    BY <1>1 DEF Buy
  <2>2. p.buyer = u /\ p \in Purchase
    BY <1>2, <1>3 DEF Purchase
  <2>3. purchases' = [purchases EXCEPT ![c][i] = p]
    BY <1>1, <1>3 DEF Buy
  <2> QED
    BY <2>1, <2>2, <2>3
<1>5. /\ purchases' \in [Certificates -> Seq(Purchase)]
      /\ \A d \in Certificates :
            /\ Len(purchases'[d]) = Len(purchases[d])
            /\ \A j \in 1..Len(purchases[d]) :
                  /\ purchases'[d][j].buyer = purchases[d][j].buyer
                  /\ purchases[d][j].tx = "mined" => purchases'[d][j].tx = "mined"
      /\ purchases'[c][i] = p
  <2>1. /\ MarketTyped /\ p.buyer = purchases[c][i].buyer
        /\ purchases[c][i].tx = "mined" => p.tx = "mined"
        /\ purchases' = [purchases EXCEPT ![c][i] = p]
    BY <1>1, <1>2, <1>4 DEF MarketInv
  <2> QED
    BY <1>4, <2>1, OnePurchase
<1>6. CASE ~succeeds
  <2>1. UNCHANGED <<listing, payer, creditOf, usdc, nftOwner, nftApproved>>
    BY <1>6 DEF Buy
  <2>2. MarketTyped'
    BY <1>0, <1>5, <2>1 DEF MarketInv, MarketTyped, service
  <2>3. \A d \in Certificates : InOrder(d)'
    BY <1>0, <2>1 DEF MarketInv, InOrder, Seller, service
  <2>4. SalesWhole' /\ TokenBought'
    BY <1>0, <2>1, ArcKept DEF service
  <2>5. \A d \in Certificates : PaidFor(d)' /\ RowTrue(d)'
    BY <1>0, <1>5, <2>1, PurchasesGoOn DEF service
  <2>6. \A q \in Readers : SnapshotTrue(q)'
    BY <1>0, <2>1, SnapshotsKept DEF service
  <2> QED
    BY <2>2, <2>3, <2>4, <2>5, <2>6 DEF MarketInv
<1>7. CASE succeeds
  <2>1. MayBuy(u, c) /\ TokenMoves(c) /\ Sold(u, c) /\ p.tx = "mined"
    <3>1. p.tx = "mined"
      BY <1>3, <1>7 DEF Purchase
    <3> QED
      BY <1>1, <1>2, <1>7, <3>1 DEF Buy
  <2>2. SalesWhole' /\ creditOf' \in [Creditors -> Nat] /\ usdc' \in [Accounts -> Nat]
    <3>1. MarketTyped /\ SalesWhole /\ certificate' = certificate
      BY <1>0 DEF MarketInv, service
    <3> QED
      BY <2>1, <3>1, SaleBooked
  <2>3. /\ listing[c] = "ACTIVE" /\ nftOwner' = u /\ nftApproved' = FALSE
        /\ \A d \in Certificates : listing'[d] = IF d = c THEN "SOLD" ELSE listing[d]
        /\ \A d \in Certificates : payer'[d] = IF d = c THEN u ELSE payer[d]
        /\ listing' \in [Certificates -> ListingState]
        /\ payer' \in [Certificates -> Users \cup {NoUser}]
    BY <2>1 DEF MarketInv, MarketTyped, MayBuy, Sold, ListingState
  <2>4. MarketTyped'
    <3>1. nftApproved' \in BOOLEAN
      BY Zenon, <2>3
    <3>2. nftOwner' \in Users
      BY <2>3
    <3> QED
      BY <1>0, <1>5, <2>2, <2>3, <3>1, <3>2 DEF MarketInv, MarketTyped, service
  <2>5. \A d \in Certificates : InOrder(d)'
    BY <1>0, <2>3 DEF MarketInv, InOrder, Seller, service
  <2>6. \A v : HasBought(v) => HasBought(v)'
    BY <2>3 DEF HasBought
  <2>7. TokenBought'
    BY <2>3 DEF TokenBought, HasBought
  <2>8. ASSUME NEW d \in Certificates PROVE PaidFor(d)' /\ RowTrue(d)'
    <3>1. PaidFor(d) /\ RowTrue(d)
      BY DEF MarketInv
    <3>2. /\ purchases[d] \in Seq(Purchase) /\ purchases'[d] \in Seq(Purchase)
          /\ Len(purchases'[d]) = Len(purchases[d])
          /\ DOMAIN purchases[d] = 1..Len(purchases[d]) /\ DOMAIN purchases'[d] = 1..Len(purchases[d])
      BY <1>5 DEF MarketInv, MarketTyped
    <3>3. PaidFor(d)'
      <4>1. CASE d = c
        BY <1>4, <1>5, <2>1, <2>3, <3>2, <4>1 DEF PaidFor, Mined
      <4>2. CASE d # c
        BY <1>5, <2>3, <3>1, <3>2, <4>2 DEF PaidFor, Mined
      <4> QED
        BY <4>1, <4>2
    <3>4. saleRow'[d] = saleRow[d] /\ (listing[d] = "SOLD" => listing'[d] = "SOLD")
      BY <1>0, <2>3 DEF service
    <3>5. RowTrue(d)'
      BY <1>5, <2>6, <3>1, <3>2, <3>4 DEF RowTrue
    <3> QED
      BY <3>3, <3>5
  <2>9. ASSUME NEW q \in Readers PROVE SnapshotTrue(q)'
    <3>1. SnapshotTrue(q) /\ reading' = reading /\ intent' = intent
      BY <1>0 DEF MarketInv, service
    <3> QED
      BY <2>3, <2>6, <3>1 DEF SnapshotTrue
  <2> QED
    BY <2>2, <2>4, <2>5, <2>7, <2>8, <2>9 DEF MarketInv
<1> QED
  BY <1>6, <1>7

\* A withdrawal moves a credit from the market to its owner.
LEMMA WithdrawStep ==
    ASSUME MarketInv, NEW w \in Withdrawing, Withdraw(w)
    PROVE  MarketInv'
<1>0. /\ UNCHANGED <<service, traffic, eligibility, listing, payer, nftOwner, nftApproved, expired>>
      /\ MarketTyped /\ SalesWhole
  BY DEF Withdraw, MarketInv
<1>1. /\ w \in Creditors /\ w \in Accounts /\ w # Market /\ Market \in Accounts
      /\ IsFiniteSet(Users) /\ Platform \notin Users /\ Market \notin Users /\ Market # Platform
  BY MarketplaceAssumption DEF MarketplaceAssumption, Creditors, Accounts
<1>2. creditOf \in [Creditors -> Nat] /\ usdc \in [Accounts -> Nat]
  BY <1>0 DEF MarketTyped
<1>3. /\ \A a \in Creditors : creditOf'[a] = IF a = w THEN 0 ELSE creditOf[a]
      /\ \A a \in Accounts : usdc'[a] = IF a = w THEN usdc[a] + creditOf[w]
                                      ELSE IF a = Market THEN usdc[a] - creditOf[w] ELSE usdc[a]
  BY <1>1, <1>2 DEF Withdraw
<1>4. IsFiniteSet(Creditors)
  BY <1>1, FS_AddElement DEF Creditors
<1>5. \A a \in Creditors : creditOf[a] \in Int /\ creditOf'[a] \in Int
  BY <1>2, <1>3
<1>6. SumFunctionOnSet(creditOf', Creditors) = SumFunctionOnSet(creditOf, Creditors) - creditOf[w] + creditOf'[w]
  <2>1. \A a \in Creditors \ {w} : creditOf'[a] = creditOf[a]
    BY <1>3
  <2> QED
    BY <1>1, <1>4, <1>5, <2>1, SumUpdate
<1>7. usdc[Market] = SumFunctionOnSet(creditOf, Creditors) /\ usdc[Market] \in Nat /\ creditOf[w] \in Nat
  BY <1>0, <1>1, <1>2 DEF SalesWhole, Creditors
<1>8. usdc'[Market] = SumFunctionOnSet(creditOf', Creditors)
  BY <1>1, <1>3, <1>6, <1>7
<1>9. usdc'[Market] \in Nat
  <2>1. \A a \in Creditors : creditOf'[a] \in Nat
    BY <1>2, <1>3
  <2> QED
    BY <1>4, <1>8, <2>1, SumNat
<1>10. creditOf' \in [Creditors -> Nat] /\ usdc' \in [Accounts -> Nat]
  <2>1. creditOf' = [a \in Creditors |-> creditOf'[a]] /\ usdc' = [a \in Accounts |-> usdc'[a]]
    BY <1>2 DEF Withdraw
  <2>2. (\A a \in Creditors : creditOf'[a] \in Nat) /\ (\A a \in Accounts : usdc'[a] \in Nat)
    BY <1>1, <1>2, <1>3, <1>9
  <2> QED
    BY <2>1, <2>2
<1>11. MarketTyped'
  BY <1>0, <1>10 DEF MarketTyped, service, traffic
<1>12. \A a \in Creditors : usdc'[a] + creditOf'[a] = usdc[a] + creditOf[a]
  <2>1. Creditors \subseteq Accounts /\ Market \notin Creditors
    BY <1>1 DEF Creditors, Accounts
  <2> QED
    BY <1>2, <1>3, <2>1
<1>13. SalesWhole'
  <2>1. ASSUME NEW v \in Users PROVE SoldBy(v)' = SoldBy(v) /\ BoughtBy(v)' = BoughtBy(v)
    BY <1>0 DEF SoldBy, BoughtBy, Seller, service
  <2>3. \A v \in Users : usdc'[v] + creditOf'[v] = usdc[v] + creditOf[v]
    BY <1>12 DEF Creditors
  <2>4. usdc'[Platform] + creditOf'[Platform] = usdc[Platform] + creditOf[Platform]
    BY <1>12 DEF Creditors
  <2> QED
    BY <1>0, <1>8, <2>1, <2>3, <2>4 DEF SalesWhole, Creditors
<1>14. \A d \in Certificates : InOrder(d)'
  BY <1>0 DEF MarketInv, InOrder, Seller, service, traffic
<1>15. \A d \in Certificates : PaidFor(d)' /\ RowTrue(d)'
  BY <1>0, PurchasesKept DEF service, traffic
<1>16. \A q \in Readers : SnapshotTrue(q)'
  BY <1>0, SnapshotsKept DEF service, traffic
<1>17. TokenBought'
  BY <1>0 DEF MarketInv, TokenBought, HasBought
<1> QED
  BY <1>11, <1>13, <1>14, <1>15, <1>16, <1>17 DEF MarketInv

-----------------------------------------------------------------------------

LEMMA MarketStep ==
    ASSUME MarketInv, [MarketplaceNext]_marketplaceVars
    PROVE  MarketInv'
<1>1. CASE UNCHANGED marketplaceVars
  <2>1. MarketTyped'
    BY <1>1 DEF marketplaceVars, service, traffic, arc, MarketInv, MarketTyped
  <2>2. SalesWhole' /\ TokenBought'
    BY <1>1, ArcKept DEF marketplaceVars, service, traffic, arc
  <2>3. \A d \in Certificates : InOrder(d)'
    BY <1>1 DEF marketplaceVars, service, traffic, arc, MarketInv, InOrder, Seller
  <2>4. \A d \in Certificates : PaidFor(d)' /\ RowTrue(d)'
    BY <1>1, PurchasesKept DEF marketplaceVars, service, traffic, arc
  <2>5. \A q \in Readers : SnapshotTrue(q)'
    BY <1>1, SnapshotsKept DEF marketplaceVars, service, traffic, arc
  <2> QED
    BY <2>1, <2>2, <2>3, <2>4, <2>5 DEF MarketInv
<1>2. ASSUME NEW c \in Certificates, Certify(c) PROVE MarketInv'
  BY <1>2, CreateEligibilityStep, ApproveOnArcStep, ApproveEligibilityStep DEF Certify
<1>3. ASSUME NEW c \in Certificates, List(c) PROVE MarketInv'
  BY <1>3, BeginListingStep, ApproveTokenStep, CreateListingStep, RecordListingStep, FinishListingStep DEF List
<1>4. ASSUME NEW c \in Certificates, Sell(c) PROVE MarketInv'
  BY <1>4, BeginPurchaseStep, SendPurchaseStep, BuyStep, PurchaseAnsweredStep, BeginCancellationStep,
     CancelStep DEF Sell
<1>5. ASSUME NEW c \in Certificates, GraceEnds(c) \/ Expires(c) PROVE MarketInv'
  BY <1>5, GraceEndsStep, ExpiresStep
<1>6. ASSUME NEW r \in Readers, Reconcile(r) PROVE MarketInv'
  BY <1>6, ReadListingStep, ReadOwnerStep, PublishStep DEF Reconcile
<1>7. ASSUME NEW a \in Withdrawing, Withdraw(a) PROVE MarketInv'
  BY <1>7, WithdrawStep
<1>8. CASE SaleRestart
  BY <1>8, SaleRestartStep
<1> QED
  BY <1>1, <1>2, <1>3, <1>4, <1>5, <1>6, <1>7, <1>8 DEF MarketplaceNext

\* What the invariant says of the delivery.
LEMMA MarketDelivers ==
    ASSUME MarketInv
    PROVE  SoldAndDelivered
<1>1. MarketplaceTypeOK
  BY DEF MarketInv, MarketTyped, MarketplaceTypeOK, Certificate, Creditors
<1>2. ASSUME NEW c \in Certificates, saleRow[c].state = "SOLD"
      PROVE  /\ listing[c] = "SOLD" /\ payer[c] # NoUser
             /\ \/ saleRow[c].buyer = payer[c]
                \/ /\ \E i \in 1..(saleRow[c].purchase - 1) :
                         purchases[c][i].buyer = payer[c] /\ purchases[c][i].tx = "mined"
                   /\ \E d \in Certificates \ {c} : listing[d] = "SOLD" /\ payer[d] = saleRow[c].buyer
  <2>1. /\ RowTrue(c) /\ PaidFor(c) /\ purchases[c] \in Seq(Purchase)
    BY DEF MarketInv, MarketTyped
  <2>2. /\ listing[c] = "SOLD" /\ saleRow[c].buyer # NoUser /\ HasBought(saleRow[c].buyer)
        /\ saleRow[c].purchase \in {0, Len(purchases[c])} /\ saleRow[c].purchase \in DOMAIN purchases[c]
        /\ purchases[c][saleRow[c].purchase].buyer = saleRow[c].buyer
    BY <1>2, <2>1 DEF RowTrue
  <2>3. payer[c] \in Users /\ Mined(c, payer[c])
    BY <2>1, <2>2 DEF PaidFor
  <2>4. PICK i \in DOMAIN purchases[c] : purchases[c][i].buyer = payer[c] /\ purchases[c][i].tx = "mined"
    BY <2>3 DEF Mined
  <2>5. DOMAIN purchases[c] = 1..Len(purchases[c]) /\ Len(purchases[c]) \in Nat
    BY <2>1
  <2>6. payer[c] # NoUser
    BY <2>3, MarketplaceAssumption DEF MarketplaceAssumption
  <2>7. CASE i = saleRow[c].purchase
    BY <2>2, <2>4, <2>6, <2>7
  <2>8. CASE i # saleRow[c].purchase /\ saleRow[c].buyer # payer[c]
    <3>1. i \in 1..(saleRow[c].purchase - 1)
      BY <2>2, <2>5, <2>8
    <3>2. \E d \in Certificates \ {c} : listing[d] = "SOLD" /\ payer[d] = saleRow[c].buyer
      BY <2>2, <2>8 DEF HasBought
    <3> QED
      BY <2>2, <2>4, <2>6, <3>1, <3>2
  <2> QED
    BY <2>2, <2>6, <2>7, <2>8
<1> QED
  BY <1>1, <1>2 DEF MarketInv, SoldAndDelivered, DeliveredToBuyer

\* Every sold listing moved one price and the token once, the market holds what it
\* owes, and the private AGENTS.md is delivered to a buyer who paid, for every number
\* of users, of listings of the token, of purchases and of snapshots being read
\* (AgentMarketplaceV2.buy and withdraw, publishMarketplaceListing).
THEOREM SalesAlwaysDelivered == MarketplaceSpec => []SoldAndDelivered
<1>1. MarketplaceInit => MarketInv
  BY MarketInit
<1>2. MarketInv /\ [MarketplaceNext]_marketplaceVars => MarketInv'
  BY MarketStep
<1>3. MarketInv => SoldAndDelivered
  BY MarketDelivers
<1> QED
  BY <1>1, <1>2, <1>3, PTL DEF MarketplaceSpec
=============================================================================
