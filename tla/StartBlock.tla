------------------------------ MODULE StartBlock ------------------------------
(***************************************************************************)
(* The Arc block whose hash seeds a tournament's bracket: startBlockEntropy *)
(* of src/services/api/src/tournament-operations-live.ts.  It is looked for *)
(* by halving while the chain grows, again at every PROGRESS until the seed *)
(* is stored, so two calls, and a call after a lost write, may look at      *)
(* different times.  Arc's blocks are final, and their times never go back. *)
(***************************************************************************)
EXTENDS Naturals, FiniteSets

CONSTANTS StartsAt,   \* the policy's startsAt
          MaxHeight,  \* bounds: the last block of a behaviour, and of its times
          MaxTime

ASSUME StartAssumption == StartsAt \in Nat \ {0} /\ MaxHeight \in Nat /\ MaxTime \in Nat

VARIABLES head,     \* the number of the latest block
          stamp,    \* the time of each block there is
          search,   \* the bounds of the search under way
          answers   \* the blocks searches ended with

startVars == <<head, stamp, search, answers>>

NoSearch == [on |-> FALSE, lower |-> 0, upper |-> 0]

StartInit ==
    /\ head = 0
    /\ stamp \in [0..0 -> 0..MaxTime]
    /\ search = NoSearch
    /\ answers = {}

NewBlock(time) ==
    /\ head < MaxHeight /\ stamp[head] <= time
    /\ head' = head + 1
    /\ stamp' = [n \in 0..head + 1 |-> IF n <= head THEN stamp[n] ELSE time]
    /\ UNCHANGED <<search, answers>>

\* The latest block is old enough, or the call fails.
Look ==
    /\ ~search.on /\ stamp[head] >= StartsAt
    /\ search' = [on |-> TRUE, lower |-> 0, upper |-> head]
    /\ UNCHANGED <<head, stamp, answers>>

\* Mutant of Half: the block that is old enough is passed over.
HalfBelow(s) ==
    LET middle == (s.lower + s.upper) \div 2
    IN IF stamp[middle] > StartsAt THEN [s EXCEPT !.upper = middle]
       ELSE [s EXCEPT !.lower = middle + 1]

Half(s) ==
    LET middle == (s.lower + s.upper) \div 2
    IN IF stamp[middle] >= StartsAt THEN [s EXCEPT !.upper = middle]
       ELSE [s EXCEPT !.lower = middle + 1]

Narrow ==
    /\ search.on /\ search.lower < search.upper
    /\ search' = Half(search)
    /\ UNCHANGED <<head, stamp, answers>>

\* A block that is too young after all is an error.
Found ==
    /\ search.on /\ search.lower = search.upper
    /\ answers' = IF stamp[search.lower] >= StartsAt THEN answers \cup {search.lower} ELSE answers
    /\ search' = NoSearch
    /\ UNCHANGED <<head, stamp>>

\* A read fails, or the process ends.
LookFails ==
    /\ search.on /\ search' = NoSearch
    /\ UNCHANGED <<head, stamp, answers>>

StartNext == (\E time \in 0..MaxTime : NewBlock(time)) \/ Look \/ Narrow \/ Found \/ LookFails
StartSpec == StartInit /\ [][StartNext]_startVars

StartTypeOK ==
    /\ head \in 0..MaxHeight
    /\ stamp \in [0..head -> 0..MaxTime]
    /\ search \in [on : BOOLEAN, lower : 0..MaxHeight, upper : 0..MaxHeight]
    /\ answers \subseteq 0..head

\* Every search ends with the first block at or after the start, however long the
\* chain was when it looked: all have one seed, and nobody can move it by asking
\* at another time.
OneSeed ==
    /\ \A b \in answers : stamp[b] >= StartsAt /\ \A n \in 0..head : n < b => stamp[n] < StartsAt
    /\ \A b, c \in answers : b = c
=============================================================================
