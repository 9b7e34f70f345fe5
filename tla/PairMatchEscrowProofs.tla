------------------------ MODULE PairMatchEscrowProofs ------------------------
(***************************************************************************)
(* Proofs about the pair escrow, for every finite set of rooms and         *)
(* players, every set of stakes and every horizon.                         *)
(***************************************************************************)
EXTENDS PairMatchEscrow, SumTheorems

\* What the state of a room tells of its other fields: the zero record until
\* it is created, one player while open, two different ones from then on, no
\* credit before it is decided, and then the credits of its outcome.
Shape(r) ==
    /\ room[r].state = "NONE" => room[r] = NoRoom
    /\ room[r].state = "OPEN" =>
          room[r].creator \in Players /\ room[r].challenger = None
    /\ room[r].state \in {"JOINED", "SETTLED"} =>
          room[r].creator \in Players /\ room[r].challenger \in Players
    /\ room[r].state # "NONE" => room[r].challenger # room[r].creator
    /\ ~Decided(r) => \A p \in Players : creditOf[r][p] = 0
    /\ room[r].state = "SETTLED" =>
          \A p \in Players : creditOf[r][p] > 0 =>
              p = room[r].winner /\ creditOf[r][p] = room[r].stake * 2
    /\ room[r].state = "REFUNDABLE" =>
          \A p \in Players : creditOf[r][p] > 0 =>
              /\ p \in {room[r].creator, room[r].challenger}
              /\ creditOf[r][p] = room[r].stake

\* The inductive invariant.
IInv == TypeOK /\ LiabilityBacked /\ \A r \in Rooms : Shape(r)

-----------------------------------------------------------------------------
(* The books: Held, room by room. *)

\* What a room holds is a natural number, and every credit is part of it.
LEMMA HeldType ==
    ASSUME TypeOK, NEW r \in Rooms
    PROVE  Locked(r) \in Nat /\ Held(r) \in Nat
           /\ SumFunctionOnSet(creditOf[r], Players) \in Nat
           /\ \A p \in Players : creditOf[r][p] <= Held(r)
<1>1. Locked(r) \in Nat
  BY DEF TypeOK, Room, Locked
<1>2. IsFiniteSet(Players) /\ \A p \in Players : creditOf[r][p] \in Nat
  BY EscrowAssumption DEF TypeOK
<1>3. /\ SumFunctionOnSet(creditOf[r], Players) \in Nat
      /\ \A p \in Players : creditOf[r][p] <= SumFunctionOnSet(creditOf[r], Players)
  BY <1>2, SumNat
<1> QED BY <1>1, <1>2, <1>3 DEF Held

\* A room nobody touched holds what it held.
LEMMA HeldSame ==
    ASSUME NEW x, room'[x] = room[x], creditOf'[x] = creditOf[x]
    PROVE  Held(x)' = Held(x)
BY DEF Held, Locked

\* totalLiability covers every single credit.
LEMMA CreditCovered ==
    ASSUME TypeOK, LiabilityBacked, NEW r \in Rooms, NEW p \in Players
    PROVE  creditOf[r][p] <= totalLiability
<1> DEFINE h == [x \in Rooms |-> Held(x)]
<1>1. IsFiniteSet(Rooms) /\ \A x \in Rooms : h[x] \in Nat
  BY EscrowAssumption, HeldType
<1>2. h[r] = Held(r) /\ creditOf[r][p] <= Held(r)
  BY HeldType
<1>3. totalLiability = SumFunctionOnSet(h, Rooms)
  BY DEF LiabilityBacked
<1> HIDE DEF h
<1>4. h[r] <= SumFunctionOnSet(h, Rooms) /\ SumFunctionOnSet(h, Rooms) \in Nat
  BY <1>1, SumNat
<1>5. creditOf[r][p] \in Nat /\ h[r] \in Nat
  BY <1>1 DEF TypeOK
<1> QED BY <1>2, <1>3, <1>4, <1>5

\* A step that changes what one room holds by d keeps the books balanced when
\* totalLiability and the balance change by d as well.
LEMMA BooksStep ==
    ASSUME TypeOK, LiabilityBacked, NEW r \in Rooms, NEW d \in Int,
           \A x \in Rooms \ {r} : Held(x)' = Held(x),
           Held(r)' = Held(r) + d,
           totalLiability' = totalLiability + d,
           usdc'[Escrow] = usdc[Escrow] + d
    PROVE  LiabilityBacked'
<1> DEFINE h == [x \in Rooms |-> Held(x)]
           k == [x \in Rooms |-> Held(x)']
<1>1. IsFiniteSet(Rooms) /\ \A x \in Rooms : h[x] \in Int
  BY EscrowAssumption, HeldType
<1>2. \A x \in Rooms : k[x] \in Int
  BY <1>1
<1>3. \A x \in Rooms \ {r} : k[x] = h[x]
  OBVIOUS
<1>4. k[r] = h[r] + d
  OBVIOUS
<1>5. totalLiability = SumFunctionOnSet(h, Rooms) /\ usdc[Escrow] = totalLiability
  BY DEF LiabilityBacked
<1>6. LiabilityBacked' <=>
         /\ totalLiability' = SumFunctionOnSet(k, Rooms)
         /\ usdc'[Escrow] = totalLiability'
  BY DEF LiabilityBacked
<1> HIDE DEF h, k
<1>7. SumFunctionOnSet(k, Rooms) = SumFunctionOnSet(h, Rooms) - h[r] + k[r]
  BY <1>1, <1>2, <1>3, SumUpdate
<1>8. SumFunctionOnSet(h, Rooms) \in Int
  BY <1>1, SumType
<1>9. h[r] \in Int
  BY <1>1
<1> QED BY <1>4, <1>5, <1>6, <1>7, <1>8, <1>9

\* A room whose credits are all zero has none to sum.
LEMMA NoCredits ==
    ASSUME NEW f, \A p \in Players : f[p] = 0
    PROVE  SumFunctionOnSet(f, Players) = 0
BY EscrowAssumption, SumZero

-----------------------------------------------------------------------------
(* One lemma per kind of step. *)

\* The empty contract satisfies the inductive invariant.
LEMMA InitIInv == Init => IInv
<1> SUFFICES ASSUME Init PROVE IInv
  OBVIOUS
<1>1. TypeOK
  BY EscrowAssumption DEF Init, TypeOK, Room, NoRoom, State
<1>2. \A r \in Rooms : Shape(r)
  BY EscrowAssumption DEF Init, Shape, NoRoom, Decided
<1>3. LiabilityBacked
  <2>1. ASSUME NEW r \in Rooms PROVE Held(r) = 0
    <3>1. SumFunctionOnSet(creditOf[r], Players) = 0
      BY NoCredits DEF Init
    <3> QED BY <3>1 DEF Init, Held, Locked, NoRoom
  <2> DEFINE h == [r \in Rooms |-> Held(r)]
  <2>2. \A r \in Rooms : h[r] = 0
    BY <2>1
  <2>3. LiabilityBacked <=> totalLiability = SumFunctionOnSet(h, Rooms) /\ usdc[Escrow] = totalLiability
    BY DEF LiabilityBacked
  <2> HIDE DEF h
  <2>4. SumFunctionOnSet(h, Rooms) = 0
    BY <2>2, EscrowAssumption, SumZero
  <2> QED BY <2>3, <2>4 DEF Init
<1> QED BY <1>1, <1>2, <1>3 DEF IInv

\* A step that moves no room and no credit keeps the invariant.
LEMMA QuietStep ==
    ASSUME IInv, TypeOK', UNCHANGED <<room, creditOf, totalLiability, usdc>>
    PROVE  IInv'
<1>1. (\A r \in Rooms : Shape(r))'
  BY DEF IInv, Shape, Decided
<1>2. LiabilityBacked'
  BY DEF IInv, LiabilityBacked, Held, Locked
<1> QED BY <1>1, <1>2 DEF IInv

\* A step on one room keeps the invariant when that room keeps its shape and
\* the books move by what it holds more or less.
LEMMA LocalStep ==
    ASSUME IInv, TypeOK', NEW r \in Rooms, NEW d \in Int,
           \A x \in Rooms \ {r} : room'[x] = room[x] /\ creditOf'[x] = creditOf[x],
           Shape(r)',
           Held(r)' = Held(r) + d,
           totalLiability' = totalLiability + d,
           usdc'[Escrow] = usdc[Escrow] + d
    PROVE  IInv'
<1>1. ASSUME NEW x \in Rooms PROVE Shape(x)'
  <2>1. CASE x = r
    BY <2>1
  <2>2. CASE x # r
    BY <2>2 DEF IInv, Shape, Decided
  <2> QED BY <2>1, <2>2
<1>2. \A x \in Rooms \ {r} : Held(x)' = Held(x)
  BY HeldSame
<1>3. LiabilityBacked'
  BY <1>2, BooksStep DEF IInv
<1> QED BY <1>1, <1>3 DEF IInv

\* createRoom adds one stake to a room that held nothing.
LEMMA CreateStep ==
    ASSUME IInv, NEW p \in Players, NEW r \in Rooms, NEW v \in Versions,
           NEW s \in Stakes, NEW jd \in 1..Horizon, NEW rd \in 1..Horizon,
           CreateRoom(p, r, v, s, jd, rd)
    PROVE  IInv'
<1> DEFINE created ==
      [creator |-> p, challenger |-> None, creatorAgentVersion |-> v,
       challengerAgentVersion |-> None, stake |-> s, joinDeadline |-> jd,
       resolutionDeadline |-> rd, state |-> "OPEN", winner |-> None,
       cancelRequested |-> {}]
<1>1. s \in Nat \ {0} /\ jd \in Nat /\ rd \in Nat
  BY EscrowAssumption
<1>2. created \in Room
  BY <1>1 DEF Room, State
<1>4. room' = [room EXCEPT ![r] = created] /\ creditOf' = creditOf /\ room[r].state = "NONE"
  BY DEF CreateRoom
<1>5. /\ usdc[p] >= s /\ allowance[p] >= s
      /\ usdc' = [usdc EXCEPT ![p] = @ - s, ![Escrow] = @ + s]
      /\ allowance' = [allowance EXCEPT ![p] = @ - s]
      /\ totalLiability' = totalLiability + s /\ now' = now
  BY DEF CreateRoom, Deposit
<1> HIDE DEF created
<1>6. TypeOK'
  BY <1>1, <1>2, <1>4, <1>5, EscrowAssumption DEF IInv, TypeOK
<1>7. room'[r] = created /\ \A x \in Rooms \ {r} : room'[x] = room[x]
  BY <1>4 DEF IInv, TypeOK
<1>8. Shape(r)'
  BY <1>4, <1>7, EscrowAssumption DEF IInv, Shape, Decided, created
<1>9. Held(r)' = Held(r) + s
  <2>1. Locked(r) = 0 /\ Locked(r)' = s
    BY <1>4, <1>7 DEF Locked, created
  <2>2. SumFunctionOnSet(creditOf[r], Players) \in Nat
    BY HeldType DEF IInv
  <2> QED BY <1>1, <1>4, <2>1, <2>2 DEF Held
<1>10. usdc'[Escrow] = usdc[Escrow] + s
  BY <1>5, EscrowAssumption DEF IInv, TypeOK
<1>11. \A x \in Rooms \ {r} : room'[x] = room[x] /\ creditOf'[x] = creditOf[x]
  BY <1>4, <1>7
<1>12. s \in Int /\ totalLiability' = totalLiability + s
  BY <1>1, <1>5
<1> QED BY <1>6, <1>8, <1>9, <1>10, <1>11, <1>12, LocalStep

\* joinRoom doubles what an open room holds.
LEMMA JoinStep ==
    ASSUME IInv, NEW p \in Players, NEW r \in Rooms, NEW v \in Versions,
           JoinRoom(p, r, v)
    PROVE  IInv'
<1> DEFINE s == room[r].stake
           joined == [room[r] EXCEPT !.challenger = p, !.challengerAgentVersion = v,
                                     !.state = "JOINED"]
<1>1. s \in Nat /\ room[r] \in Room
  BY DEF IInv, TypeOK, Room
<1>2. joined \in Room
  BY <1>1 DEF Room, State
<1>3. /\ joined.state = "JOINED" /\ joined.challenger = p
      /\ joined.creator = room[r].creator /\ joined.stake = s
  BY <1>1 DEF Room
<1>4. /\ room' = [room EXCEPT ![r] = joined] /\ creditOf' = creditOf
      /\ room[r].state = "OPEN" /\ p # room[r].creator
  BY DEF JoinRoom, IInv, TypeOK
<1>5. /\ usdc[p] >= s /\ allowance[p] >= s
      /\ usdc' = [usdc EXCEPT ![p] = @ - s, ![Escrow] = @ + s]
      /\ allowance' = [allowance EXCEPT ![p] = @ - s]
      /\ totalLiability' = totalLiability + s /\ now' = now
  BY DEF JoinRoom, Deposit
<1> HIDE DEF joined
<1>6. TypeOK'
  BY <1>1, <1>2, <1>4, <1>5, EscrowAssumption DEF IInv, TypeOK
<1>7. room'[r] = joined /\ \A x \in Rooms \ {r} : room'[x] = room[x]
  BY <1>4 DEF IInv, TypeOK
<1>8. Shape(r)'
  BY <1>3, <1>4, <1>7 DEF IInv, Shape, Decided
<1>9. Held(r)' = Held(r) + s
  <2>1. Locked(r) = s /\ Locked(r)' = s * 2
    BY <1>3, <1>4, <1>7 DEF Locked
  <2>2. SumFunctionOnSet(creditOf[r], Players) \in Nat
    BY HeldType DEF IInv
  <2> QED BY <1>1, <1>4, <2>1, <2>2 DEF Held
<1>10. usdc'[Escrow] = usdc[Escrow] + s
  BY <1>1, <1>5, EscrowAssumption DEF IInv, TypeOK
<1>11. \A x \in Rooms \ {r} : room'[x] = room[x] /\ creditOf'[x] = creditOf[x]
  BY <1>4, <1>7
<1>12. s \in Int /\ totalLiability' = totalLiability + s
  BY <1>1, <1>5
<1> HIDE DEF s
<1> QED BY <1>6, <1>8, <1>9, <1>10, <1>11, <1>12, LocalStep

\* _openRefunds on a room that is open or joined, whatever flags its caller set
\* first, replaces the locked stakes by credits of the same total.
LEMMA RefundStep ==
    ASSUME IInv, NEW r \in Rooms, room[r].state \in {"OPEN", "JOINED"},
           NEW flags \in SUBSET Players,
           OpenRefunds(r, [room[r] EXCEPT !.cancelRequested = flags]),
           UNCHANGED <<totalLiability, usdc, allowance, now>>
    PROVE  IInv'
<1> DEFINE s == room[r].stake
           both == {room[r].creator, room[r].challenger}
           flagged == [room[r] EXCEPT !.cancelRequested = flags]
           refunded == [flagged EXCEPT !.state = "REFUNDABLE"]
           credits == [p \in Players |-> IF p \in both THEN s ELSE 0]
<1>1. s \in Nat /\ room[r] \in Room
  BY DEF IInv, TypeOK, Room
<1>2. flagged \in Room /\ flagged.creator = room[r].creator
      /\ flagged.challenger = room[r].challenger /\ flagged.stake = s
  BY <1>1 DEF Room
<1>3. refunded \in Room /\ refunded.creator = room[r].creator
      /\ refunded.challenger = room[r].challenger /\ refunded.stake = s
      /\ refunded.state = "REFUNDABLE"
  <2> HIDE DEF flagged
  <2> QED BY <1>2 DEF Room, State
<1>4. \A p \in Players : creditOf[r][p] = 0
  BY DEF IInv, Shape, Decided
<1>5. room' = [room EXCEPT ![r] = refunded] /\ creditOf' = [creditOf EXCEPT ![r] = credits]
  <2> HIDE DEF flagged
  <2>1. /\ room' = [room EXCEPT ![r] = refunded]
        /\ creditOf' = [creditOf EXCEPT ![r] = [p \in Players |->
              IF p \in {flagged.creator, flagged.challenger}
              THEN flagged.stake ELSE creditOf[r][p]]]
    BY DEF OpenRefunds, IInv, TypeOK, flagged
  <2> QED BY <1>2, <1>4, <2>1
<1> HIDE DEF refunded, flagged
<1>6. room'[r] = refunded /\ \A x \in Rooms \ {r} : room'[x] = room[x] /\ creditOf'[x] = creditOf[x]
  BY <1>5 DEF IInv, TypeOK
<1>7. \A p \in Players : creditOf'[r][p] = IF p \in both THEN s ELSE 0
  BY <1>5 DEF IInv, TypeOK
<1>8. TypeOK'
  <2>1. credits \in [Players -> Nat]
    BY <1>1
  <2> HIDE DEF credits
  <2> QED BY <1>3, <1>5, <2>1 DEF IInv, TypeOK
<1>9. room[r].creator \in Players /\ room[r].challenger # room[r].creator
  BY DEF IInv, Shape
<1>10. Shape(r)'
  BY <1>3, <1>6, <1>7, <1>9 DEF Shape, Decided
<1>11. Held(r)' = Held(r) + 0
  <2>1. SumFunctionOnSet(creditOf[r], Players) = 0
    BY <1>4, NoCredits
  <2>2. Locked(r)' = 0
    BY <1>3, <1>6 DEF Locked
  <2> DEFINE c == creditOf'[r]
  <2>3. \A p \in Players : c[p] = IF p \in both THEN s ELSE 0
    BY <1>7
  <2>4. Held(r)' = Locked(r)' + SumFunctionOnSet(c, Players)
    BY DEF Held
  <2> HIDE DEF c
  <2>5. CASE room[r].state = "OPEN"
    <3>1. room[r].creator \in Players /\ room[r].challenger \notin Players
      BY <2>5, EscrowAssumption DEF IInv, Shape
    <3>2. SumFunctionOnSet(c, Players) = c[room[r].creator]
      BY <3>1, <2>3, <1>1, EscrowAssumption, SumOne
    <3>3. Locked(r) = s
      BY <2>5 DEF Locked
    <3> QED BY <3>1, <3>2, <3>3, <2>1, <2>2, <2>3, <2>4, <1>1 DEF Held
  <2>6. CASE room[r].state = "JOINED"
    <3>1. room[r].creator \in Players /\ room[r].challenger \in Players
      BY <2>6 DEF IInv, Shape
    <3>2. SumFunctionOnSet(c, Players) = c[room[r].creator] + c[room[r].challenger]
      BY <3>1, <1>9, <2>3, <1>1, EscrowAssumption, SumTwo
    <3>3. Locked(r) = s * 2
      BY <2>6 DEF Locked
    <3> QED BY <3>1, <3>2, <3>3, <2>1, <2>2, <2>3, <2>4, <1>1 DEF Held
  <2> QED BY <2>5, <2>6
<1>12. totalLiability' = totalLiability + 0 /\ usdc'[Escrow] = usdc[Escrow] + 0
  BY EscrowAssumption DEF IInv, TypeOK
<1> QED BY <1>6, <1>8, <1>10, <1>11, <1>12, LocalStep

\* settle turns both locked stakes into the winner's credit.
LEMMA SettleStep ==
    ASSUME IInv, NEW a, NEW r \in Rooms, NEW w \in Players, Settle(a, r, w)
    PROVE  IInv'
<1> DEFINE s == room[r].stake
           settled == [room[r] EXCEPT !.state = "SETTLED", !.winner = w]
<1>1. s \in Nat /\ room[r] \in Room
  BY DEF IInv, TypeOK, Room
<1>2. settled \in Room /\ settled.creator = room[r].creator
      /\ settled.challenger = room[r].challenger /\ settled.stake = s
      /\ settled.state = "SETTLED" /\ settled.winner = w
  BY <1>1 DEF Room, State
<1>3. /\ room' = [room EXCEPT ![r] = settled] /\ room[r].state = "JOINED"
      /\ creditOf' = [creditOf EXCEPT ![r] = [creditOf[r] EXCEPT ![w] = s * 2]]
      /\ UNCHANGED <<totalLiability, usdc, allowance, now>>
  BY DEF Settle, token, IInv, TypeOK
<1>4. \A p \in Players : creditOf[r][p] = 0
  BY <1>3 DEF IInv, Shape, Decided
<1> HIDE DEF settled
<1>5. room'[r] = settled /\ \A x \in Rooms \ {r} : room'[x] = room[x] /\ creditOf'[x] = creditOf[x]
  BY <1>3 DEF IInv, TypeOK
<1>6. \A p \in Players : creditOf'[r][p] = IF p = w THEN s * 2 ELSE 0
  BY <1>3, <1>4 DEF IInv, TypeOK
<1>7. TypeOK'
  <2>1. [creditOf[r] EXCEPT ![w] = s * 2] \in [Players -> Nat]
    BY <1>1 DEF IInv, TypeOK
  <2> QED BY <1>2, <1>3, <2>1 DEF IInv, TypeOK
<1>8. room[r].creator \in Players /\ room[r].challenger \in Players
      /\ room[r].challenger # room[r].creator
  BY <1>3 DEF IInv, Shape
<1>9. Shape(r)'
  BY <1>2, <1>5, <1>6, <1>8 DEF Shape, Decided
<1>10. Held(r)' = Held(r) + 0
  <2>1. SumFunctionOnSet(creditOf[r], Players) = 0
    BY <1>4, NoCredits
  <2>2. Locked(r)' = 0 /\ Locked(r) = s * 2
    BY <1>2, <1>3, <1>5 DEF Locked
  <2> DEFINE c == creditOf'[r]
  <2>3. \A p \in Players : c[p] = IF p = w THEN s * 2 ELSE 0
    BY <1>6
  <2>4. Held(r)' = Locked(r)' + SumFunctionOnSet(c, Players)
    BY DEF Held
  <2> HIDE DEF c
  <2>5. SumFunctionOnSet(c, Players) = c[w]
    BY <2>3, <1>1, EscrowAssumption, SumOne
  <2> QED BY <1>1, <2>1, <2>2, <2>3, <2>4, <2>5 DEF Held
<1>11. totalLiability' = totalLiability + 0 /\ usdc'[Escrow] = usdc[Escrow] + 0
  BY <1>3, EscrowAssumption DEF IInv, TypeOK
<1> QED BY <1>5, <1>7, <1>9, <1>10, <1>11, LocalStep

\* withdraw takes one credit off the room, the liability and the balance.
LEMMA WithdrawStep ==
    ASSUME IInv, NEW p \in Players, NEW r \in Rooms, Withdraw(p, r)
    PROVE  IInv'
<1> DEFINE amount == creditOf[r][p]
<1>1. amount \in Nat /\ amount > 0
  BY DEF IInv, TypeOK, Withdraw
<1>2. amount <= totalLiability /\ amount <= usdc[Escrow] /\ usdc[Escrow] \in Nat
  BY CreditCovered, EscrowAssumption DEF IInv, LiabilityBacked, TypeOK
<1>3. TypeOK'
  BY <1>1, <1>2, EscrowAssumption DEF IInv, TypeOK, Withdraw
<1>4. /\ room' = room
      /\ \A x \in Rooms \ {r} : creditOf'[x] = creditOf[x]
      /\ \A q \in Players \ {p} : creditOf'[r][q] = creditOf[r][q]
      /\ creditOf'[r][p] = 0
  BY DEF IInv, TypeOK, Withdraw
<1>5. Shape(r)'
  BY <1>4 DEF IInv, Shape, Decided
<1>6. Held(r)' = Held(r) + (0 - amount)
  <2> DEFINE f == creditOf[r]
             g == creditOf'[r]
  <2>2. /\ \A q \in Players : f[q] \in Int /\ g[q] \in Int
        /\ \A q \in Players \ {p} : g[q] = f[q]
        /\ g[p] = 0 /\ f[p] = amount
    BY <1>4 DEF IInv, TypeOK
  <2>3. Locked(r)' = Locked(r) /\ Locked(r) \in Nat
        /\ SumFunctionOnSet(f, Players) \in Nat
    BY HeldType DEF IInv, Withdraw, Locked
  <2>4. Held(r) = Locked(r) + SumFunctionOnSet(f, Players)
        /\ Held(r)' = Locked(r)' + SumFunctionOnSet(g, Players)
    BY DEF Held
  <2>0. IsFiniteSet(Players)
    BY EscrowAssumption
  <2> HIDE DEF f, g, amount
  <2>5. SumFunctionOnSet(g, Players) = SumFunctionOnSet(f, Players) - f[p] + g[p]
    BY ONLY <2>0, <2>2, p \in Players, SumUpdate
  <2> QED BY <1>1, <2>2, <2>3, <2>4, <2>5
<1>7. /\ totalLiability' = totalLiability + (0 - amount)
      /\ usdc'[Escrow] = usdc[Escrow] + (0 - amount)
  BY <1>1, <1>2, EscrowAssumption DEF IInv, TypeOK, Withdraw
<1>8. 0 - amount \in Int
  BY <1>1
<1> HIDE DEF amount
<1> QED BY <1>3, <1>4, <1>5, <1>6, <1>7, <1>8, LocalStep

-----------------------------------------------------------------------------

\* Every transaction of the contract preserves the inductive invariant.
LEMMA NextIInv == IInv /\ [Next]_vars => IInv'
<1> SUFFICES ASSUME IInv, [Next]_vars PROVE IInv'
  OBVIOUS
<1>1. ASSUME NEW p \in Players, NEW amount \in Stakes, Approve(p, amount) PROVE IInv'
  <2>1. TypeOK'
    BY <1>1, EscrowAssumption DEF IInv, TypeOK, Approve
  <2> QED BY <1>1, <2>1, QuietStep DEF Approve
<1>2. ASSUME NEW p \in Players, NEW r \in Rooms, NEW v \in Versions, NEW s \in Stakes,
             NEW jd \in 1..Horizon, NEW rd \in 1..Horizon,
             CreateRoom(p, r, v, s, jd, rd)
      PROVE  IInv'
  BY <1>2, CreateStep
<1>3. ASSUME NEW p \in Players, NEW r \in Rooms, NEW v \in Versions, JoinRoom(p, r, v)
      PROVE  IInv'
  BY <1>3, JoinStep
<1>a. ASSUME NEW r \in Rooms, room[r].state \in {"OPEN", "JOINED"},
             OpenRefunds(r, room[r]), UNCHANGED <<totalLiability, usdc, allowance, now>>
      PROVE  IInv'
  <2>1. /\ room[r].cancelRequested \in SUBSET Players
        /\ room[r] = [room[r] EXCEPT !.cancelRequested = room[r].cancelRequested]
    BY DEF IInv, TypeOK, Room
  <2>2. OpenRefunds(r, [room[r] EXCEPT !.cancelRequested = room[r].cancelRequested])
    BY <1>a, <2>1
  <2> QED BY <1>a, <2>1, <2>2, RefundStep
<1>4. ASSUME NEW p \in Players, NEW r \in Rooms, CancelRoom(p, r) PROVE IInv'
  BY <1>4, <1>a DEF CancelRoom, token
<1>5. ASSUME NEW p \in Players, NEW r \in Rooms, RequestCancel(p, r) PROVE IInv'
  <2> DEFINE flags == room[r].cancelRequested \cup {p}
             flagged == [room[r] EXCEPT !.cancelRequested = flags]
  <2>1. flags \in SUBSET Players /\ room[r].state = "JOINED"
    BY <1>5 DEF IInv, TypeOK, Room, RequestCancel
  <2>2. CASE flagged.cancelRequested = {room[r].creator, room[r].challenger}
    <3>1. OpenRefunds(r, flagged) /\ UNCHANGED <<totalLiability, usdc, allowance, now>>
      BY <1>5, <2>2 DEF RequestCancel, token
    <3> HIDE DEF flags
    <3> QED BY <2>1, <3>1, RefundStep
  <2>3. CASE flagged.cancelRequested # {room[r].creator, room[r].challenger}
    <3>1. /\ room' = [room EXCEPT ![r] = flagged]
          /\ UNCHANGED <<creditOf, totalLiability, usdc, allowance, now>>
      BY <1>5, <2>3 DEF RequestCancel, token
    <3>2. flagged \in Room /\ flagged.state = "JOINED" /\ flagged.stake = room[r].stake
          /\ flagged.creator = room[r].creator /\ flagged.challenger = room[r].challenger
      BY <2>1 DEF IInv, TypeOK, Room
    <3> HIDE DEF flagged
    <3>3. room'[r] = flagged /\ \A x \in Rooms \ {r} : room'[x] = room[x]
      BY <3>1 DEF IInv, TypeOK
    <3>4. TypeOK'
      BY <3>1, <3>2 DEF IInv, TypeOK
    <3>5. Shape(r)'
      BY <2>1, <3>1, <3>2, <3>3 DEF IInv, Shape, Decided
    <3>6. Held(r)' = Held(r) + 0
      <4>1. Locked(r)' = Locked(r)
        BY <2>1, <3>2, <3>3 DEF Locked
      <4> QED BY <3>1, <4>1, HeldType DEF Held, IInv
    <3>7. totalLiability' = totalLiability + 0 /\ usdc'[Escrow] = usdc[Escrow] + 0
      BY <3>1, EscrowAssumption DEF IInv, TypeOK
    <3> QED BY <3>1, <3>3, <3>4, <3>5, <3>6, <3>7, LocalStep
  <2> QED BY <2>2, <2>3
<1>6. ASSUME NEW r \in Rooms, ExpireRoom(r) PROVE IInv'
  BY <1>6, <1>a DEF ExpireRoom, token
<1>7. ASSUME NEW a \in Players \cup {Operator}, NEW r \in Rooms, NEW w \in Players,
             Settle(a, r, w)
      PROVE  IInv'
  BY <1>7, SettleStep
<1>8. ASSUME NEW p \in Players, NEW r \in Rooms, Withdraw(p, r) PROVE IInv'
  BY <1>8, WithdrawStep
<1>9. CASE Tick
  <2>1. TypeOK'
    BY <1>9, EscrowAssumption DEF IInv, TypeOK, Tick, token
  <2> QED BY <1>9, <2>1, QuietStep DEF Tick, token
<1>10. CASE UNCHANGED vars
  <2>1. TypeOK'
    BY <1>10 DEF IInv, TypeOK, vars
  <2> QED BY <1>10, <2>1, QuietStep DEF vars
<1> QED
  BY <1>1, <1>2, <1>3, <1>4, <1>5, <1>6, <1>7, <1>8, <1>9, <1>10 DEF Next

\* The contract's variables always have their types, in particular no
\* subtraction of stakes, credits or liability ever goes below zero.
THEOREM TypeCorrect == Spec => []TypeOK
<1>1. IInv => TypeOK
  BY DEF IInv
<1> QED BY InitIInv, NextIInv, <1>1, PTL DEF Spec

\* For any number of rooms and players: totalLiability is the sum of what the
\* rooms hold, and the escrow's USDC balance is exactly that.
THEOREM LiabilityAlwaysBacked == Spec => []LiabilityBacked
<1>1. IInv => LiabilityBacked
  BY DEF IInv
<1> QED BY InitIInv, NextIInv, <1>1, PTL DEF Spec

\* For any number of rooms and players: credits follow the outcome.
THEOREM CreditsAlwaysMatch == Spec => []CreditMatchesOutcome
<1>1. IInv => CreditMatchesOutcome
  BY DEF IInv, TypeOK, Room, State, Shape, Decided, CreditMatchesOutcome
<1> QED BY InitIInv, NextIInv, <1>1, PTL DEF Spec

-----------------------------------------------------------------------------
(* Action properties. *)

\* A decided room is frozen and its credits only shrink, for any number of
\* rooms, players and later transactions.
THEOREM OutcomeIsFinal == Spec => OutcomeFinal
<1> DEFINE Frozen == \A r \in Rooms : Decided(r) =>
                        /\ room'[r] = room[r]
                        /\ \A p \in Players : creditOf'[r][p] <= creditOf[r][p]
<1>1. ASSUME IInv, [Next]_vars PROVE Frozen
  <2> SUFFICES ASSUME NEW x \in Rooms, Decided(x)
               PROVE  /\ room'[x] = room[x]
                      /\ \A q \in Players : creditOf'[x][q] <= creditOf[x][q]
    OBVIOUS
  <2>0. \A q \in Players : creditOf[x][q] \in Nat
    BY <1>1 DEF IInv, TypeOK
  <2> USE <2>0
  <2>1. CASE UNCHANGED <<room, creditOf>>
    BY <2>1
  <2>2. ASSUME NEW p \in Players, NEW r \in Rooms, NEW v \in Versions, NEW s \in Stakes,
               NEW jd \in 1..Horizon, NEW rd \in 1..Horizon,
               CreateRoom(p, r, v, s, jd, rd)
        PROVE  room'[x] = room[x] /\ creditOf' = creditOf
    BY <1>1, <2>2 DEF CreateRoom, Decided, IInv, TypeOK
  <2>3. ASSUME NEW p \in Players, NEW r \in Rooms, NEW v \in Versions, JoinRoom(p, r, v)
        PROVE  room'[x] = room[x] /\ creditOf' = creditOf
    BY <1>1, <2>3 DEF JoinRoom, Decided, IInv, TypeOK
  <2>4. ASSUME NEW r \in Rooms, NEW current, OpenRefunds(r, current), ~Decided(r)
        PROVE  room'[x] = room[x] /\ creditOf'[x] = creditOf[x]
    BY <1>1, <2>4 DEF OpenRefunds, IInv, TypeOK
  <2>5. ASSUME NEW p \in Players, NEW r \in Rooms, CancelRoom(p, r)
        PROVE  room'[x] = room[x] /\ creditOf'[x] = creditOf[x]
    BY <2>4, <2>5 DEF CancelRoom, Decided
  <2>6. ASSUME NEW p \in Players, NEW r \in Rooms, RequestCancel(p, r)
        PROVE  room'[x] = room[x] /\ creditOf'[x] = creditOf[x]
    <3> DEFINE flagged == [room[r] EXCEPT !.cancelRequested = @ \cup {p}]
    <3>1. room[r].state = "JOINED" /\ ~Decided(r)
      BY <2>6 DEF RequestCancel, Decided
    <3>2. OpenRefunds(r, flagged) \/ (room' = [room EXCEPT ![r] = flagged] /\ creditOf' = creditOf)
      BY <2>6 DEF RequestCancel
    <3> HIDE DEF flagged
    <3> QED BY <1>1, <2>4, <3>1, <3>2 DEF IInv, TypeOK
  <2>7. ASSUME NEW r \in Rooms, ExpireRoom(r)
        PROVE  room'[x] = room[x] /\ creditOf'[x] = creditOf[x]
    BY <2>4, <2>7 DEF ExpireRoom, Decided
  <2>8. ASSUME NEW a \in Players \cup {Operator}, NEW r \in Rooms, NEW w \in Players,
               Settle(a, r, w)
        PROVE  room'[x] = room[x] /\ creditOf'[x] = creditOf[x]
    BY <1>1, <2>8 DEF Settle, Decided, IInv, TypeOK
  <2>9. ASSUME NEW p \in Players, NEW r \in Rooms, Withdraw(p, r)
        PROVE  /\ room'[x] = room[x]
               /\ \A q \in Players : creditOf'[x][q] <= creditOf[x][q]
    BY <1>1, <2>9 DEF Withdraw, IInv, TypeOK
  <2>10. ASSUME NEW p \in Players, NEW amount \in Stakes, Approve(p, amount)
         PROVE  UNCHANGED <<room, creditOf>>
    BY <2>10 DEF Approve
  <2>11. Tick \/ UNCHANGED vars => UNCHANGED <<room, creditOf>>
    BY DEF Tick, vars
  <2> QED
    BY <1>1, <2>1, <2>2, <2>3, <2>5, <2>6, <2>7, <2>8, <2>9, <2>10, <2>11 DEF Next
<1>2. IInv /\ [Next]_vars => [Frozen]_vars
  BY <1>1
<1> QED BY <1>2, InitIInv, NextIInv, PTL DEF Spec, OutcomeFinal

\* For every room and whatever the operator and the players call: a verdict
\* pays a joined room only before resolutionDeadline, and a refund needs the
\* deadline or both players.
THEOREM DeadlineAlwaysSplits == Spec => DeadlineSplitsOutcomes
<1> DEFINE Split == \A r \in Rooms : room[r].state = "JOINED" =>
                       /\ room'[r].state = "SETTLED" => now < room[r].resolutionDeadline
                       /\ room'[r].state = "REFUNDABLE" =>
                             \/ now >= room[r].resolutionDeadline
                             \/ room'[r].cancelRequested
                                   = {room[r].creator, room[r].challenger}
<1>1. ASSUME IInv, [Next]_vars PROVE Split
  <2> SUFFICES ASSUME NEW x \in Rooms, room[x].state = "JOINED"
               PROVE  /\ room'[x].state = "SETTLED" => now < room[x].resolutionDeadline
                      /\ room'[x].state = "REFUNDABLE" =>
                            \/ now >= room[x].resolutionDeadline
                            \/ room'[x].cancelRequested
                                  = {room[x].creator, room[x].challenger}
    OBVIOUS
  <2>1. CASE room'[x] = room[x]
    BY <2>1
  <2>2. ASSUME NEW p \in Players, NEW r \in Rooms, NEW v \in Versions, NEW s \in Stakes,
               NEW jd \in 1..Horizon, NEW rd \in 1..Horizon,
               CreateRoom(p, r, v, s, jd, rd)
        PROVE  room'[x] = room[x]
    BY <1>1, <2>2 DEF CreateRoom, IInv, TypeOK
  <2>3. ASSUME NEW p \in Players, NEW r \in Rooms, NEW v \in Versions, JoinRoom(p, r, v)
        PROVE  room'[x] = room[x]
    BY <1>1, <2>3 DEF JoinRoom, IInv, TypeOK
  <2>4. ASSUME NEW p \in Players, NEW r \in Rooms, CancelRoom(p, r)
        PROVE  room'[x] = room[x]
    BY <1>1, <2>4 DEF CancelRoom, OpenRefunds, IInv, TypeOK
  <2>5. ASSUME NEW p \in Players, NEW r \in Rooms, RequestCancel(p, r)
        PROVE  \/ room'[x] = room[x]
               \/ room'[x].state = "JOINED"
               \/ /\ room'[x].state = "REFUNDABLE"
                  /\ room'[x].cancelRequested = {room[x].creator, room[x].challenger}
    <3> DEFINE flagged == [room[r] EXCEPT !.cancelRequested = @ \cup {p}]
    <3>1. CASE x # r
      BY <1>1, <2>5, <3>1 DEF RequestCancel, OpenRefunds, IInv, TypeOK
    <3>2. CASE x = r /\ flagged.cancelRequested = {room[r].creator, room[r].challenger}
      <4>1. room' = [room EXCEPT ![r] = [flagged EXCEPT !.state = "REFUNDABLE"]]
        BY <2>5, <3>2 DEF RequestCancel, OpenRefunds
      <4>2. flagged \in Room
        <5>1. room[r] \in Room
          BY <1>1 DEF IInv, TypeOK
        <5> QED BY <5>1 DEF Room
      <4>3. /\ room'[x].state = "REFUNDABLE"
            /\ room'[x].cancelRequested = flagged.cancelRequested
        <5> HIDE DEF flagged
        <5> QED BY <1>1, <3>2, <4>1, <4>2 DEF IInv, TypeOK, Room
      <4> QED BY <3>2, <4>3
    <3>3. CASE x = r /\ flagged.cancelRequested # {room[r].creator, room[r].challenger}
      <4>1. room' = [room EXCEPT ![r] = flagged]
        BY <2>5, <3>3 DEF RequestCancel
      <4>2. room[r] \in Room
        BY <1>1 DEF IInv, TypeOK
      <4> QED BY <1>1, <3>3, <4>1, <4>2 DEF IInv, TypeOK, Room
    <3> QED BY <3>1, <3>2, <3>3
  <2>6. ASSUME NEW r \in Rooms, ExpireRoom(r)
        PROVE  \/ room'[x] = room[x]
               \/ room'[x].state = "REFUNDABLE" /\ now >= room[x].resolutionDeadline
    BY <1>1, <2>6 DEF ExpireRoom, OpenRefunds, IInv, TypeOK, Room
  <2>7. ASSUME NEW a \in Players \cup {Operator}, NEW r \in Rooms, NEW w \in Players,
               Settle(a, r, w)
        PROVE  \/ room'[x] = room[x]
               \/ room'[x].state = "SETTLED" /\ now < room[x].resolutionDeadline
    BY <1>1, <2>7 DEF Settle, IInv, TypeOK, Room
  <2>8. ASSUME NEW p \in Players, NEW r \in Rooms, Withdraw(p, r)
        PROVE  room'[x] = room[x]
    BY <2>8 DEF Withdraw
  <2>9. ASSUME NEW p \in Players, NEW amount \in Stakes, Approve(p, amount)
        PROVE  room'[x] = room[x]
    BY <2>9 DEF Approve
  <2>10. Tick \/ UNCHANGED vars => room'[x] = room[x]
    BY DEF Tick, vars
  <2>11. CASE \E p \in Players, r \in Rooms : RequestCancel(p, r)
    BY <2>1, <2>5, <2>11
  <2>12. CASE \E r \in Rooms : ExpireRoom(r)
    BY <2>1, <2>6, <2>12
  <2>13. CASE \E a \in Players \cup {Operator}, r \in Rooms, w \in Players : Settle(a, r, w)
    BY <2>1, <2>7, <2>13
  <2> QED
    BY <1>1, <2>1, <2>2, <2>3, <2>4, <2>8, <2>9, <2>10, <2>11, <2>12, <2>13
       DEF Next
<1>2. IInv /\ [Next]_vars => [Split]_vars
  BY <1>1
<1> QED BY <1>2, InitIInv, NextIInv, PTL DEF Spec, DeadlineSplitsOutcomes

-----------------------------------------------------------------------------
(* The refinement of the wager. *)

\* The refinement mapping on each contract state.
LEMMA StageValues ==
    /\ StageOf("NONE") = "empty"
    /\ StageOf("OPEN") = "half"
    /\ StageOf("JOINED") = "full"
    /\ StageOf("SETTLED") = "won"
    /\ StageOf("REFUNDABLE") = "returned"
BY DEF StageOf

\* The contract starts as the wager does.
LEMMA WagerInit == Init => Wager!Init
<1> SUFFICES ASSUME Init PROVE Wager!Init
  OBVIOUS
<1>1. Stage = [r \in Rooms |-> "empty"]
  BY StageValues DEF Init, Stage, NoRoom
<1>2. Members = [r \in Rooms |-> {}]
  BY DEF Init, Members, NoRoom
<1>3. StakeOf = [r \in Rooms |-> 0]
  BY DEF Init, StakeOf, NoRoom
<1>4. Wallet = [p \in Players |-> Funds]
  BY EscrowAssumption DEF Init, Wallet
<1> QED BY <1>1, <1>2, <1>3, <1>4 DEF Wager!Init, Init

\* Taking a stake is the wager's Put.
LEMMA WagerPut ==
    ASSUME IInv, NEW r \in Rooms, NEW p \in Players, NEW s \in Nat, Deposit(p, s),
           room' = [room EXCEPT ![r] = room'[r]],
           Members'[r] = Members[r] \cup {p}, creditOf' = creditOf
    PROVE  Wager!Put(r, p, s)
<1>1. Wallet[p] >= s
  BY DEF Wallet, Deposit
<1>2. Wallet' = [Wallet EXCEPT ![p] = @ - s]
  BY EscrowAssumption DEF Wallet, Deposit, IInv, TypeOK
<1>3. \A x \in Rooms \ {r} : room'[x] = room[x]
  BY DEF IInv, TypeOK
<1>4. Members' = [Members EXCEPT ![r] = @ \cup {p}]
  BY <1>3 DEF Members
<1> QED BY <1>1, <1>2, <1>4 DEF Wager!Put

\* Opening refunds is the wager's Return.
LEMMA WagerReturn ==
    ASSUME IInv, NEW r \in Rooms, room[r].state \in {"OPEN", "JOINED"},
           NEW flags \in SUBSET Players,
           OpenRefunds(r, [room[r] EXCEPT !.cancelRequested = flags]),
           UNCHANGED <<totalLiability, usdc, allowance, now>>
    PROVE  Wager!Return(r)
<1> DEFINE flagged == [room[r] EXCEPT !.cancelRequested = flags]
           refunded == [flagged EXCEPT !.state = "REFUNDABLE"]
<1>1. flagged \in Room /\ flagged.creator = room[r].creator
      /\ flagged.challenger = room[r].challenger /\ flagged.stake = room[r].stake
  BY DEF Room, IInv, TypeOK
<1>2. refunded.creator = room[r].creator /\ refunded.challenger = room[r].challenger
      /\ refunded.stake = room[r].stake /\ refunded.state = "REFUNDABLE"
  <2> HIDE DEF flagged
  <2> QED BY <1>1 DEF Room, State
<1>3. /\ room' = [room EXCEPT ![r] = refunded]
      /\ creditOf' = [creditOf EXCEPT ![r] = [p \in Players |->
            IF p \in {flagged.creator, flagged.challenger}
            THEN flagged.stake ELSE creditOf[r][p]]]
  BY DEF OpenRefunds, IInv, TypeOK
<1> HIDE DEF refunded, flagged
<1>4. room'[r] = refunded /\ \A x \in Rooms \ {r} : room'[x] = room[x]
  BY <1>3 DEF IInv, TypeOK
<1>5. Stage[r] \in {"half", "full"} /\ Stage' = [Stage EXCEPT ![r] = "returned"]
  BY <1>2, <1>4, StageValues DEF Stage
<1>6. Members' = Members /\ StakeOf' = StakeOf /\ Wallet' = Wallet
  BY <1>2, <1>4 DEF Members, StakeOf, Wallet
<1>7. \A p \in Players : creditOf[r][p] = 0
  BY DEF IInv, Shape, Decided
<1>8. creditOf' = [creditOf EXCEPT ![r] = [p \in Players |->
                      IF p \in Members[r] THEN StakeOf[r] ELSE 0]]
  BY <1>1, <1>3, <1>7, EscrowAssumption DEF Members, StakeOf
<1> QED BY <1>5, <1>6, <1>8 DEF Wager!Return

\* The contract implements the wager: every transaction takes one stake, gives
\* both to one of the two players, returns each its own, pays a credit once,
\* or is invisible to the players' money.
THEOREM EscrowImplementsWager == Spec => WagerHonoured
<1>1. ASSUME IInv, [Next]_vars PROVE [Wager!Next]_(Wager!wagerVars)
  <2>0. ASSUME NEW r \in Rooms, room[r].state \in {"OPEN", "JOINED"},
               OpenRefunds(r, room[r]), UNCHANGED <<totalLiability, usdc, allowance, now>>
        PROVE  Wager!Return(r)
    <3>1. /\ room[r].cancelRequested \in SUBSET Players
          /\ room[r] = [room[r] EXCEPT !.cancelRequested = room[r].cancelRequested]
      BY <1>1 DEF IInv, TypeOK, Room
    <3>2. OpenRefunds(r, [room[r] EXCEPT !.cancelRequested = room[r].cancelRequested])
      BY <2>0, <3>1
    <3> QED BY <1>1, <2>0, <3>1, <3>2, WagerReturn
  <2>1. ASSUME NEW p \in Players, NEW amount \in Stakes, Approve(p, amount)
        PROVE  UNCHANGED <<Stage, Members, StakeOf, creditOf, Wallet>>
    BY <2>1 DEF Approve, Stage, Members, StakeOf, Wallet
  <2>2. ASSUME NEW p \in Players, NEW r \in Rooms, NEW v \in Versions, NEW s \in Stakes,
               NEW jd \in 1..Horizon, NEW rd \in 1..Horizon,
               CreateRoom(p, r, v, s, jd, rd)
        PROVE  Wager!Open(r, p, s)
    <3> DEFINE created ==
          [creator |-> p, challenger |-> None, creatorAgentVersion |-> v,
           challengerAgentVersion |-> None, stake |-> s, joinDeadline |-> jd,
           resolutionDeadline |-> rd, state |-> "OPEN", winner |-> None,
           cancelRequested |-> {}]
    <3>1. /\ room' = [room EXCEPT ![r] = created] /\ creditOf' = creditOf
          /\ room[r].state = "NONE" /\ Deposit(p, s)
      BY <2>2 DEF CreateRoom
    <3>2. room[r] = NoRoom
      BY <1>1, <3>1 DEF IInv, Shape
    <3>3. s \in Nat
      BY EscrowAssumption
    <3>4. /\ created.creator = p /\ created.challenger = None
          /\ created.stake = s /\ created.state = "OPEN"
      OBVIOUS
    <3> HIDE DEF created
    <3>5. room'[r] = created /\ \A x \in Rooms \ {r} : room'[x] = room[x]
      BY <1>1, <3>1 DEF IInv, TypeOK
    <3>6. Members[r] = {} /\ Members'[r] = Members[r] \cup {p}
      BY <3>2, <3>4, <3>5, EscrowAssumption DEF Members, NoRoom
    <3>7. Wager!Put(r, p, s)
      BY <1>1, <3>1, <3>3, <3>5, <3>6, WagerPut
    <3>8. Stage[r] = "empty" /\ Stage' = [Stage EXCEPT ![r] = "half"]
      <4>1. StageOf(room[r].state) = "empty" /\ StageOf(room'[r].state) = "half"
        BY <3>1, <3>4, <3>5, StageValues
      <4>2. \A x \in Rooms \ {r} : StageOf(room'[x].state) = StageOf(room[x].state)
        BY <3>1, <3>4, <3>5
      <4> QED BY <4>1, <4>2 DEF Stage
    <3>9. StakeOf' = [StakeOf EXCEPT ![r] = s]
      BY <3>4, <3>5 DEF StakeOf
    <3> QED BY <3>7, <3>8, <3>9 DEF Wager!Open
  <2>3. ASSUME NEW p \in Players, NEW r \in Rooms, NEW v \in Versions, JoinRoom(p, r, v)
        PROVE  Wager!Match(r, p)
    <3> DEFINE joined == [room[r] EXCEPT !.challenger = p, !.challengerAgentVersion = v,
                                         !.state = "JOINED"]
               s == room[r].stake
    <3>0. room[r] \in Room /\ s \in Nat
      BY <1>1 DEF IInv, TypeOK, Room
    <3>1. /\ room' = [room EXCEPT ![r] = joined] /\ creditOf' = creditOf
          /\ room[r].state = "OPEN" /\ Deposit(p, s) /\ p # room[r].creator
      BY <1>1, <2>3 DEF JoinRoom, IInv, TypeOK
    <3>2. /\ joined.creator = room[r].creator /\ joined.challenger = p
          /\ joined.stake = s /\ joined.state = "JOINED"
      BY <3>0 DEF Room
    <3>3. room[r].creator \in Players /\ room[r].challenger = None
      BY <1>1, <3>1 DEF IInv, Shape
    <3> HIDE DEF joined
    <3>4. room'[r] = joined /\ \A x \in Rooms \ {r} : room'[x] = room[x]
      BY <1>1, <3>1 DEF IInv, TypeOK
    <3>5. p \notin Members[r] /\ Members'[r] = Members[r] \cup {p}
      BY <3>1, <3>2, <3>3, <3>4, EscrowAssumption DEF Members
    <3>6. Wager!Put(r, p, s)
      BY <1>1, <3>0, <3>1, <3>4, <3>5, WagerPut
    <3>7. Stage[r] = "half" /\ Stage' = [Stage EXCEPT ![r] = "full"]
      <4>1. StageOf(room[r].state) = "half" /\ StageOf(room'[r].state) = "full"
        BY <3>1, <3>2, <3>4, StageValues
      <4>2. \A x \in Rooms \ {r} : StageOf(room'[x].state) = StageOf(room[x].state)
        BY <3>1, <3>2, <3>4
      <4> QED BY <4>1, <4>2 DEF Stage
    <3>8. StakeOf' = StakeOf /\ StakeOf[r] = s
      BY <3>2, <3>4 DEF StakeOf
    <3> QED BY <3>5, <3>6, <3>7, <3>8 DEF Wager!Match
  <2>4. ASSUME NEW p \in Players, NEW r \in Rooms, CancelRoom(p, r)
        PROVE  Wager!Return(r)
    BY <2>0, <2>4 DEF CancelRoom, token
  <2>5. ASSUME NEW p \in Players, NEW r \in Rooms, RequestCancel(p, r)
        PROVE  Wager!Return(r) \/ UNCHANGED <<Stage, Members, StakeOf, creditOf, Wallet>>
    <3> DEFINE flags == room[r].cancelRequested \cup {p}
               flagged == [room[r] EXCEPT !.cancelRequested = flags]
    <3>0. flags \in SUBSET Players /\ room[r] \in Room
      BY <1>1 DEF IInv, TypeOK, Room
    <3>1. CASE OpenRefunds(r, flagged)
      <4>1. room[r].state = "JOINED" /\ UNCHANGED <<totalLiability, usdc, allowance, now>>
        BY <2>5 DEF RequestCancel, token
      <4> HIDE DEF flags
      <4> QED BY <1>1, <3>0, <3>1, <4>1, WagerReturn
    <3>2. CASE room' = [room EXCEPT ![r] = flagged] /\ creditOf' = creditOf
      <4>1. flagged.creator = room[r].creator /\ flagged.challenger = room[r].challenger
            /\ flagged.stake = room[r].stake /\ flagged.state = room[r].state
        BY <3>0 DEF Room
      <4>2. usdc' = usdc
        BY <2>5 DEF RequestCancel, token
      <4> HIDE DEF flagged
      <4>3. room'[r] = flagged /\ \A x \in Rooms \ {r} : room'[x] = room[x]
        BY <1>1, <3>2 DEF IInv, TypeOK
      <4>4. Stage' = Stage /\ Members' = Members /\ StakeOf' = StakeOf /\ Wallet' = Wallet
        BY <4>1, <4>2, <4>3 DEF Stage, Members, StakeOf, Wallet
      <4> QED BY <3>2, <4>4
    <3> QED BY <2>5, <3>1, <3>2 DEF RequestCancel
  <2>6. ASSUME NEW r \in Rooms, ExpireRoom(r) PROVE Wager!Return(r)
    BY <2>0, <2>6 DEF ExpireRoom, token
  <2>7. ASSUME NEW a \in Players \cup {Operator}, NEW r \in Rooms, NEW w \in Players,
               Settle(a, r, w)
        PROVE  Wager!Award(r, w)
    <3> DEFINE settled == [room[r] EXCEPT !.state = "SETTLED", !.winner = w]
               s == room[r].stake
    <3>0. room[r] \in Room /\ s \in Nat
      BY <1>1 DEF IInv, TypeOK, Room
    <3>1. /\ room' = [room EXCEPT ![r] = settled] /\ room[r].state = "JOINED"
          /\ creditOf' = [creditOf EXCEPT ![r][w] = s * 2] /\ usdc' = usdc
          /\ w \in {room[r].creator, room[r].challenger}
      BY <1>1, <2>7 DEF Settle, token, IInv, TypeOK
    <3>2. settled.creator = room[r].creator /\ settled.challenger = room[r].challenger
          /\ settled.stake = s /\ settled.state = "SETTLED"
      BY <3>0 DEF Room
    <3> HIDE DEF settled
    <3>4. room'[r] = settled /\ \A x \in Rooms \ {r} : room'[x] = room[x]
      BY <1>1, <3>1 DEF IInv, TypeOK
    <3>5. Stage[r] = "full" /\ Stage' = [Stage EXCEPT ![r] = "won"]
      <4>1. StageOf(room[r].state) = "full" /\ StageOf(room'[r].state) = "won"
        BY <3>1, <3>2, <3>4, StageValues
      <4>2. \A x \in Rooms \ {r} : StageOf(room'[x].state) = StageOf(room[x].state)
        BY <3>1, <3>2, <3>4
      <4> QED BY <4>1, <4>2 DEF Stage
    <3>6. Members' = Members /\ StakeOf' = StakeOf /\ Wallet' = Wallet /\ w \in Members[r]
      BY <3>1, <3>2, <3>4, EscrowAssumption DEF Members, StakeOf, Wallet
    <3>7. creditOf' = [creditOf EXCEPT ![r][w] = 2 * StakeOf[r]]
      <4>1. StakeOf[r] = s /\ s * 2 = 2 * s
        BY <3>0 DEF StakeOf
      <4> QED BY <3>1, <4>1
    <3> QED BY <3>5, <3>6, <3>7 DEF Wager!Award
  <2>8. ASSUME NEW p \in Players, NEW r \in Rooms, Withdraw(p, r)
        PROVE  Wager!Collect(r, p)
    <3>1. Stage' = Stage /\ Members' = Members /\ StakeOf' = StakeOf
      BY <2>8 DEF Withdraw, Stage, Members, StakeOf
    <3>2. creditOf[r][p] > 0 /\ creditOf' = [creditOf EXCEPT ![r][p] = 0]
      BY <2>8 DEF Withdraw
    <3>3. Decided(r)
      BY <1>1, <3>2 DEF IInv, Shape
    <3>4. Stage[r] \in {"won", "returned"}
      BY <3>3, StageValues DEF Stage, Decided
    <3>5. Wallet' = [Wallet EXCEPT ![p] = @ + creditOf[r][p]]
      BY <1>1, <2>8, EscrowAssumption DEF Withdraw, Wallet, IInv, TypeOK
    <3> QED BY <3>1, <3>2, <3>4, <3>5 DEF Wager!Collect
  <2>9. Tick \/ UNCHANGED vars => UNCHANGED <<Stage, Members, StakeOf, creditOf, Wallet>>
    BY DEF Tick, vars, token, Stage, Members, StakeOf, Wallet
  <2> QED
    BY <1>1, <2>1, <2>2, <2>3, <2>4, <2>5, <2>6, <2>7, <2>8, <2>9
    DEF Next, Wager!Next, Wager!wagerVars
<1> QED BY <1>1, WagerInit, InitIInv, NextIInv, PTL DEF Spec, WagerHonoured, Wager!Spec

=============================================================================
