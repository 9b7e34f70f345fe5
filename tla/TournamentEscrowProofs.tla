------------------------ MODULE TournamentEscrowProofs ------------------------
(***************************************************************************)
(* Proofs about the prize escrow, for every finite set of tournaments and  *)
(* wallets, any set of policies, any number of ranks, fee and stakes; and  *)
(* about the operator's scripts over it (LiveLifecycle), for any number of *)
(* runs and transactions.                                                  *)
(***************************************************************************)
EXTENDS LiveLifecycle, SumTheorems

\* What a tournament owes is its fee, its credits and its unclaimed refunds.
Owes(t) ==
    tournament[t].totalLiability =
        tournament[t].platformFeeCredit
        + SumFunctionOnSet(credits[t], Accounts) + Unclaimed(t)

\* An identifier nobody created has no entrants and the zero policy.
Uncreated(t) ==
    /\ tournament[t].policy = NoPolicy
    /\ tournament[t].state \in Undecided
    /\ entered[t] = {}

\* Before a decision every entered wallet's stake is locked and nothing is owed.
Open(t) ==
    /\ tournament[t].totalLockedStakes =
          tournament[t].policy.stake * Cardinality(entered[t])
    /\ tournament[t].platformFeeCredit = 0
    /\ tournament[t].settlementNonce = 0
    /\ refunds[t] = {}
    /\ \A a \in Accounts : credits[t][a] = 0

\* After a settlement only wallets of ranked entrants have credits.
Divided(t) ==
    /\ tournament[t].settlementNonce # 0
    /\ \A a \in Accounts : credits[t][a] > 0 =>
          \E e \in Entrants : entrant[t][e].ranked /\ entrant[t][e].wallet = a

\* After a cancellation only wallets that claimed have credits, of one stake.
Returned(t) ==
    /\ tournament[t].platformFeeCredit = 0
    /\ tournament[t].settlementNonce = 0
    /\ refunds[t] \subseteq entered[t]
    /\ \A a \in Accounts : credits[t][a] > 0 =>
          a \in refunds[t] /\ credits[t][a] = tournament[t].policy.stake

\* After closing nothing is owed, and all refunds were claimed if there were any.
Finished(t) ==
    /\ tournament[t].totalLiability = 0
    /\ tournament[t].platformFeeCredit = 0
    /\ tournament[t].settlementNonce = 0 => refunds[t] = entered[t]
    /\ \A a \in Accounts : credits[t][a] = 0

Shape(t) ==
    /\ IF t \in created THEN Valid(tournament[t].policy) ELSE Uncreated(t)
    /\ \A e \in Entrants :
          entrant[t][e].wallet # None => entrant[t][e].wallet \in entered[t]
    /\ IF tournament[t].state \in Undecided
       THEN Open(t) ELSE tournament[t].totalLockedStakes = 0
    /\ tournament[t].state = "SETTLED" => Divided(t)
    /\ tournament[t].state = "CANCELLED_REFUNDABLE" => Returned(t)
    /\ tournament[t].state = "CLOSED" => Finished(t)

\* The inductive invariant.
IInv == TypeOK /\ BooksBalance /\ \A t \in Tournaments : Shape(t)

-----------------------------------------------------------------------------
(* Dividing a pool. *)

\* Flooring division never gives out more than there is.
LEMMA FloorDivision ==
    ASSUME NEW n \in Nat, NEW d \in Nat \ {0}
    PROVE  n \div d \in Nat /\ d * (n \div d) <= n
OBVIOUS

\* There are finitely many ranks, and a first one.
LEMMA RanksFinite == IsFiniteSet(Ranks) /\ 1 \in Ranks
BY TournamentAssumption, FS_Interval DEF Ranks

\* The platform's fee never exceeds the pool.
LEMMA FeeBound ==
    ASSUME NEW pool \in Nat
    PROVE  Fee(pool) \in Nat /\ Fee(pool) <= pool /\ Net(pool) \in Nat
<1>1. FeeBps \in Nat /\ Denominator \in Nat \ {0} /\ FeeBps <= Denominator
  BY TournamentAssumption
<1> DEFINE fee == (pool * FeeBps) \div Denominator
<1>2. pool * FeeBps \in Nat
  BY <1>1
<1>3. fee \in Nat /\ Denominator * fee <= pool * FeeBps
  BY <1>1, <1>2, FloorDivision
<1>4. pool * FeeBps <= pool * Denominator
  BY <1>1
<1> HIDE DEF fee
<1>5. Denominator * fee <= Denominator * pool
  BY <1>1, <1>2, <1>3, <1>4
<1>6. fee <= pool
  BY <1>1, <1>3, <1>5
<1>7. Fee(pool) = fee
  BY DEF Fee, fee
<1> QED BY <1>3, <1>6, <1>7 DEF Net

\* The floored shares leave a remainder of at least nothing.
LEMMA ShareBound ==
    ASSUME NEW pool \in Nat, NEW bps \in [Ranks -> Nat],
           SumFunctionOnSet(bps, Ranks) = Denominator
    PROVE  /\ Share(pool, bps) \in [Ranks -> Nat]
           /\ SumFunctionOnSet(Share(pool, bps), Ranks) \in Nat
           /\ Remainder(pool, bps) \in Nat
<1> DEFINE share == Share(pool, bps)
           net == Net(pool)
<1>1. net \in Nat /\ Denominator \in Nat \ {0}
  BY FeeBound, TournamentAssumption
<1>2. ASSUME NEW i \in Ranks
      PROVE  share[i] \in Nat /\ Denominator * share[i] <= net * bps[i]
  <2>1. net * bps[i] \in Nat
    BY <1>1
  <2>2. share[i] = (net * bps[i]) \div Denominator
    BY DEF Share
  <2> HIDE DEF share, net
  <2> QED BY <1>1, <2>1, <2>2, FloorDivision
<1>3. share \in [Ranks -> Nat]
  BY <1>2 DEF Share
<1> HIDE DEF share, net
<1>4. Denominator * SumFunctionOnSet(share, Ranks) <= net * SumFunctionOnSet(bps, Ranks)
  BY <1>1, <1>2, RanksFinite, SumScaled
<1>5. SumFunctionOnSet(share, Ranks) \in Nat
  BY <1>2, RanksFinite, SumNat
<1>6. SumFunctionOnSet(share, Ranks) <= net
  <2> DEFINE s == SumFunctionOnSet(share, Ranks)
  <2>1. Denominator * s <= net * Denominator /\ s \in Nat
    BY <1>4, <1>5
  <2> HIDE DEF s
  <2>2. ASSUME s > net PROVE FALSE
    <3>1. Denominator * s >= Denominator * (net + 1)
      BY <1>1, <2>1, <2>2
    <3>2. Denominator * (net + 1) = net * Denominator + Denominator
      BY <1>1
    <3> QED BY <1>1, <2>1, <3>1, <3>2
  <2> QED BY <1>1, <2>1, <2>2 DEF s
<1>7. Remainder(pool, bps) = net - SumFunctionOnSet(share, Ranks)
  BY DEF Remainder, share, net
<1> QED BY <1>1, <1>3, <1>5, <1>6, <1>7 DEF share

\* The awards of all wallets together are the pool without the fee, whichever
\* wallets the ranks went to.
LEMMA AwardsAddUp ==
    ASSUME NEW pool \in Nat, NEW bps \in [Ranks -> Nat],
           SumFunctionOnSet(bps, Ranks) = Denominator,
           NEW winner \in [Ranks -> Accounts]
    PROVE  /\ \A a \in Accounts : Award(a, pool, bps, winner) \in Nat
           /\ SumFunctionOnSet([a \in Accounts |-> Award(a, pool, bps, winner)], Accounts)
                 = Net(pool)
<1> DEFINE share == Share(pool, bps)
           rest == Remainder(pool, bps)
           ranked == [a \in Accounts |->
                        SumFunctionOnSet(share, {i \in Ranks : winner[i] = a})]
           first == [a \in Accounts |-> IF winner[1] = a THEN rest ELSE 0]
           award == [a \in Accounts |-> Award(a, pool, bps, winner)]
<1>1. share \in [Ranks -> Nat] /\ SumFunctionOnSet(share, Ranks) \in Nat /\ rest \in Nat
  BY ShareBound
<1>2. IsFiniteSet(Accounts)
  BY TournamentAssumption
<1>3. \A a \in Accounts : award[a] = ranked[a] + first[a]
  BY DEF Award
<1>4. ASSUME NEW a \in Accounts PROVE ranked[a] \in Nat /\ first[a] \in Nat
  <2> DEFINE mine == {i \in Ranks : winner[i] = a}
  <2>1. IsFiniteSet(mine) /\ \A i \in mine : share[i] \in Nat
    BY <1>1, RanksFinite, FS_Subset
  <2> HIDE DEF mine, share
  <2>2. SumFunctionOnSet(share, mine) \in Nat
    BY <2>1, SumNat
  <2> QED BY <1>1, <2>2 DEF mine
<1>5. SumFunctionOnSet(ranked, Accounts) = SumFunctionOnSet(share, Ranks)
  <2>1. \A x \in Ranks : share[x] \in Int /\ winner[x] \in Accounts
    BY <1>1
  <2> HIDE DEF share, rest, first, award
  <2>2. SumFunctionOnSet([a \in Accounts |->
              SumFunctionOnSet(share, {i \in Ranks : winner[i] = a})], Accounts)
           = SumFunctionOnSet(share, Ranks)
    BY <1>2, <2>1, RanksFinite, SumFibres
  <2> QED BY <2>2
<1>6. SumFunctionOnSet(first, Accounts) = rest
  <2>1. /\ winner[1] \in Accounts /\ first[winner[1]] = rest /\ rest \in Int
        /\ \A a \in Accounts \ {winner[1]} : first[a] = 0
    BY <1>1, RanksFinite
  <2> HIDE DEF first, rest
  <2> QED BY <1>2, <2>1, SumOne
<1>7. rest = Net(pool) - SumFunctionOnSet(share, Ranks) /\ Net(pool) \in Nat
  BY FeeBound DEF Remainder
<1> HIDE DEF share, rest, ranked, first, award
<1>8. SumFunctionOnSet(award, Accounts)
         = SumFunctionOnSet(ranked, Accounts) + SumFunctionOnSet(first, Accounts)
  BY <1>2, <1>3, <1>4, SumPlus
<1>9. SumFunctionOnSet(award, Accounts) = Net(pool)
  BY <1>1, <1>5, <1>6, <1>7, <1>8
<1>10. \A a \in Accounts : award[a] \in Nat
  BY <1>3, <1>4
<1> QED BY <1>9, <1>10 DEF award
-----------------------------------------------------------------------------
(* The books: Held and Owes, tournament by tournament. *)

\* The types of a tournament's parts.
LEMMA Fields ==
    ASSUME TypeOK, NEW t \in Tournaments
    PROVE  /\ tournament[t] \in Tournament
           /\ tournament[t].policy \in Policy
           /\ tournament[t].policy.stake \in Nat
           /\ tournament[t].policy.payoutBps \in [Ranks -> Nat]
           /\ tournament[t].totalLockedStakes \in Nat
           /\ tournament[t].totalLiability \in Nat
           /\ tournament[t].platformFeeCredit \in Nat
           /\ tournament[t].settlementNonce \in Nat
           /\ \A a \in Accounts : credits[t][a] \in Nat
           /\ entered[t] \subseteq Accounts /\ IsFiniteSet(entered[t])
           /\ Cardinality(entered[t]) \in Nat
           /\ Held(t) \in Nat
<1>1. tournament[t] \in Tournament /\ entered[t] \subseteq Accounts
      /\ \A a \in Accounts : credits[t][a] \in Nat
  BY DEF TypeOK
<1>2. IsFiniteSet(entered[t]) /\ Cardinality(entered[t]) \in Nat
  BY <1>1, TournamentAssumption, FS_Subset, FS_CardinalityType
<1>3. tournament[t].policy \in Policy /\ tournament[t].totalLockedStakes \in Nat
      /\ tournament[t].totalLiability \in Nat /\ tournament[t].platformFeeCredit \in Nat
      /\ tournament[t].settlementNonce \in Nat
  BY <1>1 DEF Tournament
<1>4. tournament[t].policy.stake \in Nat /\ tournament[t].policy.payoutBps \in [Ranks -> Nat]
  BY <1>3 DEF Policy
<1> QED BY <1>1, <1>2, <1>3, <1>4 DEF Held

\* Unclaimed refunds are a natural number of stakes.
LEMMA UnclaimedType ==
    ASSUME TypeOK, NEW t \in Tournaments
    PROVE  Unclaimed(t) \in Nat
<1> DEFINE missing == entered[t] \ refunds[t]
<1>1. IsFiniteSet(missing)
  BY Fields, FS_Subset
<1>2. Cardinality(missing) \in Nat
  BY <1>1, FS_CardinalityType
<1> QED BY <1>2, Fields DEF Unclaimed

\* The contract's balance covers every tournament, and a tournament's liability
\* its fee and each of its credits.
LEMMA Covered ==
    ASSUME TypeOK, BooksBalance, NEW t \in Tournaments
    PROVE  /\ Held(t) <= usdc[Escrow]
           /\ tournament[t].platformFeeCredit <= tournament[t].totalLiability
           /\ \A a \in Accounts : credits[t][a] <= tournament[t].totalLiability
<1> DEFINE h == [x \in Tournaments |-> Held(x)]
           c == credits[t]
<1>1. IsFiniteSet(Tournaments) /\ IsFiniteSet(Accounts)
  BY TournamentAssumption
<1>2. \A x \in Tournaments : h[x] \in Nat
  BY Fields
<1>3. usdc[Escrow] = SumFunctionOnSet(h, Tournaments)
  BY DEF BooksBalance
<1>4. h[t] <= SumFunctionOnSet(h, Tournaments)
  <2> HIDE DEF h
  <2> QED BY <1>1, <1>2, SumNat
<1>5. \A a \in Accounts : c[a] \in Nat
  BY Fields
<1>6. /\ SumFunctionOnSet(c, Accounts) \in Nat
      /\ \A a \in Accounts : c[a] <= SumFunctionOnSet(c, Accounts)
  <2> HIDE DEF c
  <2> QED BY <1>1, <1>5, SumNat
<1>7. tournament[t].totalLiability
         = tournament[t].platformFeeCredit + SumFunctionOnSet(c, Accounts) + Unclaimed(t)
  BY DEF BooksBalance
<1>8. Unclaimed(t) \in Nat /\ tournament[t].platformFeeCredit \in Nat
  BY UnclaimedType, Fields
<1> QED BY <1>3, <1>4, <1>5, <1>6, <1>7, <1>8

\* When nobody has a credit the credits add up to nothing.
LEMMA NoCredits ==
    ASSUME NEW f, \A a \in Accounts : f[a] = 0
    PROVE  SumFunctionOnSet(f, Accounts) = 0
BY TournamentAssumption, SumZero

\* A step on one tournament keeps the invariant when that tournament keeps its
\* shape, its debts stay accounted for, and the balance moves with what it holds.
LEMMA LocalStep ==
    ASSUME IInv, TypeOK', NEW t \in Tournaments, NEW d \in Int,
           \A x \in Tournaments \ {t} :
              /\ x \in created' <=> x \in created
              /\ tournament'[x] = tournament[x] /\ entrant'[x] = entrant[x]
              /\ entered'[x] = entered[x] /\ credits'[x] = credits[x]
              /\ refunds'[x] = refunds[x],
           Shape(t)', Owes(t)',
           Held(t)' = Held(t) + d,
           usdc'[Escrow] = usdc[Escrow] + d
    PROVE  IInv'
<1>1. ASSUME NEW x \in Tournaments, x # t
      PROVE  Shape(x)' /\ Owes(x)' /\ Held(x)' = Held(x)
  <2>1. /\ x \in created' <=> x \in created
        /\ tournament'[x] = tournament[x] /\ entrant'[x] = entrant[x]
        /\ entered'[x] = entered[x] /\ credits'[x] = credits[x]
        /\ refunds'[x] = refunds[x]
    BY <1>1
  <2>2. Shape(x)'
    BY <2>1 DEF IInv, Shape, Uncreated, Open, Divided, Returned, Finished, Valid
  <2>3. Owes(x)'
    BY <2>1 DEF IInv, BooksBalance, Owes, Unclaimed
  <2>4. Held(x)' = Held(x)
    BY <2>1 DEF Held
  <2> QED BY <2>2, <2>3, <2>4
<1>2. \A x \in Tournaments : Shape(x)' /\ Owes(x)'
  BY <1>1
<1> DEFINE h == [x \in Tournaments |-> Held(x)]
           k == [x \in Tournaments |-> Held(x)']
<1>3. IsFiniteSet(Tournaments) /\ \A x \in Tournaments : h[x] \in Int
  BY TournamentAssumption, Fields DEF IInv
<1>4. k[t] = h[t] + d
  OBVIOUS
<1>0. \A x \in Tournaments \ {t} : k[x] = h[x]
  BY <1>1
<1>5. \A x \in Tournaments : k[x] \in Int
  <2> HIDE DEF h, k
  <2> QED BY <1>0, <1>3, <1>4
<1>6. usdc[Escrow] = SumFunctionOnSet(h, Tournaments)
  BY DEF IInv, BooksBalance
<1>7. BooksBalance' <=> /\ usdc'[Escrow] = SumFunctionOnSet(k, Tournaments)
                        /\ \A x \in Tournaments : Owes(x)'
  BY DEF BooksBalance, Owes
<1> HIDE DEF h, k
<1>8. SumFunctionOnSet(k, Tournaments) = SumFunctionOnSet(h, Tournaments) - h[t] + k[t]
  BY ONLY <1>0, <1>3, <1>5, t \in Tournaments, SumUpdate
<1>9. SumFunctionOnSet(h, Tournaments) \in Int /\ h[t] \in Int
  BY <1>3, SumType
<1>10. BooksBalance'
  BY <1>2, <1>4, <1>6, <1>7, <1>8, <1>9
<1> QED BY <1>2, <1>10 DEF IInv

\* A step that touches only the clock keeps the invariant.
LEMMA QuietStep ==
    ASSUME IInv, TypeOK',
           UNCHANGED <<created, tournament, entrant, entered, credits, refunds, usdc>>
    PROVE  IInv'
<1>1. (\A t \in Tournaments : Shape(t))'
  BY DEF IInv, Shape, Uncreated, Open, Divided, Returned, Finished, Valid
<1>2. BooksBalance'
  BY DEF IInv, BooksBalance, Held, Unclaimed
<1> QED BY <1>1, <1>2 DEF IInv

-----------------------------------------------------------------------------
(* One lemma per kind of step. *)

\* The empty contract satisfies the inductive invariant.
LEMMA InitIInv == Init => IInv
<1> SUFFICES ASSUME Init PROVE IInv
  OBVIOUS
<1>1. NoPolicy \in Policy /\ NoPolicy.stake = 0
  BY DEF NoPolicy, Policy
<1>2. Draft(NoPolicy) \in Tournament
  BY <1>1 DEF Draft, Tournament, State
<1>3. \A t \in Tournaments : tournament[t] = Draft(NoPolicy)
  BY DEF Init
<1>4. TypeOK
  <2>1. NoEntrant \in Entrant
    BY DEF NoEntrant, Entrant
  <2> QED BY <1>2, <2>1, TournamentAssumption DEF Init, TypeOK
<1>5. ASSUME NEW t \in Tournaments
      PROVE  /\ Held(t) = 0 /\ Unclaimed(t) = 0
             /\ tournament[t].totalLiability = 0 /\ tournament[t].platformFeeCredit = 0
             /\ SumFunctionOnSet(credits[t], Accounts) = 0
             /\ Shape(t)
  <2>1. /\ tournament[t].totalLiability = 0 /\ tournament[t].platformFeeCredit = 0
        /\ tournament[t].totalLockedStakes = 0 /\ tournament[t].settlementNonce = 0
        /\ tournament[t].state = "DRAFT" /\ tournament[t].policy = NoPolicy
    BY <1>3 DEF Draft
  <2>2. /\ entered[t] = {} /\ refunds[t] = {} /\ t \notin created
        /\ \A a \in Accounts : credits[t][a] = 0
        /\ \A e \in Entrants : entrant[t][e].wallet = None
    BY DEF Init, NoEntrant
  <2>3. Cardinality(entered[t]) = 0
    BY <2>2, FS_EmptySet
  <2>4. Shape(t)
    BY <1>1, <2>1, <2>2, <2>3 DEF Shape, Uncreated, Undecided, Open
  <2>5. Held(t) = 0 /\ Unclaimed(t) = 0
    BY <2>1 DEF Held, Unclaimed
  <2>6. SumFunctionOnSet(credits[t], Accounts) = 0
    BY <2>2, NoCredits
  <2> QED BY <2>1, <2>4, <2>5, <2>6
<1>6. BooksBalance
  <2> DEFINE h == [t \in Tournaments |-> Held(t)]
  <2>1. \A t \in Tournaments : h[t] = 0
    BY <1>5
  <2>2. BooksBalance <=> /\ usdc[Escrow] = SumFunctionOnSet(h, Tournaments)
                         /\ \A t \in Tournaments : Owes(t)
    BY DEF BooksBalance, Owes
  <2>3. \A t \in Tournaments : Owes(t)
    BY <1>5 DEF Owes
  <2> HIDE DEF h
  <2>4. SumFunctionOnSet(h, Tournaments) = 0
    BY <2>1, TournamentAssumption, SumZero
  <2> QED BY <2>2, <2>3, <2>4 DEF Init
<1> QED BY <1>4, <1>5, <1>6 DEF IInv
\* createTournament starts a tournament that holds and owes nothing.
LEMMA CreateStep ==
    ASSUME IInv, NEW t \in Tournaments, NEW p \in Policies, CreateTournament(t, p)
    PROVE  IInv'
<1> DEFINE new == Draft(p)
<1>1. p \in Policy /\ p.stake \in Nat /\ Valid(p)
  BY TournamentAssumption DEF Policy, CreateTournament
<1>2. /\ new \in Tournament /\ new.policy = p /\ new.state = "DRAFT"
      /\ new.totalLockedStakes = 0 /\ new.totalLiability = 0
      /\ new.platformFeeCredit = 0 /\ new.settlementNonce = 0
  BY <1>1 DEF Draft, Tournament, State
<1>3. /\ tournament' = [tournament EXCEPT ![t] = new] /\ created' = created \cup {t}
      /\ t \notin created
      /\ UNCHANGED <<entrant, entered, credits, refunds, usdc, now>>
  BY DEF CreateTournament
<1> HIDE DEF new
<1>4. tournament'[t] = new /\ \A x \in Tournaments \ {t} : tournament'[x] = tournament[x]
  BY <1>3 DEF IInv, TypeOK
<1>5. TypeOK'
  BY <1>2, <1>3 DEF IInv, TypeOK
<1>6. Uncreated(t) /\ Open(t) /\ NoPolicy.stake = 0
  BY <1>3 DEF IInv, Shape, Uncreated, NoPolicy
<1>7. Cardinality(entered[t]) = 0 /\ entered[t] = {}
  BY <1>6, FS_EmptySet DEF Uncreated
<1>8. Shape(t)'
  <2>1. Open(t)'
    BY <1>1, <1>2, <1>3, <1>4, <1>6, <1>7 DEF Open
  <2>2. Valid(tournament[t].policy)' /\ t \in created'
    BY <1>1, <1>2, <1>3, <1>4
  <2>3. tournament'[t].state = "DRAFT"
    BY <1>2, <1>4
  <2> QED BY <1>3, <2>1, <2>2, <2>3 DEF Shape, Undecided, IInv
<1>9. SumFunctionOnSet(credits[t], Accounts) = 0
  BY <1>6, NoCredits DEF Open
<1>10. Owes(t)'
  BY <1>2, <1>3, <1>4, <1>9 DEF Owes, Unclaimed
<1>11. Held(t)' = Held(t) + 0
  <2>1. Unclaimed(t) = 0 /\ tournament[t].platformFeeCredit = 0
    BY <1>6 DEF Unclaimed, Uncreated, Undecided, Open
  <2>2. tournament[t].totalLiability = 0
    BY <1>9, <2>1 DEF IInv, BooksBalance
  <2>3. tournament[t].totalLockedStakes = 0
    BY <1>6, <1>7 DEF Open, Uncreated
  <2> QED BY <1>2, <1>4, <2>2, <2>3 DEF Held
<1>12. usdc'[Escrow] = usdc[Escrow] + 0
  BY <1>3 DEF IInv, TypeOK
<1>13. \A x \in Tournaments \ {t} : (x \in created' <=> x \in created)
  BY <1>3
<1> QED BY <1>3, <1>4, <1>5, <1>8, <1>10, <1>11, <1>12, <1>13, LocalStep

\* One more locked stake for one more entered wallet.
LEMMA OneMore ==
    ASSUME NEW s \in Nat, NEW c \in Nat
    PROVE  s * (c + 1) = s * c + s
OBVIOUS

\* register locks the stake of one more wallet.
LEMMA RegisterStep ==
    ASSUME IInv, NEW a \in Accounts, NEW t \in Tournaments, NEW e \in Entrants,
           Register(a, t, e)
    PROVE  IInv'
<1> DEFINE s == tournament[t].policy.stake
           new == [tournament[t] EXCEPT !.entrantCount = @ + 1,
                                        !.totalLockedStakes = @ + s]
<1>1. /\ tournament[t] \in Tournament /\ s \in Nat
      /\ tournament[t].totalLockedStakes \in Nat /\ tournament[t].totalLiability \in Nat
  BY Fields DEF IInv
<1>2. /\ new \in Tournament /\ new.policy = tournament[t].policy
      /\ new.state = tournament[t].state
      /\ new.totalLockedStakes = tournament[t].totalLockedStakes + s
      /\ new.totalLiability = tournament[t].totalLiability
      /\ new.platformFeeCredit = tournament[t].platformFeeCredit
      /\ new.settlementNonce = tournament[t].settlementNonce
  <2> HIDE DEF s
  <2>1. tournament[t].entrantCount + 1 \in Nat /\ tournament[t].totalLockedStakes + s \in Nat
    BY <1>1 DEF Tournament
  <2> QED BY <1>1, <2>1 DEF Tournament
<1>3. /\ tournament' = [tournament EXCEPT ![t] = new]
      /\ entrant' = [entrant EXCEPT ![t][e] = [wallet |-> a, ranked |-> FALSE]]
      /\ entered' = [entered EXCEPT ![t] = @ \cup {a}]
      /\ usdc' = [usdc EXCEPT ![a] = @ - s, ![Escrow] = @ + s]
      /\ usdc[a] >= s /\ a \notin entered[t] /\ tournament[t].state = "DRAFT"
      /\ tournament[t].policy.opensAt <= now /\ now < tournament[t].policy.closesAt
      /\ UNCHANGED <<created, credits, refunds, now>>
  BY DEF Register, IInv, TypeOK
<1> HIDE DEF new
<1>4. /\ tournament'[t] = new /\ entered'[t] = entered[t] \cup {a}
      /\ \A x \in Tournaments \ {t} :
            /\ tournament'[x] = tournament[x] /\ entered'[x] = entered[x]
            /\ entrant'[x] = entrant[x]
      /\ entrant'[t] = [entrant[t] EXCEPT ![e] = [wallet |-> a, ranked |-> FALSE]]
  BY <1>3 DEF IInv, TypeOK
<1>5. TypeOK'
  <2>1. [wallet |-> a, ranked |-> FALSE] \in Entrant
    BY DEF Entrant
  <2>2. entrant' \in [Tournaments -> [Entrants -> Entrant]]
    BY <1>3, <2>1 DEF IInv, TypeOK
  <2>3. usdc' \in [Accounts \cup {Escrow} -> Nat]
    BY <1>1, <1>3, TournamentAssumption DEF IInv, TypeOK
  <2> QED BY <1>2, <1>3, <2>2, <2>3 DEF IInv, TypeOK
<1>6. t \in created
  <2>1. Uncreated(t) => tournament[t].policy.closesAt = 0
    BY DEF Uncreated, NoPolicy
  <2> QED BY <1>3, <2>1 DEF IInv, Shape, TypeOK
<1>7. Cardinality(entered'[t]) = Cardinality(entered[t]) + 1
      /\ Cardinality(entered[t]) \in Nat
  BY <1>3, <1>4, Fields, FS_AddElement DEF IInv
<1>8. Shape(t)'
  <2>1. Open(t)
    BY <1>3 DEF IInv, Shape, Undecided
  <2>2. Open(t)'
    <3>1. tournament'[t].policy.stake = s /\ tournament[t].totalLockedStakes = s * Cardinality(entered[t])
      BY <1>2, <1>4, <2>1 DEF Open
    <3>2. s * Cardinality(entered'[t]) = s * Cardinality(entered[t]) + s
      BY <1>1, <1>7, OneMore
    <3>3. tournament'[t].totalLockedStakes = s * Cardinality(entered'[t])
      BY <1>2, <1>4, <3>1, <3>2
    <3> QED BY <1>2, <1>3, <1>4, <2>1, <3>1, <3>3 DEF Open
  <2>3. ASSUME NEW x \in Entrants, entrant'[t][x].wallet # None
        PROVE  entrant'[t][x].wallet \in entered'[t]
    BY <1>4, <2>3 DEF IInv, TypeOK, Shape
  <2>4. tournament'[t].state = "DRAFT" /\ Valid(tournament[t].policy)' /\ t \in created'
    BY <1>2, <1>3, <1>4, <1>6 DEF IInv, Shape, Valid
  <2> QED BY <2>2, <2>3, <2>4 DEF Shape, Undecided
<1>9. Owes(t)'
  <2>1. Unclaimed(t) = 0 /\ Unclaimed(t)' = 0
    BY <1>2, <1>3, <1>4 DEF Unclaimed
  <2> QED BY <1>2, <1>3, <1>4, <2>1 DEF Owes, IInv, BooksBalance
<1>10. Held(t)' = Held(t) + s
  BY <1>1, <1>2, <1>4 DEF Held
<1>11. usdc'[Escrow] = usdc[Escrow] + s
  BY <1>3, TournamentAssumption DEF IInv, TypeOK
<1>12. s \in Int
  BY <1>1
<1> HIDE DEF s
<1> QED BY <1>3, <1>4, <1>5, <1>8, <1>9, <1>10, <1>11, <1>12, LocalStep

\* closeRegistration and markRunning move only the state, before any decision.
LEMMA StateStep ==
    ASSUME IInv, NEW t \in Tournaments, NEW state \in Undecided,
           tournament[t].state \in Undecided,
           tournament' = [tournament EXCEPT ![t].state = state],
           UNCHANGED <<created, entrant, entered, credits, refunds, usdc, now>>
    PROVE  IInv'
<1> DEFINE new == [tournament[t] EXCEPT !.state = state]
<1>1. /\ new \in Tournament /\ new.policy = tournament[t].policy /\ new.state = state
      /\ new.totalLockedStakes = tournament[t].totalLockedStakes
      /\ new.totalLiability = tournament[t].totalLiability
      /\ new.platformFeeCredit = tournament[t].platformFeeCredit
      /\ new.settlementNonce = tournament[t].settlementNonce
  BY Fields DEF IInv, Tournament, Undecided, State
<1>2. tournament' = [tournament EXCEPT ![t] = new]
  BY DEF IInv, TypeOK
<1> HIDE DEF new
<1>3. tournament'[t] = new /\ \A x \in Tournaments \ {t} : tournament'[x] = tournament[x]
  BY <1>2 DEF IInv, TypeOK
<1>4. TypeOK'
  BY <1>1, <1>2 DEF IInv, TypeOK
<1>5. Shape(t)'
  <2>1. Open(t)'
    BY <1>1, <1>3 DEF IInv, Shape, Open
  <2>2. IF t \in created' THEN Valid(tournament[t].policy)' ELSE Uncreated(t)'
    BY <1>1, <1>3 DEF IInv, Shape, Uncreated, Valid
  <2>3. tournament'[t].state \in Undecided
    BY <1>1, <1>3
  <2> QED BY <2>1, <2>2, <2>3 DEF IInv, Shape, Undecided
<1>6. Owes(t)'
  <2>1. Unclaimed(t) = 0 /\ Unclaimed(t)' = 0
    BY <1>1, <1>3 DEF Unclaimed, Undecided
  <2> QED BY <1>1, <1>3, <2>1 DEF Owes, IInv, BooksBalance
<1>7. Held(t)' = Held(t) + 0
  BY <1>1, <1>3, Fields DEF Held, IInv
<1>8. usdc'[Escrow] = usdc[Escrow] + 0
  BY DEF IInv, TypeOK
<1> QED BY <1>3, <1>4, <1>5, <1>6, <1>7, <1>8, LocalStep

\* cancelAndOpenRefunds turns the locked stakes into unclaimed refunds.
LEMMA CancelStep ==
    ASSUME IInv, NEW a \in Accounts, NEW t \in Tournaments, CancelAndOpenRefunds(a, t)
    PROVE  IInv'
<1> DEFINE locked == tournament[t].totalLockedStakes
           new == [tournament[t] EXCEPT !.state = "CANCELLED_REFUNDABLE",
                                        !.totalLiability = locked,
                                        !.totalLockedStakes = 0]
<1>1. tournament[t] \in Tournament /\ locked \in Nat /\ tournament[t].totalLiability \in Nat
  BY Fields DEF IInv
<1>2. /\ new \in Tournament /\ new.policy = tournament[t].policy
      /\ new.state = "CANCELLED_REFUNDABLE"
      /\ new.totalLockedStakes = 0 /\ new.totalLiability = locked
      /\ new.platformFeeCredit = tournament[t].platformFeeCredit
      /\ new.settlementNonce = tournament[t].settlementNonce
  <2> HIDE DEF locked
  <2> QED BY <1>1 DEF Tournament, State
<1>3. /\ tournament' = [tournament EXCEPT ![t] = new]
      /\ tournament[t].state \in Undecided
      /\ a = tournament[t].policy.operator
      /\ UNCHANGED <<created, entrant, entered, credits, refunds, usdc, now>>
  BY DEF CancelAndOpenRefunds, IInv, TypeOK
<1> HIDE DEF new
<1>4. tournament'[t] = new /\ \A x \in Tournaments \ {t} : tournament'[x] = tournament[x]
  BY <1>3 DEF IInv, TypeOK
<1>5. TypeOK'
  BY <1>2, <1>3 DEF IInv, TypeOK
<1>6. t \in created
  BY <1>3, TournamentAssumption DEF IInv, Shape, Uncreated, NoPolicy
<1>7. Open(t)
  BY <1>3 DEF IInv, Shape
<1>8. Shape(t)'
  <2>1. Returned(t)'
    BY <1>2, <1>3, <1>4, <1>7 DEF Returned, Open
  <2>2. Valid(tournament[t].policy)' /\ t \in created'
    BY <1>2, <1>3, <1>4, <1>6 DEF IInv, Shape, Valid
  <2>3. tournament'[t].state = "CANCELLED_REFUNDABLE" /\ tournament'[t].totalLockedStakes = 0
    BY <1>2, <1>4
  <2> QED BY <1>3, <2>1, <2>2, <2>3 DEF IInv, Shape, Undecided
<1>9. SumFunctionOnSet(credits[t], Accounts) = 0
  BY <1>7, NoCredits DEF Open
<1>10. Owes(t)'
  <2>1. entered[t] \ refunds[t] = entered[t]
    BY <1>7 DEF Open
  <2>2. Unclaimed(t)' = locked
    BY <1>2, <1>3, <1>4, <1>7, <2>1 DEF Unclaimed, Open
  <2>3. tournament'[t].totalLiability = locked /\ tournament'[t].platformFeeCredit = 0
    BY <1>2, <1>4, <1>7 DEF Open
  <2> QED BY <1>1, <1>3, <1>9, <2>2, <2>3 DEF Owes
<1>11. Held(t)' = Held(t) + 0
  <2>1. Unclaimed(t) = 0 /\ tournament[t].platformFeeCredit = 0
    BY <1>3, <1>7 DEF Unclaimed, Undecided, Open
  <2>2. tournament[t].totalLiability = 0
    BY <1>9, <2>1 DEF IInv, BooksBalance
  <2> QED BY <1>1, <1>2, <1>4, <2>2 DEF Held
<1>12. usdc'[Escrow] = usdc[Escrow] + 0
  BY <1>3 DEF IInv, TypeOK
<1> HIDE DEF locked
<1> QED BY <1>3, <1>4, <1>5, <1>8, <1>10, <1>11, <1>12, LocalStep
\* A wallet that has not claimed has no credit, and one claim fewer is open
\* after it has.
LEMMA ClaimStep ==
    ASSUME IInv, NEW a \in Accounts, NEW t \in Tournaments, NEW e \in Entrants,
           ClaimRefund(a, t, e)
    PROVE  IInv'
<1> DEFINE s == tournament[t].policy.stake
           f == credits[t]
           g == credits'[t]
           missing == entered[t] \ refunds[t]
<1>1. s \in Nat /\ IsFiniteSet(missing) /\ tournament[t].totalLiability \in Nat
  BY Fields, FS_Subset DEF IInv
<1>2. /\ tournament[t].state = "CANCELLED_REFUNDABLE" /\ entrant[t][e].wallet = a
      /\ a \notin refunds[t]
      /\ refunds' = [refunds EXCEPT ![t] = @ \cup {a}]
      /\ credits' = [credits EXCEPT ![t] = [credits[t] EXCEPT ![a] = f[a] + s]]
      /\ UNCHANGED <<created, tournament, entrant, entered, usdc, now>>
  BY DEF ClaimRefund, IInv, TypeOK
<1>3. Returned(t) /\ t \in created
  BY <1>2 DEF IInv, Shape, Uncreated, Undecided
<1>4. f[a] = 0 /\ \A x \in Accounts : f[x] \in Nat
  BY <1>2, <1>3, Fields DEF Returned, IInv
<1>5. /\ g[a] = f[a] + s /\ \A x \in Accounts \ {a} : g[x] = f[x]
      /\ refunds'[t] = refunds[t] \cup {a}
      /\ \A x \in Tournaments \ {t} : credits'[x] = credits[x] /\ refunds'[x] = refunds[x]
  BY <1>2 DEF IInv, TypeOK
<1>6. a \in entered[t]
  BY <1>2, TournamentAssumption DEF IInv, Shape
<1>7. TypeOK'
  <2>1. [f EXCEPT ![a] = f[a] + s] \in [Accounts -> Nat]
    BY <1>1, <1>4 DEF IInv, TypeOK
  <2>2. credits' \in [Tournaments -> [Accounts -> Nat]]
    BY <1>2, <2>1 DEF IInv, TypeOK
  <2> QED BY <1>2, <2>2 DEF IInv, TypeOK
<1>8. Shape(t)'
  <2>1. Returned(t)'
    <3>1. ASSUME NEW x \in Accounts, g[x] > 0 PROVE x \in refunds'[t] /\ g[x] = s
      <4>1. CASE x = a
        BY <1>1, <1>4, <1>5, <4>1
      <4>2. CASE x # a
        BY <1>3, <1>5, <3>1, <4>2 DEF Returned
      <4> QED BY <4>1, <4>2
    <3>2. refunds'[t] \subseteq entered[t]
      BY <1>3, <1>5, <1>6 DEF Returned
    <3> QED BY <1>2, <1>3, <3>1, <3>2 DEF Returned
  <2> QED BY <1>2, <1>3, <2>1 DEF IInv, Shape, Undecided, Valid
<1>9. SumFunctionOnSet(g, Accounts) = SumFunctionOnSet(f, Accounts) + s
      /\ SumFunctionOnSet(f, Accounts) \in Int
  <2>1. \A x \in Accounts : f[x] \in Int /\ g[x] \in Int
    BY <1>1, <1>4, <1>5
  <2>2. IsFiniteSet(Accounts)
    BY TournamentAssumption
  <2> HIDE DEF f, g, s
  <2>3. SumFunctionOnSet(g, Accounts) = SumFunctionOnSet(f, Accounts) - f[a] + g[a]
    BY ONLY <2>1, <2>2, <1>5, a \in Accounts, SumUpdate
  <2>4. SumFunctionOnSet(f, Accounts) \in Int
    BY <2>1, <2>2, SumType
  <2> QED BY <1>1, <1>4, <1>5, <2>3, <2>4
<1>10. Unclaimed(t) = Unclaimed(t)' + s /\ Unclaimed(t)' \in Nat
  <2> DEFINE rest == entered'[t] \ refunds'[t]
  <2>1. rest = missing \ {a} /\ a \in missing
    BY <1>2, <1>5, <1>6
  <2>2. Cardinality(missing) = Cardinality(rest) + 1 /\ Cardinality(rest) \in Nat
    <3>1. IsFiniteSet(rest) /\ Cardinality(rest) = Cardinality(missing) - 1
      BY <1>1, <2>1, FS_RemoveElement
    <3>2. Cardinality(rest) \in Nat /\ Cardinality(missing) \in Nat
      BY <1>1, <3>1, FS_CardinalityType
    <3> QED BY <3>1, <3>2
  <2>3. Unclaimed(t) = s * Cardinality(missing) /\ Unclaimed(t)' = s * Cardinality(rest)
    BY <1>2 DEF Unclaimed
  <2> HIDE DEF s, missing, rest
  <2> QED BY <1>1, <2>2, <2>3, OneMore
<1>11. Owes(t)'
  <2>1. /\ tournament[t].totalLiability = tournament[t].platformFeeCredit
              + SumFunctionOnSet(f, Accounts) + Unclaimed(t)
        /\ tournament[t].platformFeeCredit = 0
    BY <1>3 DEF IInv, BooksBalance, Returned
  <2>2. tournament'[t] = tournament[t]
    BY <1>2
  <2> HIDE DEF s
  <2> QED BY <1>1, <1>9, <1>10, <2>1, <2>2 DEF Owes
<1>12. Held(t)' = Held(t) + 0 /\ usdc'[Escrow] = usdc[Escrow] + 0
  BY <1>2, Fields DEF Held, IInv, TypeOK
<1> HIDE DEF f, g
<1> QED BY <1>2, <1>5, <1>7, <1>8, <1>11, <1>12, LocalStep

\* settleByOperator credits the net pool by rank and books the fee.
LEMMA SettleStep ==
    ASSUME IInv, NEW a \in Accounts, NEW t \in Tournaments,
           NEW ranked \in [Ranks -> Entrants], SettleByOperator(a, t, ranked, 1)
    PROVE  IInv'
<1> DEFINE pool == tournament[t].totalLockedStakes
           bps == tournament[t].policy.payoutBps
           winner == [i \in Ranks |-> entrant[t][ranked[i]].wallet]
           new == [tournament[t] EXCEPT !.state = "SETTLED",
                      !.platformFeeCredit = Fee(pool), !.totalLiability = pool,
                      !.totalLockedStakes = 0, !.settlementNonce = 1]
           award == [x \in Accounts |-> Award(x, pool, bps, winner)]
           marked == [e \in Entrants |->
                        IF \E i \in Ranks : ranked[i] = e
                        THEN [entrant[t][e] EXCEPT !.ranked = TRUE] ELSE entrant[t][e]]
<1>1. /\ tournament[t] \in Tournament /\ pool \in Nat /\ bps \in [Ranks -> Nat]
      /\ tournament[t].totalLiability \in Nat
      /\ Fee(pool) \in Nat /\ Fee(pool) <= pool /\ Net(pool) = pool - Fee(pool)
  BY Fields, FeeBound DEF IInv, Net
<1>2. /\ new \in Tournament /\ new.policy = tournament[t].policy /\ new.state = "SETTLED"
      /\ new.totalLockedStakes = 0 /\ new.totalLiability = pool
      /\ new.platformFeeCredit = Fee(pool) /\ new.settlementNonce = 1
  <2> HIDE DEF pool
  <2> QED BY <1>1 DEF Tournament, State
<1>3. /\ a = tournament[t].policy.operator /\ tournament[t].state = "RUNNING"
      /\ \A i \in Ranks : entrant[t][ranked[i]].wallet # None
      /\ UNCHANGED <<created, entered, refunds, usdc, now>>
  BY DEF SettleByOperator, MayRank
<1>4. t \in created /\ Open(t) /\ Valid(tournament[t].policy)
  BY <1>3, TournamentAssumption DEF IInv, Shape, Uncreated, Undecided, NoPolicy
<1>5. winner \in [Ranks -> Accounts] /\ SumFunctionOnSet(bps, Ranks) = Denominator
  BY <1>3, <1>4 DEF IInv, TypeOK, Entrant, Valid
<1>6. /\ \A x \in Accounts : award[x] \in Nat
      /\ SumFunctionOnSet(award, Accounts) = Net(pool)
  <2> HIDE DEF pool, bps, winner
  <2> QED BY <1>1, <1>5, AwardsAddUp
<1>7. tournament' = [tournament EXCEPT ![t] = new] /\ entrant' = [entrant EXCEPT ![t] = marked]
  BY DEF SettleByOperator, IInv, TypeOK
<1>8. credits' = [credits EXCEPT ![t] = award]
  <2>1. credits' = [credits EXCEPT ![t] =
                       [x \in Accounts |-> credits[t][x] + Award(x, pool, bps, winner)]]
    BY DEF SettleByOperator, IInv, TypeOK
  <2>2. \A x \in Accounts : credits[t][x] + Award(x, pool, bps, winner) = award[x]
    BY <1>4, <1>6 DEF Open
  <2> QED BY <2>1, <2>2
<1> HIDE DEF new, award
<1>9. /\ tournament'[t] = new /\ entrant'[t] = marked /\ credits'[t] = award
      /\ \A x \in Tournaments \ {t} : /\ tournament'[x] = tournament[x]
                                      /\ entrant'[x] = entrant[x]
                                      /\ credits'[x] = credits[x]
  BY <1>7, <1>8 DEF IInv, TypeOK
<1>10. TypeOK'
  <2>1. ASSUME NEW e \in Entrants PROVE marked[e] \in Entrant
    <3>1. entrant[t][e] \in Entrant
      BY DEF IInv, TypeOK
    <3> QED BY <3>1 DEF Entrant
  <2>0. marked \in [Entrants -> Entrant]
    BY <2>1
  <2>2. award \in [Accounts -> Nat]
    BY <1>6 DEF award
  <2> HIDE DEF marked
  <2> QED BY <1>2, <1>3, <1>7, <1>8, <2>0, <2>2 DEF IInv, TypeOK
<1>11. Shape(t)'
  <2>1. ASSUME NEW x \in Accounts, award[x] > 0
        PROVE  \E e \in Entrants : marked[e].ranked /\ marked[e].wallet = x
    <3>1. PICK i \in Ranks : winner[i] = x
      <4> SUFFICES ASSUME \A i \in Ranks : winner[i] # x PROVE FALSE
        OBVIOUS
      <4>1. {i \in Ranks : winner[i] = x} = {} /\ winner[1] # x
        BY RanksFinite
      <4>2. SumFunctionOnSet(Share(pool, bps), {}) = 0
        BY SumZero, FS_EmptySet
      <4>3. award[x] = 0
        <5> HIDE DEF pool, bps, winner
        <5> QED BY <4>1, <4>2 DEF award, Award
      <4> QED BY <2>1, <4>3
    <3>2. marked[ranked[i]].ranked /\ marked[ranked[i]].wallet = x
      <4>1. entrant[t][ranked[i]] \in Entrant /\ ranked[i] \in Entrants
        BY DEF IInv, TypeOK
      <4> QED BY <3>1, <4>1 DEF Entrant
    <3> QED BY <3>2
  <2>2. Divided(t)'
    BY <1>2, <1>9, <2>1 DEF Divided
  <2>3. ASSUME NEW e \in Entrants PROVE marked[e].wallet = entrant[t][e].wallet
    <3>1. entrant[t][e] \in Entrant
      BY DEF IInv, TypeOK
    <3> QED BY <3>1 DEF Entrant
  <2>4. \A e \in Entrants :
           entrant'[t][e].wallet # None => entrant'[t][e].wallet \in entered'[t]
    BY <1>3, <1>9, <2>3 DEF IInv, Shape
  <2>5. Valid(tournament[t].policy)' /\ t \in created'
    BY <1>2, <1>3, <1>4, <1>9 DEF Valid
  <2>6. tournament'[t].state = "SETTLED" /\ tournament'[t].totalLockedStakes = 0
    BY <1>2, <1>9
  <2> HIDE DEF marked
  <2> QED BY <2>2, <2>4, <2>5, <2>6 DEF Shape, Undecided
<1>12. Owes(t)'
  <2>1. Unclaimed(t)' = 0
    BY <1>2, <1>9 DEF Unclaimed
  <2> HIDE DEF pool
  <2> QED BY <1>1, <1>2, <1>6, <1>9, <2>1 DEF Owes
<1>13. Held(t)' = Held(t) + 0
  <2>1. SumFunctionOnSet(credits[t], Accounts) = 0
    BY <1>4, NoCredits DEF Open
  <2>2. Unclaimed(t) = 0 /\ tournament[t].platformFeeCredit = 0
    BY <1>3, <1>4 DEF Unclaimed, Open
  <2>3. tournament[t].totalLiability = 0
    BY <2>1, <2>2 DEF IInv, BooksBalance
  <2> QED BY <1>1, <1>2, <1>9, <2>3 DEF Held
<1>14. usdc'[Escrow] = usdc[Escrow] + 0
  BY <1>3 DEF IInv, TypeOK
<1> HIDE DEF pool, bps, winner, marked
<1> QED BY <1>3, <1>9, <1>10, <1>11, <1>12, <1>13, <1>14, LocalStep
\* withdrawCreditFor takes one credit off the liability and the balance.
LEMMA WithdrawCreditStep ==
    ASSUME IInv, NEW t \in Tournaments, NEW a \in Accounts, WithdrawCreditFor(t, a)
    PROVE  IInv'
<1> DEFINE amount == credits[t][a]
           f == credits[t]
           g == credits'[t]
           new == [tournament[t] EXCEPT !.totalLiability = @ - amount]
<1>1. /\ tournament[t] \in Tournament /\ tournament[t].totalLiability \in Nat
      /\ tournament[t].totalLockedStakes \in Nat /\ tournament[t].platformFeeCredit \in Nat
      /\ amount \in Nat /\ amount > 0
      /\ amount <= tournament[t].totalLiability /\ Held(t) <= usdc[Escrow]
      /\ amount <= usdc[Escrow]
  <2>1. Held(t) <= usdc[Escrow] /\ amount <= tournament[t].totalLiability
    BY Covered DEF IInv
  <2>2. usdc[Escrow] \in Nat
    BY DEF IInv, TypeOK
  <2> QED BY <2>1, <2>2, Fields DEF IInv, Held, WithdrawCreditFor
<1>2. /\ new \in Tournament /\ new.policy = tournament[t].policy
      /\ new.state = tournament[t].state
      /\ new.totalLockedStakes = tournament[t].totalLockedStakes
      /\ new.totalLiability = tournament[t].totalLiability - amount
      /\ new.platformFeeCredit = tournament[t].platformFeeCredit
      /\ new.settlementNonce = tournament[t].settlementNonce
  <2> HIDE DEF amount
  <2>1. tournament[t].totalLiability - amount \in Nat
    BY <1>1
  <2> QED BY <1>1, <2>1 DEF Tournament
<1>3. /\ tournament' = [tournament EXCEPT ![t] = new]
      /\ credits' = [credits EXCEPT ![t][a] = 0]
      /\ usdc' = [usdc EXCEPT ![Escrow] = @ - amount, ![a] = @ + amount]
      /\ UNCHANGED <<created, entrant, entered, refunds, now>>
  BY DEF WithdrawCreditFor, IInv, TypeOK
<1> HIDE DEF new
<1>4. /\ tournament'[t] = new /\ g[a] = 0 /\ \A x \in Accounts \ {a} : g[x] = f[x]
      /\ \A x \in Tournaments \ {t} : /\ tournament'[x] = tournament[x]
                                      /\ credits'[x] = credits[x]
  BY <1>3 DEF IInv, TypeOK
<1>5. TypeOK'
  <2>1. usdc' \in [Accounts \cup {Escrow} -> Nat]
    BY <1>1, <1>3, TournamentAssumption DEF IInv, TypeOK
  <2>2. credits' \in [Tournaments -> [Accounts -> Nat]]
    BY <1>3 DEF IInv, TypeOK
  <2> QED BY <1>2, <1>3, <2>1, <2>2 DEF IInv, TypeOK
<1>6. tournament[t].state \in {"SETTLED", "CANCELLED_REFUNDABLE"} /\ t \in created
  <2>1. tournament[t].state \in State
    BY <1>1 DEF Tournament
  <2>2. tournament[t].state \notin Undecided /\ tournament[t].state # "CLOSED"
    BY <1>1 DEF IInv, Shape, Open, Finished
  <2> QED BY <2>1, <2>2 DEF State, Undecided, IInv, Shape, Uncreated
<1>7. \A x \in Accounts : g[x] > 0 => f[x] = g[x] /\ f[x] > 0
  BY <1>4
<1>8. Shape(t)'
  <2>1. CASE tournament[t].state = "SETTLED"
    <3>1. Divided(t)'
      BY <1>2, <1>3, <1>4, <1>7, <2>1 DEF IInv, Shape, Divided
    <3> QED BY <1>2, <1>3, <1>4, <1>6, <2>1, <3>1 DEF IInv, Shape, Undecided, Valid
  <2>2. CASE tournament[t].state = "CANCELLED_REFUNDABLE"
    <3>1. Returned(t)'
      BY <1>2, <1>3, <1>4, <1>7, <2>2 DEF IInv, Shape, Returned
    <3> QED BY <1>2, <1>3, <1>4, <1>6, <2>2, <3>1 DEF IInv, Shape, Undecided, Valid
  <2> QED BY <1>6, <2>1, <2>2
<1>9. SumFunctionOnSet(g, Accounts) = SumFunctionOnSet(f, Accounts) - amount
      /\ SumFunctionOnSet(f, Accounts) \in Int
  <2>1. \A x \in Accounts : f[x] \in Int /\ g[x] \in Int
    BY <1>4, Fields DEF IInv
  <2>2. IsFiniteSet(Accounts)
    BY TournamentAssumption
  <2>6. f[a] = amount
    OBVIOUS
  <2>5. \A x \in Accounts \ {a} : g[x] = f[x]
    BY <1>4
  <2> HIDE DEF f, g, amount
  <2>3. SumFunctionOnSet(g, Accounts) = SumFunctionOnSet(f, Accounts) - f[a] + g[a]
    BY ONLY <2>1, <2>2, <2>5, a \in Accounts, SumUpdate
  <2>4. SumFunctionOnSet(f, Accounts) \in Int
    BY <2>1, <2>2, SumType
  <2> QED BY <1>1, <1>4, <2>6, <2>3, <2>4
<1>10. Owes(t)'
  <2>1. tournament[t].totalLiability = tournament[t].platformFeeCredit
              + SumFunctionOnSet(f, Accounts) + Unclaimed(t)
    BY DEF IInv, BooksBalance
  <2>2. Unclaimed(t)' = Unclaimed(t) /\ Unclaimed(t) \in Nat
    BY <1>2, <1>3, <1>4, UnclaimedType DEF IInv, Unclaimed
  <2>3. Owes(t)' <=> tournament'[t].totalLiability = tournament'[t].platformFeeCredit
              + SumFunctionOnSet(g, Accounts) + Unclaimed(t)'
    BY DEF Owes
  <2> HIDE DEF f, g, amount
  <2> QED BY <1>1, <1>2, <1>4, <1>9, <2>1, <2>2, <2>3
<1>11. Held(t)' = Held(t) + (0 - amount) /\ 0 - amount \in Int
  BY <1>1, <1>2, <1>4 DEF Held
<1>12. usdc'[Escrow] = usdc[Escrow] + (0 - amount)
  BY <1>1, <1>3, TournamentAssumption DEF IInv, TypeOK
<1> HIDE DEF f, g, amount
<1> QED BY <1>3, <1>4, <1>5, <1>8, <1>10, <1>11, <1>12, LocalStep

\* withdrawPlatformFeeFor takes the fee off the liability and the balance.
LEMMA WithdrawFeeStep ==
    ASSUME IInv, NEW t \in Tournaments, WithdrawPlatformFeeFor(t)
    PROVE  IInv'
<1> DEFINE amount == tournament[t].platformFeeCredit
           new == [tournament[t] EXCEPT !.platformFeeCredit = 0,
                                        !.totalLiability = @ - amount]
<1>1. /\ tournament[t] \in Tournament /\ tournament[t].totalLiability \in Nat
      /\ tournament[t].totalLockedStakes \in Nat
      /\ amount \in Nat /\ amount > 0
      /\ amount <= tournament[t].totalLiability /\ amount <= usdc[Escrow]
  <2>1. Held(t) <= usdc[Escrow] /\ amount <= tournament[t].totalLiability
    BY Covered DEF IInv
  <2>2. usdc[Escrow] \in Nat
    BY DEF IInv, TypeOK
  <2> QED BY <2>1, <2>2, Fields DEF IInv, Held, WithdrawPlatformFeeFor
<1>2. /\ new \in Tournament /\ new.policy = tournament[t].policy
      /\ new.state = tournament[t].state
      /\ new.totalLockedStakes = tournament[t].totalLockedStakes
      /\ new.totalLiability = tournament[t].totalLiability - amount
      /\ new.platformFeeCredit = 0
      /\ new.settlementNonce = tournament[t].settlementNonce
  <2> HIDE DEF amount
  <2>1. tournament[t].totalLiability - amount \in Nat
    BY <1>1
  <2> QED BY <1>1, <2>1 DEF Tournament
<1>3. /\ tournament' = [tournament EXCEPT ![t] = new]
      /\ usdc' = [usdc EXCEPT ![Escrow] = @ - amount, ![Owner] = @ + amount]
      /\ UNCHANGED <<created, entrant, entered, credits, refunds, now>>
  BY DEF WithdrawPlatformFeeFor, IInv, TypeOK
<1> HIDE DEF new
<1>4. tournament'[t] = new /\ \A x \in Tournaments \ {t} : tournament'[x] = tournament[x]
  BY <1>3 DEF IInv, TypeOK
<1>5. TypeOK'
  <2>1. usdc' \in [Accounts \cup {Escrow} -> Nat]
    BY <1>1, <1>3, TournamentAssumption DEF IInv, TypeOK
  <2> QED BY <1>2, <1>3, <2>1 DEF IInv, TypeOK
<1>6. tournament[t].state = "SETTLED" /\ t \in created
  <2>1. tournament[t].state \in State
    BY <1>1 DEF Tournament
  <2>2. tournament[t].state \notin Undecided \cup {"CANCELLED_REFUNDABLE", "CLOSED"}
    BY <1>1 DEF IInv, Shape, Open, Returned, Finished
  <2> QED BY <2>1, <2>2 DEF State, Undecided, IInv, Shape, Uncreated
<1>7. Shape(t)'
  <2>1. Divided(t)'
    BY <1>2, <1>3, <1>4, <1>6 DEF IInv, Shape, Divided
  <2> QED BY <1>2, <1>3, <1>4, <1>6, <2>1 DEF IInv, Shape, Undecided, Valid
<1>8. Owes(t)'
  <2>1. tournament[t].totalLiability = tournament[t].platformFeeCredit
              + SumFunctionOnSet(credits[t], Accounts) + Unclaimed(t)
    BY DEF IInv, BooksBalance
  <2>2. Unclaimed(t)' = 0 /\ Unclaimed(t) = 0
    BY <1>2, <1>4, <1>6 DEF Unclaimed
  <2>3. SumFunctionOnSet(credits[t], Accounts) \in Int
    BY Fields, TournamentAssumption, SumType DEF IInv
  <2> QED BY <1>1, <1>2, <1>3, <1>4, <2>1, <2>2, <2>3 DEF Owes
<1>9. Held(t)' = Held(t) + (0 - amount) /\ 0 - amount \in Int
  BY <1>1, <1>2, <1>4 DEF Held
<1>10. usdc'[Escrow] = usdc[Escrow] + (0 - amount)
  BY <1>1, <1>3, TournamentAssumption DEF IInv, TypeOK
<1> HIDE DEF amount
<1> QED BY <1>3, <1>4, <1>5, <1>7, <1>8, <1>9, <1>10, LocalStep

\* A settled or cancelled tournament without liability has nothing left to pay.
LEMMA NothingLeft ==
    ASSUME IInv, NEW t \in Tournaments, tournament[t].totalLiability = 0
    PROVE  /\ tournament[t].platformFeeCredit = 0 /\ Unclaimed(t) = 0
           /\ \A a \in Accounts : credits[t][a] = 0
<1> DEFINE c == credits[t]
<1>1. IsFiniteSet(Accounts) /\ \A a \in Accounts : c[a] \in Nat
  BY TournamentAssumption, Fields DEF IInv
<1>2. tournament[t].totalLiability = tournament[t].platformFeeCredit
            + SumFunctionOnSet(c, Accounts) + Unclaimed(t)
  BY DEF IInv, BooksBalance
<1>3. tournament[t].platformFeeCredit \in Nat /\ Unclaimed(t) \in Nat
  BY Fields, UnclaimedType DEF IInv
<1> HIDE DEF c
<1>4. /\ SumFunctionOnSet(c, Accounts) \in Nat
      /\ \A a \in Accounts : c[a] <= SumFunctionOnSet(c, Accounts)
  BY <1>1, SumNat
<1>5. tournament[t].platformFeeCredit = 0 /\ Unclaimed(t) = 0
      /\ SumFunctionOnSet(c, Accounts) = 0
  BY <1>2, <1>3, <1>4
<1> QED BY <1>1, <1>4, <1>5 DEF c

\* closeTournament finds every refund claimed, or every prize and the fee paid.
LEMMA CloseStep ==
    ASSUME IInv, NEW t \in Tournaments, CloseTournament(t)
    PROVE  IInv'
<1> DEFINE new == [tournament[t] EXCEPT !.state = "CLOSED"]
<1>1. /\ new \in Tournament /\ new.policy = tournament[t].policy /\ new.state = "CLOSED"
      /\ new.totalLockedStakes = tournament[t].totalLockedStakes
      /\ new.totalLiability = tournament[t].totalLiability
      /\ new.platformFeeCredit = tournament[t].platformFeeCredit
      /\ new.settlementNonce = tournament[t].settlementNonce
  BY Fields DEF IInv, Tournament, State
<1>2. /\ tournament' = [tournament EXCEPT ![t] = new]
      /\ tournament[t].state \in {"SETTLED", "CANCELLED_REFUNDABLE"}
      /\ tournament[t].totalLiability = 0 /\ tournament[t].totalLockedStakes = 0
      /\ UNCHANGED <<created, entrant, entered, credits, refunds, usdc, now>>
  BY DEF CloseTournament, IInv, TypeOK
<1> HIDE DEF new
<1>3. tournament'[t] = new /\ \A x \in Tournaments \ {t} : tournament'[x] = tournament[x]
  BY <1>2 DEF IInv, TypeOK
<1>4. TypeOK'
  BY <1>1, <1>2 DEF IInv, TypeOK
<1>5. t \in created /\ Valid(tournament[t].policy)
  BY <1>2 DEF IInv, Shape, Uncreated, Undecided
<1>6. /\ tournament[t].platformFeeCredit = 0 /\ Unclaimed(t) = 0
      /\ \A a \in Accounts : credits[t][a] = 0
  BY <1>2, NothingLeft
<1>7. tournament[t].settlementNonce = 0 => refunds[t] = entered[t]
  <2>1. CASE tournament[t].state = "SETTLED"
    BY <2>1 DEF IInv, Shape, Divided
  <2>2. CASE tournament[t].state = "CANCELLED_REFUNDABLE"
    <3> DEFINE missing == entered[t] \ refunds[t]
               s == tournament[t].policy.stake
    <3>1. s * Cardinality(missing) = 0
      BY <1>6, <2>2 DEF Unclaimed
    <3>2. s \in Nat \ {0} /\ IsFiniteSet(missing)
      BY <1>5, Fields, FS_Subset DEF Valid, IInv
    <3>3. Cardinality(missing) \in Nat
      BY <3>2, FS_CardinalityType
    <3>4. Cardinality(missing) = 0
      <4> HIDE DEF s, missing
      <4> QED BY <3>1, <3>2, <3>3
    <3>5. missing = {}
      BY <3>2, <3>4, FS_EmptySet
    <3>6. refunds[t] \subseteq entered[t]
      BY <2>2 DEF IInv, Shape, Returned
    <3> QED BY <3>5, <3>6
  <2> QED BY <1>2, <2>1, <2>2
<1>8. Shape(t)'
  <2>1. Finished(t)'
    BY <1>1, <1>2, <1>3, <1>6, <1>7 DEF Finished
  <2> QED BY <1>1, <1>2, <1>3, <1>5, <2>1 DEF IInv, Shape, Undecided, Valid
<1>9. Owes(t)'
  <2>1. SumFunctionOnSet(credits[t], Accounts) = 0
    BY <1>6, NoCredits
  <2>2. Unclaimed(t)' = 0
    BY <1>1, <1>3 DEF Unclaimed
  <2> QED BY <1>1, <1>2, <1>3, <1>6, <2>1, <2>2 DEF Owes
<1>10. Held(t)' = Held(t) + 0 /\ usdc'[Escrow] = usdc[Escrow] + 0
  BY <1>1, <1>2, <1>3, Fields DEF Held, IInv, TypeOK
<1> QED BY <1>2, <1>3, <1>4, <1>8, <1>9, <1>10, LocalStep

-----------------------------------------------------------------------------

\* Every transaction of the contract preserves the inductive invariant.
LEMMA NextIInv == IInv /\ [Next]_vars => IInv'
<1> SUFFICES ASSUME IInv, [Next]_vars PROVE IInv'
  OBVIOUS
<1>1. ASSUME NEW t \in Tournaments, NEW p \in Policies, CreateTournament(t, p)
      PROVE  IInv'
  BY <1>1, CreateStep
<1>2. ASSUME NEW a \in Accounts, NEW t \in Tournaments, NEW e \in Entrants, Register(a, t, e)
      PROVE  IInv'
  BY <1>2, RegisterStep
<1>3. ASSUME NEW t \in Tournaments, CloseRegistration(t) PROVE IInv'
  <2>1. "REGISTRATION_CLOSED" \in Undecided /\ "DRAFT" \in Undecided
    BY DEF Undecided
  <2> QED BY <1>3, <2>1, StateStep DEF CloseRegistration
<1>4. ASSUME NEW t \in Tournaments, MarkRunning(t) PROVE IInv'
  <2>1. "REGISTRATION_CLOSED" \in Undecided /\ "RUNNING" \in Undecided
    BY DEF Undecided
  <2> QED BY <1>4, <2>1, StateStep DEF MarkRunning
<1>5. ASSUME NEW a \in Accounts, NEW t \in Tournaments, CancelAndOpenRefunds(a, t)
      PROVE  IInv'
  BY <1>5, CancelStep
<1>6. ASSUME NEW a \in Accounts, NEW t \in Tournaments, NEW e \in Entrants, ClaimRefund(a, t, e)
      PROVE  IInv'
  BY <1>6, ClaimStep
<1>7. ASSUME NEW a \in Accounts, NEW t \in Tournaments, NEW ranked \in [Ranks -> Entrants],
             SettleByOperator(a, t, ranked, 1)
      PROVE  IInv'
  BY <1>7, SettleStep
<1>8. ASSUME NEW t \in Tournaments, NEW a \in Accounts, WithdrawCreditFor(t, a) PROVE IInv'
  BY <1>8, WithdrawCreditStep
<1>9. ASSUME NEW t \in Tournaments, WithdrawPlatformFeeFor(t) PROVE IInv'
  BY <1>9, WithdrawFeeStep
<1>10. ASSUME NEW t \in Tournaments, CloseTournament(t) PROVE IInv'
  BY <1>10, CloseStep
<1>11. CASE Tick
  <2>1. TypeOK'
    BY <1>11 DEF IInv, TypeOK, Tick
  <2> QED BY <1>11, <2>1, QuietStep DEF Tick
<1>12. CASE UNCHANGED vars
  <2>1. TypeOK'
    BY <1>12 DEF IInv, TypeOK, vars
  <2> QED BY <1>12, <2>1, QuietStep DEF vars
<1> QED
  BY <1>1, <1>2, <1>3, <1>4, <1>5, <1>6, <1>7, <1>8, <1>9, <1>10, <1>11, <1>12 DEF Next

\* The contract's variables always have their types: whatever is called, no
\* subtraction from a liability, balance or stake goes below zero.
THEOREM TypeCorrect == Spec => []TypeOK
<1>1. IInv => TypeOK
  BY DEF IInv
<1> QED BY InitIInv, NextIInv, <1>1, PTL DEF Spec

\* For any tournaments, wallets, ranks, payout shares and fee: the balance is
\* what the tournaments hold, and each owes exactly its fee, credits and
\* unclaimed refunds, rounding included.
THEOREM BooksAlwaysBalance == Spec => []BooksBalance
<1>1. IInv => BooksBalance
  BY DEF IInv
<1> QED BY InitIInv, NextIInv, <1>1, PTL DEF Spec

\* Every credit is a prize of a ranked entrant's wallet or a claimed stake.
THEOREM CreditsAlwaysFollow == Spec => []CreditsFollowOutcome
<1>1. ASSUME IInv PROVE CreditsFollowOutcome
  <2> SUFFICES ASSUME NEW t \in Tournaments, NEW a \in Accounts, credits[t][a] > 0
               PROVE
        \/ /\ tournament[t].state = "SETTLED"
           /\ \E e \in Entrants : entrant[t][e].ranked /\ entrant[t][e].wallet = a
        \/ /\ tournament[t].state = "CANCELLED_REFUNDABLE"
           /\ a \in entered[t] \cap refunds[t]
           /\ credits[t][a] = tournament[t].policy.stake
    BY DEF CreditsFollowOutcome
  <2>1. tournament[t].state \in State
    BY <1>1 DEF IInv, TypeOK, Tournament
  <2>2. tournament[t].state \notin Undecided /\ tournament[t].state # "CLOSED"
    BY <1>1 DEF IInv, Shape, Open, Finished
  <2> QED BY <1>1, <2>1, <2>2 DEF State, Undecided, IInv, Shape, Divided, Returned
<1> QED BY InitIInv, NextIInv, <1>1, PTL DEF Spec

\* A tournament closes only when nothing is owed to anybody.
THEOREM ClosedAlwaysEmpty == Spec => []ClosedOwesNothing
<1>1. IInv => ClosedOwesNothing
  BY DEF IInv, Shape, Finished, Undecided, ClosedOwesNothing, Held
<1> QED BY InitIInv, NextIInv, <1>1, PTL DEF Spec
-----------------------------------------------------------------------------
(* Finality. *)

\* After a settlement or a cancellation no call changes the roster, the ranks,
\* the outcome or raises a prize, for any number of tournaments and calls.
THEOREM DecisionIsFinal == Spec => DecisionFinal
<1> DEFINE Final(t) ==
          /\ tournament'[t].state \in {tournament[t].state, "CLOSED"}
          /\ tournament'[t].settlementNonce = tournament[t].settlementNonce
          /\ entrant'[t] = entrant[t] /\ entered'[t] = entered[t]
          /\ tournament[t].state # "CANCELLED_REFUNDABLE" =>
                /\ refunds'[t] = refunds[t]
                /\ \A a \in Accounts : credits'[t][a] <= credits[t][a]
<1>1. ASSUME IInv, [Next]_vars, NEW x \in Tournaments, Decided(x) PROVE Final(x)
  <2>0. /\ tournament[x] \in Tournament /\ \A a \in Accounts : credits[x][a] \in Nat
        /\ tournament[x].state \notin Undecided /\ x \in created
    BY <1>1, Fields DEF IInv, Decided, Shape, Uncreated
  <2>1. CASE /\ tournament'[x] = tournament[x] /\ entrant'[x] = entrant[x]
             /\ entered'[x] = entered[x] /\ refunds'[x] = refunds[x]
             /\ credits'[x] = credits[x]
    BY <2>0, <2>1
  <2>2. ASSUME NEW t \in Tournaments, NEW p \in Policies, CreateTournament(t, p)
        PROVE  Final(x)
    BY <1>1, <2>0, <2>1, <2>2 DEF CreateTournament, IInv, TypeOK
  <2>3. ASSUME NEW a \in Accounts, NEW t \in Tournaments, NEW e \in Entrants, Register(a, t, e)
        PROVE  Final(x)
    BY <1>1, <2>0, <2>1, <2>3 DEF Register, Undecided, IInv, TypeOK
  <2>4. ASSUME NEW t \in Tournaments, CloseRegistration(t) PROVE Final(x)
    BY <1>1, <2>0, <2>1, <2>4 DEF CloseRegistration, Undecided, IInv, TypeOK
  <2>5. ASSUME NEW t \in Tournaments, MarkRunning(t) PROVE Final(x)
    BY <1>1, <2>0, <2>1, <2>5 DEF MarkRunning, Undecided, IInv, TypeOK
  <2>6. ASSUME NEW a \in Accounts, NEW t \in Tournaments, CancelAndOpenRefunds(a, t)
        PROVE  Final(x)
    BY <1>1, <2>0, <2>1, <2>6 DEF CancelAndOpenRefunds, IInv, TypeOK
  <2>7. ASSUME NEW a \in Accounts, NEW t \in Tournaments, NEW e \in Entrants, ClaimRefund(a, t, e)
        PROVE  Final(x)
    <3>1. CASE x = t
      BY <1>1, <2>0, <2>7, <3>1 DEF ClaimRefund, IInv, TypeOK
    <3>2. CASE x # t
      BY <1>1, <2>0, <2>1, <2>7, <3>2 DEF ClaimRefund, IInv, TypeOK
    <3> QED BY <3>1, <3>2
  <2>8. ASSUME NEW a \in Accounts, NEW t \in Tournaments, NEW ranked \in [Ranks -> Entrants],
               SettleByOperator(a, t, ranked, 1)
        PROVE  Final(x)
    <3>1. x # t
      BY <2>0, <2>8 DEF SettleByOperator, Undecided
    <3> QED BY <1>1, <2>0, <2>1, <2>8, <3>1 DEF SettleByOperator, IInv, TypeOK
  <2>9. ASSUME NEW t \in Tournaments, NEW a \in Accounts, WithdrawCreditFor(t, a)
        PROVE  Final(x)
    <3>1. CASE x = t
      <4>1. \A b \in Accounts : credits'[x][b] <= credits[x][b]
        BY <1>1, <2>0, <2>9, <3>1 DEF WithdrawCreditFor, IInv, TypeOK
      <4>2. /\ tournament'[x].state = tournament[x].state
            /\ tournament'[x].settlementNonce = tournament[x].settlementNonce
        BY <1>1, <2>0, <2>9, <3>1 DEF WithdrawCreditFor, IInv, TypeOK, Tournament
      <4> QED BY <2>9, <4>1, <4>2 DEF WithdrawCreditFor
    <3>2. CASE x # t
      BY <1>1, <2>0, <2>1, <2>9, <3>2 DEF WithdrawCreditFor, IInv, TypeOK
    <3> QED BY <3>1, <3>2
  <2>10. ASSUME NEW t \in Tournaments, WithdrawPlatformFeeFor(t) PROVE Final(x)
    <3>1. /\ tournament'[x].state = tournament[x].state
          /\ tournament'[x].settlementNonce = tournament[x].settlementNonce
      BY <1>1, <2>0, <2>10 DEF WithdrawPlatformFeeFor, IInv, TypeOK, Tournament
    <3> QED BY <2>0, <2>10, <3>1 DEF WithdrawPlatformFeeFor
  <2>11. ASSUME NEW t \in Tournaments, CloseTournament(t) PROVE Final(x)
    <3>1. /\ tournament'[x].state \in {tournament[x].state, "CLOSED"}
          /\ tournament'[x].settlementNonce = tournament[x].settlementNonce
      BY <1>1, <2>0, <2>11 DEF CloseTournament, IInv, TypeOK, Tournament
    <3> QED BY <2>0, <2>11, <3>1 DEF CloseTournament
  <2>12. CASE Tick \/ UNCHANGED vars
    BY <2>1, <2>12 DEF Tick, vars
  <2> HIDE DEF Final
  <2> QED
    BY <1>1, <2>2, <2>3, <2>4, <2>5, <2>6, <2>7, <2>8, <2>9, <2>10, <2>11, <2>12 DEF Next
<1>2. IInv /\ [Next]_vars => [\A t \in Tournaments : Decided(t) => Final(t)]_vars
  BY <1>1
<1> QED BY <1>2, InitIInv, NextIInv, PTL DEF Spec, DecisionFinal
-----------------------------------------------------------------------------
(* The refinement of the prize pool. *)

\* The refinement mapping on each contract state.
LEMMA StageValues ==
    /\ \A state \in Undecided : StageOf(state) = "open"
    /\ StageOf("SETTLED") = "divided"
    /\ StageOf("CANCELLED_REFUNDABLE") = "returned"
    /\ StageOf("CLOSED") = "closed"
BY DEF StageOf, Undecided

\* The contract starts as the pool does.
LEMMA PoolInit == Init => Pool!Init
<1> SUFFICES ASSUME Init PROVE Pool!Init
  OBVIOUS
<1>1. Stage = [t \in Tournaments |-> "none"]
  BY DEF Init, Stage
<1>2. \A t \in Tournaments : /\ tournament[t].policy.stake = 0
                             /\ tournament[t].platformFeeCredit = 0
                             /\ tournament[t].state = "DRAFT"
  BY DEF Init, Draft, NoPolicy
<1>3. Price = [t \in Tournaments |-> 0]
  BY <1>2 DEF Price
<1>4. \A t \in Tournaments, a \in Accounts : credits[t][a] = 0
  BY DEF Init
<1>5. Owed = [t \in Tournaments |-> [a \in Accounts |-> 0]]
  <2>1. ASSUME NEW t \in Tournaments, NEW a \in Accounts
        PROVE  credits[t][a]
               + (IF a = Owner THEN tournament[t].platformFeeCredit ELSE 0)
               + (IF /\ tournament[t].state = "CANCELLED_REFUNDABLE"
                     /\ a \in entered[t] \ refunds[t]
                  THEN tournament[t].policy.stake ELSE 0) = 0
    BY <1>2, <1>4
  <2> QED BY <2>1 DEF Owed
<1>6. entered = [t \in Tournaments |-> {}]
  BY DEF Init
<1>7. Wallet = [a \in Accounts |-> Funds]
  BY TournamentAssumption DEF Init, Wallet
<1> QED BY <1>1, <1>3, <1>5, <1>6, <1>7 DEF Pool!Init

\* What one wallet is owed by one tournament.
OwedTo(t, a) ==
    credits[t][a]
    + (IF a = Owner THEN tournament[t].platformFeeCredit ELSE 0)
    + (IF /\ tournament[t].state = "CANCELLED_REFUNDABLE"
          /\ a \in entered[t] \ refunds[t]
       THEN tournament[t].policy.stake ELSE 0)

\* Functions that agree everywhere but at t differ by an update at t.
LEMMA UpdateAt ==
    ASSUME NEW S, NEW f, NEW g, NEW t \in S,
           f = [x \in S |-> f[x]], g = [x \in S |-> g[x]],
           \A x \in S \ {t} : g[x] = f[x]
    PROVE  g = [f EXCEPT ![t] = g[t]] /\ (g[t] = f[t] => g = f)
OBVIOUS

\* The mapping of a step on one tournament leaves the other pools alone.
LEMMA MappedStep ==
    ASSUME NEW t \in Tournaments,
           \A x \in Tournaments \ {t} :
              /\ x \in created' <=> x \in created
              /\ tournament'[x] = tournament[x] /\ entered'[x] = entered[x]
              /\ credits'[x] = credits[x] /\ refunds'[x] = refunds[x]
    PROVE  /\ Stage' = [Stage EXCEPT ![t] = Stage'[t]]
           /\ Price' = [Price EXCEPT ![t] = Price'[t]]
           /\ Owed' = [Owed EXCEPT ![t] = Owed'[t]]
           /\ \A x \in Tournaments \ {t} : Price'[x] = Price[x]
           /\ Stage'[t] = Stage[t] => Stage' = Stage
           /\ Price'[t] = Price[t] => Price' = Price
           /\ Owed'[t] = Owed[t] => Owed' = Owed
<1>1. ASSUME NEW x \in Tournaments \ {t}
      PROVE  Stage'[x] = Stage[x] /\ Price'[x] = Price[x] /\ Owed'[x] = Owed[x]
  BY DEF Stage, Price, Owed
<1> DEFINE s == Stage
           p == Price
           o == Owed
           sn == Stage'
           pn == Price'
           on == Owed'
<1>2. /\ s = [x \in Tournaments |-> s[x]] /\ sn = [x \in Tournaments |-> sn[x]]
      /\ p = [x \in Tournaments |-> p[x]] /\ pn = [x \in Tournaments |-> pn[x]]
      /\ o = [x \in Tournaments |-> o[x]] /\ on = [x \in Tournaments |-> on[x]]
  BY DEF Stage, Price, Owed
<1>3. \A x \in Tournaments \ {t} : sn[x] = s[x] /\ pn[x] = p[x] /\ on[x] = o[x]
  BY <1>1
<1> HIDE DEF s, p, o, sn, pn, on
<1>4. /\ sn = [s EXCEPT ![t] = sn[t]] /\ (sn[t] = s[t] => sn = s)
      /\ pn = [p EXCEPT ![t] = pn[t]] /\ (pn[t] = p[t] => pn = p)
      /\ on = [o EXCEPT ![t] = on[t]] /\ (on[t] = o[t] => on = o)
  BY ONLY <1>2, <1>3, t \in Tournaments, UpdateAt
<1> QED BY <1>1, <1>4 DEF s, p, o, sn, pn, on

\* The mapped values of one tournament.
LEMMA MappedValues ==
    ASSUME NEW t \in Tournaments
    PROVE  /\ Stage[t] = IF t \in created THEN StageOf(tournament[t].state) ELSE "none"
           /\ Price[t] = tournament[t].policy.stake
           /\ Owed[t] = [a \in Accounts |-> OwedTo(t, a)]
BY DEF Stage, Price, Owed, OwedTo

\* Creating a tournament announces a pool.
LEMMA PoolAnnounce ==
    ASSUME IInv, NEW t \in Tournaments, NEW p \in Policies, CreateTournament(t, p)
    PROVE  Pool!Announce(t)
<1>1. /\ t \notin created /\ created' = created \cup {t}
      /\ tournament' = [tournament EXCEPT ![t] = Draft(p)]
      /\ UNCHANGED <<entrant, entered, credits, refunds, usdc, now>>
  BY DEF CreateTournament
<1>2. tournament'[t] = Draft(p) /\ \A x \in Tournaments \ {t} : tournament'[x] = tournament[x]
  BY <1>1 DEF IInv, TypeOK
<1>3. /\ Draft(p).state = "DRAFT" /\ Draft(p).platformFeeCredit = 0
      /\ Draft(p).policy = p
  BY DEF Draft
<1>4. Uncreated(t) /\ Open(t)
  BY <1>1 DEF IInv, Shape, Uncreated
<1>5. \A x \in Tournaments \ {t} : x \in created' <=> x \in created
  BY <1>1
<1>6. Stage[t] = "none" /\ Stage'[t] = "open"
  BY <1>1, <1>2, <1>3, StageValues DEF Stage, Undecided
<1>7. ASSUME NEW a \in Accounts PROVE OwedTo(t, a)' = OwedTo(t, a)
  BY <1>1, <1>2, <1>3, <1>4 DEF OwedTo, Open, Uncreated, Undecided
<1>8. Owed'[t] = Owed[t]
  BY <1>7, MappedValues DEF Owed, OwedTo
<1>9. p.stake \in Nat
  BY TournamentAssumption DEF Policy
<1>10. /\ Stage' = [Stage EXCEPT ![t] = Stage'[t]]
       /\ Owed'[t] = Owed[t] => Owed' = Owed
       /\ \A x \in Tournaments \ {t} : Price'[x] = Price[x]
  BY <1>1, <1>2, <1>5, MappedStep
<1>11. Stage' = [Stage EXCEPT ![t] = "open"] /\ Owed' = Owed
  BY <1>6, <1>8, <1>10
<1>12. Price' \in [Tournaments -> Nat]
  <2>1. \A x \in Tournaments : tournament'[x].policy.stake \in Nat
    BY <1>2, <1>3, <1>9, Fields DEF IInv
  <2> QED BY <2>1 DEF Price
<1>13. Wallet' = Wallet
  BY <1>1 DEF Wallet
<1> QED BY <1>1, <1>6, <1>10, <1>11, <1>12, <1>13 DEF Pool!Announce

\* Registering enters one member.
LEMMA PoolEnter ==
    ASSUME IInv, NEW a \in Accounts, NEW t \in Tournaments, NEW e \in Entrants,
           Register(a, t, e)
    PROVE  Pool!Enter(t, a)
<1> DEFINE s == tournament[t].policy.stake
<1>1. /\ entered' = [entered EXCEPT ![t] = @ \cup {a}]
      /\ usdc' = [usdc EXCEPT ![a] = @ - s, ![Escrow] = @ + s]
      /\ usdc[a] >= s /\ a \notin entered[t] /\ tournament[t].state = "DRAFT"
      /\ now < tournament[t].policy.closesAt /\ now \in Nat
      /\ UNCHANGED <<created, credits, refunds, now>>
  BY DEF Register, IInv, TypeOK
<1>2. /\ tournament'[t].policy = tournament[t].policy
      /\ tournament'[t].state = tournament[t].state
      /\ tournament'[t].platformFeeCredit = tournament[t].platformFeeCredit
      /\ \A x \in Tournaments \ {t} : /\ tournament'[x] = tournament[x]
                                      /\ entered'[x] = entered[x]
  BY <1>1 DEF Register, IInv, TypeOK, Tournament
<1>3. t \in created
  <2>1. Uncreated(t) => tournament[t].policy.closesAt = 0
    BY DEF Uncreated, NoPolicy
  <2> QED BY <1>1, <2>1 DEF IInv, Shape
<1>4. Stage[t] = "open" /\ Stage'[t] = "open"
  BY <1>1, <1>2, <1>3, StageValues DEF Stage, Undecided
<1>5. Price[t] = s /\ Price'[t] = s
  BY <1>2 DEF Price
<1>6. ASSUME NEW x \in Accounts PROVE OwedTo(t, x)' = OwedTo(t, x)
  BY <1>1, <1>2 DEF OwedTo
<1>7. Owed'[t] = Owed[t]
  BY <1>6, MappedValues DEF Owed, OwedTo
<1>9. Stage' = Stage /\ Price' = Price /\ Owed' = Owed
  BY <1>1, <1>2, <1>4, <1>5, <1>7, MappedStep
<1>10. Wallet[a] >= Price[t] /\ Wallet' = [Wallet EXCEPT ![a] = @ - Price[t]]
  <2>1. a # Escrow /\ usdc \in [Accounts \cup {Escrow} -> Nat]
    BY TournamentAssumption DEF IInv, TypeOK
  <2>2. Wallet[a] >= Price[t]
    BY <1>1, <1>5, <2>1 DEF Wallet
  <2>3. \A x \in Accounts : Wallet'[x] = IF x = a THEN Wallet[a] - Price[t] ELSE Wallet[x]
    BY <1>1, <1>5, <2>1, TournamentAssumption DEF Wallet
  <2> QED BY <2>2, <2>3 DEF Wallet
<1> QED BY <1>1, <1>4, <1>9, <1>10 DEF Pool!Enter

\* Opening refunds returns the pool.
LEMMA PoolReturn ==
    ASSUME IInv, NEW a \in Accounts, NEW t \in Tournaments, CancelAndOpenRefunds(a, t)
    PROVE  Pool!Return(t)
<1>1. /\ a = tournament[t].policy.operator /\ tournament[t].state \in Undecided
      /\ UNCHANGED <<created, entrant, entered, credits, refunds, usdc, now>>
  BY DEF CancelAndOpenRefunds
<1>2. /\ tournament'[t].policy = tournament[t].policy
      /\ tournament'[t].state = "CANCELLED_REFUNDABLE"
      /\ tournament'[t].platformFeeCredit = tournament[t].platformFeeCredit
      /\ \A x \in Tournaments \ {t} : tournament'[x] = tournament[x]
  BY DEF CancelAndOpenRefunds, IInv, TypeOK, Tournament
<1>3. t \in created /\ Open(t)
  BY <1>1, TournamentAssumption DEF IInv, Shape, Uncreated, NoPolicy
<1>4. Stage[t] = "open" /\ Stage'[t] = "returned"
  BY <1>1, <1>2, <1>3, StageValues DEF Stage
<1>5. Price'[t] = Price[t] /\ Price[t] = tournament[t].policy.stake
  BY <1>2 DEF Price
<1>6. ASSUME NEW x \in Accounts
      PROVE  OwedTo(t, x)' = IF x \in entered[t] THEN Price[t] ELSE 0
  <2>1. tournament[t].policy.stake \in Nat
    BY Fields DEF IInv
  <2> QED BY <1>1, <1>2, <1>3, <1>5, <2>1 DEF OwedTo, Open
<1>7. Owed'[t] = [x \in Accounts |-> IF x \in entered[t] THEN Price[t] ELSE 0]
  BY <1>6 DEF Owed, OwedTo
<1>8. /\ Stage' = [Stage EXCEPT ![t] = Stage'[t]]
      /\ Owed' = [Owed EXCEPT ![t] = Owed'[t]]
      /\ Price' = Price
  BY <1>1, <1>2, <1>5, MappedStep
<1>9. Wallet' = Wallet
  BY <1>1 DEF Wallet
<1> QED BY <1>1, <1>4, <1>7, <1>8, <1>9 DEF Pool!Return
\* Every wallet is owed a natural number.
LEMMA OwedType ==
    ASSUME TypeOK, NEW t \in Tournaments, NEW a \in Accounts
    PROVE  /\ OwedTo(t, a) \in Nat
           /\ credits[t][a] <= OwedTo(t, a)
           /\ a = Owner => tournament[t].platformFeeCredit <= OwedTo(t, a)
<1>1. /\ credits[t][a] \in Nat /\ tournament[t].platformFeeCredit \in Nat
      /\ tournament[t].policy.stake \in Nat
  BY Fields
<1> QED BY <1>1 DEF OwedTo

\* The pool counts and adds up as the escrow does: an instance has operators
\* of its own, with the same definitions.
LEMMA PoolWords ==
    /\ \A S : Pool!Cardinality(S) = Cardinality(S)
    /\ \A f, S : Pool!SumFunctionOnSet(f, S) = SumFunctionOnSet(f, S)
<1>1. ASSUME NEW S PROVE Pool!Cardinality(S) = Cardinality(S)
  BY DEF Pool!Cardinality, Cardinality
<1>2. ASSUME NEW f, NEW S PROVE Pool!SumFunctionOnSet(f, S) = SumFunctionOnSet(f, S)
  BY DEF Pool!SumFunctionOnSet, Pool!FoldFunctionOnSet, Pool!MapThenFoldSet,
         SumFunctionOnSet, FoldFunctionOnSet, MapThenFoldSet
<1> QED BY <1>1, <1>2

\* Settling divides the pool.
LEMMA PoolDivide ==
    ASSUME IInv, IInv', NEW a \in Accounts, NEW t \in Tournaments,
           NEW ranked \in [Ranks -> Entrants], SettleByOperator(a, t, ranked, 1)
    PROVE  Pool!Divide(t)
<1> DEFINE pool == tournament[t].totalLockedStakes
           fee == tournament'[t].platformFeeCredit
           c == credits'[t]
           owed == [x \in Accounts |-> OwedTo(t, x)']
           first == [x \in Accounts |-> IF x = Owner THEN fee ELSE 0]
<1>1. /\ a = tournament[t].policy.operator /\ tournament[t].state = "RUNNING"
      /\ UNCHANGED <<created, entered, refunds, usdc, now>>
  BY DEF SettleByOperator
<1>2. /\ tournament'[t].policy = tournament[t].policy
      /\ tournament'[t].state = "SETTLED" /\ tournament'[t].totalLiability = pool
      /\ \A x \in Tournaments \ {t} : /\ tournament'[x] = tournament[x]
                                      /\ credits'[x] = credits[x]
  BY DEF SettleByOperator, IInv, TypeOK, Tournament
<1>3. t \in created /\ Open(t)
  BY <1>1, TournamentAssumption DEF IInv, Shape, Uncreated, Undecided, NoPolicy
<1>4. Stage[t] = "open" /\ Stage'[t] = "divided"
  BY <1>1, <1>2, <1>3, StageValues DEF Stage, Undecided
<1>5. Price'[t] = Price[t] /\ pool = Price[t] * Cardinality(entered[t]) /\ pool \in Nat
  BY <1>2, <1>3, Fields DEF Price, Open, IInv
<1>6. fee \in Nat /\ \A x \in Accounts : c[x] \in Nat
  <2>1. tournament'[t] \in Tournament /\ \A x \in Accounts : c[x] \in Nat
    BY DEF IInv, TypeOK
  <2> QED BY <2>1 DEF Tournament
<1>7. \A x \in Accounts : owed[x] = c[x] + first[x]
  BY <1>2, <1>6 DEF OwedTo
<1>8. Owed'[t] = owed
  BY DEF Owed, OwedTo
<1>9. SumFunctionOnSet(owed, Accounts) = pool
  <2>1. pool = fee + SumFunctionOnSet(c, Accounts)
    <3>1. Unclaimed(t)' = 0
      BY <1>2 DEF Unclaimed
    <3>2. tournament'[t].totalLiability = fee + SumFunctionOnSet(c, Accounts) + Unclaimed(t)'
      BY DEF IInv, BooksBalance
    <3>3. SumFunctionOnSet(c, Accounts) \in Int
      BY <1>6, TournamentAssumption, SumType
    <3> QED BY <1>2, <1>6, <3>1, <3>2, <3>3
  <2>2. IsFiniteSet(Accounts) /\ Owner \in Accounts
    BY TournamentAssumption
  <2>3. \A x \in Accounts : first[x] \in Int /\ (x # Owner => first[x] = 0)
    BY <1>6
  <2>4. first[Owner] = fee
    BY <2>2
  <2> HIDE DEF owed, first, c, fee
  <2>5. SumFunctionOnSet(first, Accounts) = first[Owner]
    BY <2>2, <2>3, SumOne
  <2>6. \A x \in Accounts : c[x] \in Int /\ first[x] \in Int /\ owed[x] = c[x] + first[x]
    BY <1>6, <1>7, <2>3
  <2>7. SumFunctionOnSet(owed, Accounts)
           = SumFunctionOnSet(c, Accounts) + SumFunctionOnSet(first, Accounts)
    BY <2>2, <2>6, SumPlus
  <2>8. SumFunctionOnSet(c, Accounts) \in Int
    BY <2>2, <2>6, SumType
  <2> QED BY <1>6, <2>1, <2>4, <2>5, <2>7, <2>8
<1>10. ASSUME NEW x \in Accounts, owed[x] > 0 PROVE x \in entered[t] \cup {Owner}
  <2>1. CASE x = Owner
    BY <2>1
  <2>2. CASE x # Owner
    <3>1. c[x] > 0
      BY <1>6, <1>7, <1>10, <2>2
    <3>2. PICK e \in Entrants : entrant'[t][e].wallet = x
      BY <1>2, <3>1 DEF IInv, Shape, Divided
    <3>3. x \in entered'[t]
      BY <3>2, TournamentAssumption DEF IInv, Shape
    <3> QED BY <1>1, <3>3
  <2> QED BY <2>1, <2>2
<1>11. /\ Stage' = [Stage EXCEPT ![t] = Stage'[t]]
       /\ Owed' = [Owed EXCEPT ![t] = Owed'[t]]
       /\ Price' = Price
  BY <1>1, <1>2, <1>5, MappedStep
<1>12. Owed' \in [Tournaments -> [Accounts -> Nat]]
  <2>1. ASSUME NEW x \in Tournaments, NEW y \in Accounts PROVE OwedTo(x, y)' \in Nat
    <3>1. /\ credits'[x][y] \in Nat /\ tournament'[x] \in Tournament
      BY DEF IInv, TypeOK
    <3>2. tournament'[x].platformFeeCredit \in Nat /\ tournament'[x].policy.stake \in Nat
      BY <3>1 DEF Tournament, Policy
    <3> QED BY <3>1, <3>2 DEF OwedTo
  <2> QED BY <2>1 DEF Owed, OwedTo
<1>13. Wallet' = Wallet /\ \A u \in Tournaments \ {t} : Owed'[u] = Owed[u]
  BY <1>1, <1>11 DEF Wallet, Owed
<1> HIDE DEF pool, owed
<1>14. /\ \A x \in Accounts : Owed'[t][x] > 0 => x \in entered[t] \cup {Owner}
       /\ SumFunctionOnSet(Owed'[t], Accounts) = Price[t] * Cardinality(entered[t])
  BY <1>5, <1>8, <1>9, <1>10
<1>15. Stage[t] = "open" /\ Stage' = [Stage EXCEPT ![t] = "divided"]
  BY <1>4, <1>11
<1>16. UNCHANGED <<Price, entered, Wallet>>
  BY <1>1, <1>11, <1>13
<1> HIDE DEF fee, c, first
<1> QED BY <1>12, <1>13, <1>14, <1>15, <1>16, PoolWords DEF Pool!Divide

\* Paying a credit or the fee collects part of what a wallet is owed.
LEMMA PoolCollect ==
    ASSUME IInv, NEW t \in Tournaments, NEW a \in Accounts, NEW amount \in Nat \ {0},
           t \in created, tournament[t].state \in {"SETTLED", "CANCELLED_REFUNDABLE"},
           amount <= OwedTo(t, a),
           created' = created, entered' = entered,
           \A x \in Tournaments \ {t} :
              /\ tournament'[x] = tournament[x]
              /\ credits'[x] = credits[x] /\ refunds'[x] = refunds[x],
           tournament'[t].state = tournament[t].state,
           tournament'[t].policy = tournament[t].policy,
           \A x \in Accounts : OwedTo(t, x)' =
              IF x = a THEN OwedTo(t, x) - amount ELSE OwedTo(t, x),
           usdc' = [usdc EXCEPT ![Escrow] = @ - amount, ![a] = @ + amount]
    PROVE  Pool!Collect(t, a)
<1>1. Stage[t] \in {"divided", "returned"} /\ Stage'[t] = Stage[t] /\ Price'[t] = Price[t]
  BY StageValues DEF Stage, Price
<1>2. /\ Stage' = Stage /\ Price' = Price
      /\ Owed' = [Owed EXCEPT ![t] = Owed'[t]]
  BY <1>1, MappedStep
<1>3. Owed[t] = [x \in Accounts |-> OwedTo(t, x)]
      /\ Owed'[t] = [x \in Accounts |-> OwedTo(t, x)']
  BY DEF Owed, OwedTo
<1>4. Owed'[t] = [Owed[t] EXCEPT ![a] = @ - amount]
  BY <1>3
<1>5. Owed' = [Owed EXCEPT ![t][a] = @ - amount]
  BY <1>2, <1>4 DEF Owed
<1>6. amount \in 1..Owed[t][a]
  BY <1>3, OwedType DEF IInv
<1>7. Wallet' = [Wallet EXCEPT ![a] = @ + amount]
  BY TournamentAssumption DEF Wallet, IInv, TypeOK
<1> QED BY <1>1, <1>2, <1>5, <1>6, <1>7 DEF Pool!Collect
\* The contract implements the prize pool: every call announces a pool, enters
\* one member at the stake, divides or returns what was entered, pays what is
\* owed once, closes an empty pool, or is invisible to everybody's money.
THEOREM EscrowImplementsPool == Spec => PoolHonoured
<1>1. ASSUME IInv, IInv', [Next]_vars PROVE [Pool!Next]_(Pool!poolVars)
  <2>1. ASSUME NEW t \in Tournaments, NEW p \in Policies, CreateTournament(t, p)
        PROVE  Pool!Announce(t)
    BY <1>1, <2>1, PoolAnnounce
  <2>2. ASSUME NEW a \in Accounts, NEW t \in Tournaments, NEW e \in Entrants, Register(a, t, e)
        PROVE  Pool!Enter(t, a)
    BY <1>1, <2>2, PoolEnter
  <2>3. ASSUME NEW t \in Tournaments, NEW s \in Undecided, tournament[t].state \in Undecided,
               tournament' = [tournament EXCEPT ![t].state = s],
               UNCHANGED <<created, entrant, entered, credits, refunds, usdc, now>>
        PROVE  UNCHANGED <<Stage, Price, entered, Owed, Wallet>>
    <3>1. /\ tournament'[t].policy = tournament[t].policy /\ tournament'[t].state = s
          /\ tournament'[t].platformFeeCredit = tournament[t].platformFeeCredit
          /\ \A x \in Tournaments \ {t} : tournament'[x] = tournament[x]
      BY <1>1, <2>3 DEF IInv, TypeOK, Tournament
    <3>2. Stage'[t] = Stage[t] /\ Price'[t] = Price[t]
      BY <2>3, <3>1, StageValues DEF Stage, Price
    <3>3. ASSUME NEW x \in Accounts PROVE OwedTo(t, x)' = OwedTo(t, x)
      BY <2>3, <3>1 DEF OwedTo, Undecided
    <3>4. Owed'[t] = Owed[t]
      BY <3>3 DEF Owed, OwedTo
    <3>5. Stage' = Stage /\ Price' = Price /\ Owed' = Owed
      BY <2>3, <3>1, <3>2, <3>4, MappedStep
    <3> QED BY <2>3, <3>5 DEF Wallet
  <2>4. ASSUME NEW t \in Tournaments, CloseRegistration(t) \/ MarkRunning(t)
        PROVE  UNCHANGED <<Stage, Price, entered, Owed, Wallet>>
    <3>1. {"DRAFT", "REGISTRATION_CLOSED", "RUNNING"} \subseteq Undecided
      BY DEF Undecided
    <3> QED BY <2>3, <2>4, <3>1 DEF CloseRegistration, MarkRunning
  <2>5. ASSUME NEW a \in Accounts, NEW t \in Tournaments, CancelAndOpenRefunds(a, t)
        PROVE  Pool!Return(t)
    BY <1>1, <2>5, PoolReturn
  <2>6. ASSUME NEW a \in Accounts, NEW t \in Tournaments, NEW e \in Entrants, ClaimRefund(a, t, e)
        PROVE  UNCHANGED <<Stage, Price, entered, Owed, Wallet>>
    <3>1. /\ tournament[t].state = "CANCELLED_REFUNDABLE" /\ entrant[t][e].wallet = a
          /\ a \notin refunds[t] /\ refunds'[t] = refunds[t] \cup {a}
          /\ \A x \in Accounts : credits'[t][x] =
                IF x = a THEN credits[t][x] + tournament[t].policy.stake ELSE credits[t][x]
          /\ \A x \in Tournaments \ {t} : credits'[x] = credits[x] /\ refunds'[x] = refunds[x]
          /\ UNCHANGED <<created, tournament, entered, usdc>>
      BY <1>1, <2>6 DEF ClaimRefund, IInv, TypeOK
    <3>2. a \in entered[t]
      BY <1>1, <3>1, TournamentAssumption DEF IInv, Shape
    <3>3. ASSUME NEW x \in Accounts PROVE OwedTo(t, x)' = OwedTo(t, x)
      <4>1. /\ credits[t][x] \in Nat /\ tournament[t].platformFeeCredit \in Nat
            /\ tournament[t].policy.stake \in Nat
        BY <1>1, Fields DEF IInv
      <4> QED BY <3>1, <3>2, <4>1 DEF OwedTo
    <3>4. Owed'[t] = Owed[t]
      BY <3>3 DEF Owed, OwedTo
    <3>5. Stage' = Stage /\ Price' = Price /\ Owed' = Owed
      BY <3>1, <3>4, MappedStep DEF Stage, Price
    <3> QED BY <3>1, <3>5 DEF Wallet
  <2>7. ASSUME NEW a \in Accounts, NEW t \in Tournaments, NEW ranked \in [Ranks -> Entrants],
               SettleByOperator(a, t, ranked, 1)
        PROVE  Pool!Divide(t)
    BY <1>1, <2>7, PoolDivide
  <2>8. ASSUME NEW t \in Tournaments, NEW a \in Accounts, WithdrawCreditFor(t, a)
        PROVE  Pool!Collect(t, a)
    <3> DEFINE amount == credits[t][a]
    <3>1. amount \in Nat \ {0} /\ amount <= OwedTo(t, a) /\ tournament[t] \in Tournament
      BY <1>1, <2>8, Fields, OwedType DEF WithdrawCreditFor, IInv
    <3>2. t \in created /\ tournament[t].state \in {"SETTLED", "CANCELLED_REFUNDABLE"}
      <4>1. tournament[t].state \in State
        BY <3>1 DEF Tournament
      <4>2. tournament[t].state \notin Undecided /\ tournament[t].state # "CLOSED"
        BY <1>1, <3>1 DEF IInv, Shape, Open, Finished
      <4> QED BY <1>1, <4>1, <4>2 DEF State, Undecided, IInv, Shape, Uncreated
    <3>3. /\ tournament'[t].state = tournament[t].state
          /\ tournament'[t].policy = tournament[t].policy
          /\ tournament'[t].platformFeeCredit = tournament[t].platformFeeCredit
          /\ \A x \in Tournaments \ {t} :
                tournament'[x] = tournament[x] /\ credits'[x] = credits[x]
          /\ UNCHANGED <<created, entered, refunds>>
      BY <1>1, <2>8, <3>1 DEF WithdrawCreditFor, IInv, TypeOK, Tournament
    <3>4. \A x \in Accounts : credits'[t][x] = IF x = a THEN 0 ELSE credits[t][x]
      BY <1>1, <2>8 DEF WithdrawCreditFor, IInv, TypeOK
    <3>5. \A x \in Accounts : OwedTo(t, x)' =
             IF x = a THEN OwedTo(t, x) - amount ELSE OwedTo(t, x)
      <4>1. /\ \A x \in Accounts : credits[t][x] \in Nat
            /\ tournament[t].platformFeeCredit \in Nat /\ tournament[t].policy.stake \in Nat
        BY <1>1, Fields DEF IInv
      <4> QED BY <3>3, <3>4, <4>1 DEF OwedTo
    <3>6. usdc' = [usdc EXCEPT ![Escrow] = @ - amount, ![a] = @ + amount]
      BY <2>8 DEF WithdrawCreditFor
    <3> HIDE DEF amount
    <3> QED BY <1>1, <3>1, <3>2, <3>3, <3>5, <3>6, PoolCollect
  <2>9. ASSUME NEW t \in Tournaments, WithdrawPlatformFeeFor(t)
        PROVE  Pool!Collect(t, Owner)
    <3> DEFINE amount == tournament[t].platformFeeCredit
    <3>0. Owner \in Accounts
      BY TournamentAssumption
    <3>1. amount \in Nat \ {0} /\ amount <= OwedTo(t, Owner) /\ tournament[t] \in Tournament
      BY <1>1, <2>9, <3>0, Fields, OwedType DEF WithdrawPlatformFeeFor, IInv
    <3>2. t \in created /\ tournament[t].state \in {"SETTLED", "CANCELLED_REFUNDABLE"}
      <4>1. tournament[t].state \in State
        BY <3>1 DEF Tournament
      <4>2. tournament[t].state \notin Undecided /\ tournament[t].state # "CLOSED"
        BY <1>1, <3>1 DEF IInv, Shape, Open, Finished
      <4> QED BY <1>1, <4>1, <4>2 DEF State, Undecided, IInv, Shape, Uncreated
    <3>3. /\ tournament'[t].state = tournament[t].state
          /\ tournament'[t].policy = tournament[t].policy
          /\ tournament'[t].platformFeeCredit = 0
          /\ \A x \in Tournaments \ {t} : tournament'[x] = tournament[x]
          /\ UNCHANGED <<created, entered, credits, refunds>>
      BY <1>1, <2>9, <3>1 DEF WithdrawPlatformFeeFor, IInv, TypeOK, Tournament
    <3>4. \A x \in Accounts : OwedTo(t, x)' =
             IF x = Owner THEN OwedTo(t, x) - amount ELSE OwedTo(t, x)
      <4>1. /\ \A x \in Accounts : credits[t][x] \in Nat
            /\ amount \in Nat /\ tournament[t].policy.stake \in Nat
        BY <1>1, Fields DEF IInv
      <4> QED BY <3>3, <4>1 DEF OwedTo
    <3>5. usdc' = [usdc EXCEPT ![Escrow] = @ - amount, ![Owner] = @ + amount]
      BY <2>9 DEF WithdrawPlatformFeeFor
    <3> HIDE DEF amount
    <3> QED BY <1>1, <3>0, <3>1, <3>2, <3>3, <3>4, <3>5, PoolCollect
  <2>10. ASSUME NEW t \in Tournaments, CloseTournament(t)
         PROVE  Pool!Close(t)
    <3>1. /\ tournament[t].state \in {"SETTLED", "CANCELLED_REFUNDABLE"}
          /\ tournament[t].totalLiability = 0
          /\ UNCHANGED <<created, entrant, entered, credits, refunds, usdc, now>>
      BY <2>10 DEF CloseTournament
    <3>2. /\ tournament'[t].state = "CLOSED"
          /\ tournament'[t].policy = tournament[t].policy
          /\ tournament'[t].platformFeeCredit = tournament[t].platformFeeCredit
          /\ tournament'[t].settlementNonce = tournament[t].settlementNonce
          /\ \A x \in Tournaments \ {t} : tournament'[x] = tournament[x]
      BY <1>1, <2>10 DEF CloseTournament, IInv, TypeOK, Tournament
    <3>3. /\ tournament[t].platformFeeCredit = 0
          /\ \A a \in Accounts : credits[t][a] = 0
      BY <1>1, <3>1, NothingLeft
    <3>4. t \in created
      BY <1>1, <3>1 DEF IInv, Shape, Uncreated, Undecided
    <3>5. tournament[t].state = "CANCELLED_REFUNDABLE" => entered[t] \ refunds[t] = {}
      <4>1. Finished(t)'
        BY <1>1, <3>2 DEF IInv, Shape
      <4> QED BY <1>1, <3>1, <3>2, <4>1 DEF Finished, IInv, Shape, Returned
    <3>6. \A a \in Accounts : OwedTo(t, a) = 0 /\ OwedTo(t, a)' = 0
      BY <3>1, <3>2, <3>3, <3>5 DEF OwedTo
    <3>7. Owed'[t] = Owed[t] /\ \A a \in Accounts : Owed[t][a] = 0
      BY <3>6 DEF Owed, OwedTo
    <3>8. Stage[t] \in {"divided", "returned"} /\ Stage'[t] = "closed" /\ Price'[t] = Price[t]
      BY <3>1, <3>2, <3>4, StageValues DEF Stage, Price
    <3>9. Stage' = [Stage EXCEPT ![t] = Stage'[t]] /\ Price' = Price /\ Owed' = Owed
      BY <3>1, <3>2, <3>7, <3>8, MappedStep
    <3>10. Wallet' = Wallet
      BY <3>1 DEF Wallet
    <3> QED BY <3>1, <3>7, <3>8, <3>9, <3>10 DEF Pool!Close
  <2>11. Tick \/ UNCHANGED vars => UNCHANGED <<Stage, Price, entered, Owed, Wallet>>
    BY DEF Tick, vars, Stage, Price, Owed, Wallet
  <2>12. Owner \in Accounts
    BY TournamentAssumption
  <2> QED
    BY <1>1, <2>1, <2>2, <2>4, <2>5, <2>6, <2>7, <2>8, <2>9, <2>10, <2>11, <2>12
    DEF Next, Pool!Next, Pool!poolVars
<1> QED BY <1>1, PoolInit, InitIInv, NextIInv, PTL DEF Spec, PoolHonoured, Pool!Spec

-----------------------------------------------------------------------------
(* The scripts of the live lifecycle, for any accounts, entrants, ranks and     *)
(* policy, and any number of runs and transactions.  First their tournament on  *)
(* Arc, then the scripts and the state file.                                    *)

Ranking == [Ranks -> Entrants]

\* What an account has and is owed, and what RunTruthful says it is.
Worth(a) == usdc[a] + OwedTo(Live, a)
PaidIn(a) == IF a \in entered[Live] THEN LivePolicy.stake ELSE 0
Earned(a) ==
    Worth(a) = IF tournament[Live].settlementNonce = 1 THEN Funds - PaidIn(a) + Prize(a)
               ELSE IF tournament[Live].state \in Undecided THEN Funds - PaidIn(a)
               ELSE Funds

\* The scripts' tournament on Arc.
ArcInv ==
    /\ IInv
    /\ created \subseteq {Live}
    /\ Live \in created => tournament[Live].policy = LivePolicy
    /\ tournament[Live].entrantCount = Cardinality(entered[Live])
    /\ tournament[Live].entrantCount <= AgentCount
    /\ Live \in created /\ tournament[Live].state = "RUNNING" => tournament[Live].entrantCount = AgentCount
    /\ tournament[Live].settlementNonce \in {0, 1}
    /\ tournament[Live].settlementNonce = 1 =>
          /\ tournament[Live].entrantCount = AgentCount
          /\ file.ranking \in Ranking
          /\ tournament[Live].state \in {"SETTLED", "CLOSED"}
    /\ \A a \in Accounts : Earned(a)

\* It was cancelled; it may be.
Cancelled ==
    \/ tournament[Live].state = "CANCELLED_REFUNDABLE"
    \/ tournament[Live].state = "CLOSED" /\ tournament[Live].settlementNonce = 0
Late ==
    /\ Live \in created
    /\ \/ now >= LivePolicy.expiresAt
       \/ now >= LivePolicy.closesAt /\ Cardinality(entered[Live]) < AgentCount

\* What no call and no block takes back.
Onward ==
    /\ created \subseteq created'
    /\ now <= now' /\ now' \in Nat
    /\ \/ entered'[Live] = entered[Live]
       \/ now < LivePolicy.closesAt /\ now' = now /\ Cardinality(entered[Live]) < AgentCount
    /\ tournament[Live].settlementNonce = 1 => tournament'[Live].settlementNonce = 1
    /\ tournament[Live].state = "CLOSED" => tournament'[Live].state = "CLOSED"

\* What the invariant says of the scripts' tournament, part by part.
LEMMA LiveFacts ==
    ASSUME ArcInv
    PROVE  /\ Live \in Tournaments /\ tournament[Live] \in Tournament /\ Shape(Live)
           /\ tournament[Live].state \in State
           /\ LivePolicy \in Policy /\ LivePolicy.stake \in Nat
           /\ LivePolicy.payoutBps \in [Ranks -> Nat]
           /\ LivePolicy.closesAt \in Nat /\ LivePolicy.expiresAt \in Nat
           /\ LivePolicy.minEntrants = AgentCount /\ LivePolicy.maxEntrants = AgentCount
           /\ AgentCount \in Nat \ {0, 1} /\ LivePolicy.operator = Owner
           /\ entered[Live] \subseteq Accounts /\ IsFiniteSet(entered[Live])
           /\ Cardinality(entered[Live]) \in Nat
           /\ Funds \in Nat /\ now \in Nat
           /\ \A a \in Accounts : /\ credits[Live][a] \in Nat /\ usdc[a] \in Nat
                                  /\ OwedTo(Live, a) \in Nat /\ PaidIn(a) \in Nat
           /\ tournament[Live].platformFeeCredit \in Nat
<1>1. /\ Live \in Tournaments /\ LivePolicy \in Policy /\ AgentCount \in Nat \ {0, 1}
      /\ LivePolicy.minEntrants = AgentCount /\ LivePolicy.maxEntrants = AgentCount
      /\ LivePolicy.operator = Owner /\ Funds \in Nat
  BY LifecycleAssumption, TournamentAssumption
<1>2. IInv /\ TypeOK /\ Shape(Live)
  BY <1>1 DEF ArcInv, IInv
<1>3. tournament[Live] \in Tournament /\ tournament[Live].state \in State
  BY <1>1, <1>2 DEF TypeOK, Tournament
<1>4. /\ LivePolicy.stake \in Nat /\ LivePolicy.payoutBps \in [Ranks -> Nat]
      /\ LivePolicy.closesAt \in Nat /\ LivePolicy.expiresAt \in Nat
  BY <1>1 DEF Policy
<1>5. \A a \in Accounts : OwedTo(Live, a) \in Nat
  BY <1>1, <1>2, OwedType
<1>6. /\ entered[Live] \subseteq Accounts /\ IsFiniteSet(entered[Live])
      /\ Cardinality(entered[Live]) \in Nat /\ tournament[Live].platformFeeCredit \in Nat
      /\ \A a \in Accounts : credits[Live][a] \in Nat
  BY <1>1, <1>2, Fields
<1>7. now \in Nat /\ \A a \in Accounts : usdc[a] \in Nat
  BY <1>2 DEF TypeOK
<1> QED
  BY <1>1, <1>2, <1>3, <1>4, <1>5, <1>6, <1>7 DEF PaidIn

\* Before a decision nothing is owed; after one the tournament is the scripts' own.
LEMMA LiveStages ==
    ASSUME ArcInv
    PROVE  /\ tournament[Live].state \in Undecided =>
                 /\ tournament[Live].settlementNonce = 0
                 /\ tournament[Live].platformFeeCredit = 0 /\ refunds[Live] = {}
                 /\ \A a \in Accounts : credits[Live][a] = 0 /\ OwedTo(Live, a) = 0
           /\ tournament[Live].state \notin Undecided => Live \in created
           /\ Live \in created => tournament[Live].policy = LivePolicy
           /\ Live \notin created => tournament[Live].policy = NoPolicy /\ entered[Live] = {}
           /\ tournament[Live].state = "CANCELLED_REFUNDABLE" => tournament[Live].settlementNonce = 0
           /\ tournament[Live].state = "SETTLED" => tournament[Live].settlementNonce = 1
           /\ tournament[Live].state = "CLOSED" => \A a \in Accounts : OwedTo(Live, a) = 0
<1>1. Shape(Live) /\ tournament[Live].settlementNonce \in {0, 1}
      /\ (Live \in created => tournament[Live].policy = LivePolicy)
  BY LiveFacts DEF ArcInv
<1>2. tournament[Live].state \in Undecided => tournament[Live].state # "CANCELLED_REFUNDABLE"
  BY DEF Undecided
<1>3. Live \notin created => Uncreated(Live)
  BY <1>1 DEF Shape
<1>4. tournament[Live].state \in Undecided => Open(Live)
  BY <1>1 DEF Shape
<1>5. ASSUME NEW a \in Accounts, credits[Live][a] = 0, tournament[Live].platformFeeCredit = 0,
             tournament[Live].state # "CANCELLED_REFUNDABLE"
      PROVE  OwedTo(Live, a) = 0
  BY <1>5 DEF OwedTo
<1>6. tournament[Live].state = "CLOSED" => Finished(Live)
  BY <1>1 DEF Shape
<1>7. tournament[Live].state = "CLOSED" => \A a \in Accounts : OwedTo(Live, a) = 0
  BY <1>5, <1>6 DEF Finished
<1>8. /\ tournament[Live].state = "CANCELLED_REFUNDABLE" => tournament[Live].settlementNonce = 0
      /\ tournament[Live].state = "SETTLED" => tournament[Live].settlementNonce = 1
  BY <1>1 DEF Shape, Returned, Divided
<1>9. tournament[Live].state \in Undecided =>
        \A a \in Accounts : credits[Live][a] = 0 /\ OwedTo(Live, a) = 0
  BY <1>2, <1>4, <1>5 DEF Open
<1> QED
  BY <1>1, <1>3, <1>4, <1>7, <1>8, <1>9 DEF Open, Uncreated

\* The prizes stay while the ranking and the entrants do.
LEMMA PrizesKept ==
    ASSUME file'.ranking = file.ranking, entrant'[Live] = entrant[Live], NEW a \in Accounts
    PROVE  Prize(a)' = Prize(a)
<1>1. [k \in Ranks |-> RankedWallet(k)]' = [k \in Ranks |-> RankedWallet(k)]
  BY DEF RankedWallet
<1> QED
  BY <1>1 DEF Prize

\* A step that leaves everybody's money and the outcome alone.
LEMMA EarnedKept ==
    ASSUME ArcInv, file'.ranking = file.ranking, entrant'[Live] = entrant[Live], entered'[Live] = entered[Live],
           tournament'[Live].settlementNonce = tournament[Live].settlementNonce,
           tournament'[Live].state \in Undecided <=> tournament[Live].state \in Undecided,
           NEW a \in Accounts, Worth(a)' = Worth(a)
    PROVE  Earned(a)'
<1>1. Prize(a)' = Prize(a) /\ PaidIn(a)' = PaidIn(a)
  BY PrizesKept DEF PaidIn
<1>2. Earned(a)
  BY DEF ArcInv
<1> QED
  BY <1>1, <1>2 DEF Earned

\* createTournament.
LEMMA LiveCreate ==
    ASSUME ArcInv, file'.ranking = file.ranking, CreateTournament(Live, LivePolicy)
    PROVE  ArcInv' /\ Onward /\ (Cancelled' => Cancelled)
<1>1. /\ Live \notin created /\ created' = created \cup {Live}
      /\ tournament' = [tournament EXCEPT ![Live] = Draft(LivePolicy)]
      /\ UNCHANGED <<entrant, entered, credits, refunds, usdc, now>>
  BY DEF CreateTournament
<1>2. /\ Live \in Tournaments /\ tournament'[Live] = Draft(LivePolicy)
      /\ AgentCount \in Nat \ {0, 1} /\ now \in Nat
  BY <1>1, LiveFacts DEF ArcInv, IInv, TypeOK
<1>3. /\ tournament'[Live].policy = LivePolicy /\ tournament'[Live].state = "DRAFT"
      /\ tournament'[Live].entrantCount = 0 /\ tournament'[Live].settlementNonce = 0
      /\ tournament'[Live].platformFeeCredit = 0
  BY <1>2 DEF Draft
<1>4. /\ entered[Live] = {} /\ tournament[Live].state \in Undecided
      /\ tournament[Live].settlementNonce = 0
      /\ \A a \in Accounts : credits[Live][a] = 0 /\ OwedTo(Live, a) = 0
  BY <1>1, LiveStages
<1>5. IInv'
  BY <1>2, LifecycleAssumption, CreateStep DEF ArcInv
<1>6. "DRAFT" \in Undecided
  BY DEF Undecided
<1>7. ASSUME NEW a \in Accounts PROVE Earned(a)'
  <2>1. OwedTo(Live, a)' = 0
    BY <1>1, <1>3, <1>4 DEF OwedTo
  <2>2. Worth(a)' = Worth(a)
    BY <1>1, <1>4, <2>1 DEF Worth
  <2> QED
    BY <1>1, <1>3, <1>4, <1>6, <2>2, EarnedKept
<1>8. Cardinality(entered'[Live]) = 0
  BY <1>1, <1>4, FS_EmptySet
<1>9. ArcInv'
  BY <1>1, <1>2, <1>3, <1>5, <1>7, <1>8 DEF ArcInv
<1> QED
  BY <1>1, <1>2, <1>3, <1>4, <1>6, <1>9 DEF Onward, Cancelled, Undecided

\* register, of one of the scripts' accounts.
LEMMA LiveRegister ==
    ASSUME ArcInv, file'.ranking = file.ranking, NEW a \in Accounts, NEW e \in Entrants, Register(a, Live, e)
    PROVE  ArcInv' /\ Onward /\ (Cancelled' => Cancelled)
<1> DEFINE s == tournament[Live].policy.stake
<1>1. /\ tournament[Live].state = "DRAFT" /\ now < tournament[Live].policy.closesAt
      /\ tournament[Live].entrantCount < tournament[Live].policy.maxEntrants
      /\ a \notin entered[Live] /\ usdc[a] >= s
      /\ usdc' = [usdc EXCEPT ![a] = @ - s, ![Escrow] = @ + s]
      /\ entered' = [entered EXCEPT ![Live] = @ \cup {a}]
      /\ tournament' = [tournament EXCEPT ![Live].entrantCount = @ + 1,
                                          ![Live].totalLockedStakes = @ + s]
      /\ UNCHANGED <<created, credits, refunds, now>>
  BY TournamentAssumption DEF Register, ArcInv, IInv, TypeOK
<1>2. Live \in Tournaments /\ now \in Nat /\ tournament[Live] \in Tournament
      /\ LivePolicy.stake \in Nat /\ Cardinality(entered[Live]) \in Nat /\ IsFiniteSet(entered[Live])
  BY LiveFacts
<1>3. Live \in created /\ s = LivePolicy.stake /\ tournament[Live].policy = LivePolicy
  <2>1. NoPolicy.closesAt = 0
    BY DEF NoPolicy
  <2> QED
    BY <1>1, <1>2, <2>1, LiveStages
<1>4. /\ tournament'[Live].policy = tournament[Live].policy
      /\ tournament'[Live].state = tournament[Live].state
      /\ tournament'[Live].entrantCount = tournament[Live].entrantCount + 1
      /\ tournament'[Live].settlementNonce = tournament[Live].settlementNonce
      /\ tournament'[Live].platformFeeCredit = tournament[Live].platformFeeCredit
      /\ entered'[Live] = entered[Live] \cup {a}
  <2>1. tournament'[Live] = [tournament[Live] EXCEPT !.entrantCount = @ + 1, !.totalLockedStakes = @ + s]
    BY <1>1, <1>2 DEF ArcInv, IInv, TypeOK
  <2>2. entered'[Live] = entered[Live] \cup {a}
    BY <1>1, <1>2 DEF ArcInv, IInv, TypeOK
  <2> HIDE DEF s
  <2> QED
    BY <1>2, <2>1, <2>2 DEF Tournament
<1>5. /\ tournament[Live].settlementNonce = 0
      /\ \A b \in Accounts : credits[Live][b] = 0 /\ OwedTo(Live, b) = 0
      /\ tournament[Live].platformFeeCredit = 0 /\ tournament[Live].state \in Undecided
  <2>1. tournament[Live].state \in Undecided
    BY <1>1 DEF Undecided
  <2> QED
    BY <2>1, LiveStages
<1>6. IInv'
  BY <1>2, RegisterStep DEF ArcInv
<1>7. Cardinality(entered'[Live]) = Cardinality(entered[Live]) + 1
  BY <1>1, <1>2, <1>4, FS_AddElement
<1>8. ASSUME NEW b \in Accounts PROVE Earned(b)'
  <2>1. OwedTo(Live, b)' = 0
    BY <1>1, <1>4, <1>5 DEF OwedTo
  <2>2. usdc[b] = Funds - PaidIn(b) /\ usdc[b] \in Nat /\ Funds \in Nat
    <3>1. Earned(b) /\ usdc[b] \in Nat /\ Funds \in Nat
      BY LiveFacts DEF ArcInv
    <3> QED
      BY <1>5, <3>1 DEF Earned, Worth
  <2>3. usdc'[b] = usdc[b] - (IF b = a THEN LivePolicy.stake ELSE 0)
    <3>1. b # Escrow /\ usdc \in [Accounts \cup {Escrow} -> Nat]
      BY TournamentAssumption DEF ArcInv, IInv, TypeOK
    <3> QED
      BY <1>1, <1>2, <1>3, <2>2, <3>1
  <2>4. PaidIn(b)' = PaidIn(b) + (IF b = a THEN LivePolicy.stake ELSE 0)
    BY <1>1, <1>2, <1>4 DEF PaidIn
  <2>5. PaidIn(b) \in Nat
    BY <1>2 DEF PaidIn
  <2>6. Worth(b)' = Funds - PaidIn(b)'
    BY <1>2, <2>1, <2>2, <2>3, <2>4, <2>5 DEF Worth
  <2> QED
    BY <1>4, <1>5, <2>6 DEF Earned
<1>9. tournament[Live].entrantCount = Cardinality(entered[Live]) /\ Cardinality(entered[Live]) < AgentCount
      /\ AgentCount \in Nat
  BY <1>1, <1>3, LiveFacts DEF ArcInv
<1>10. ArcInv'
  BY <1>1, <1>2, <1>3, <1>4, <1>5, <1>6, <1>7, <1>8, <1>9 DEF ArcInv
<1>11. Cancelled' => Cancelled
  BY <1>4 DEF Cancelled
<1> QED
  BY <1>1, <1>2, <1>3, <1>4, <1>9, <1>10, <1>11 DEF Onward

\* closeRegistration and markRunning.
LEMMA LiveState ==
    ASSUME ArcInv, file'.ranking = file.ranking, CloseRegistration(Live) \/ MarkRunning(Live)
    PROVE  ArcInv' /\ Onward /\ (Cancelled' => Cancelled)
<1>1. /\ Live \in Tournaments /\ now \in Nat /\ tournament[Live] \in Tournament
      /\ LivePolicy.minEntrants = AgentCount /\ AgentCount \in Nat
  BY LiveFacts
<1>2. PICK s \in Undecided :
         /\ tournament' = [tournament EXCEPT ![Live].state = s]
         /\ tournament[Live].state \in Undecided
         /\ s = "RUNNING" => tournament[Live].entrantCount >= tournament[Live].policy.minEntrants
         /\ UNCHANGED <<created, entrant, entered, credits, refunds, usdc, now>>
  BY DEF CloseRegistration, MarkRunning, Undecided
<1>3. /\ tournament'[Live].policy = tournament[Live].policy
      /\ tournament'[Live].state = s
      /\ tournament'[Live].entrantCount = tournament[Live].entrantCount
      /\ tournament'[Live].settlementNonce = tournament[Live].settlementNonce
      /\ tournament'[Live].platformFeeCredit = tournament[Live].platformFeeCredit
  <2>1. tournament'[Live] = [tournament[Live] EXCEPT !.state = s]
    BY <1>1, <1>2 DEF ArcInv, IInv, TypeOK
  <2> QED
    BY <1>1, <2>1 DEF Tournament
<1>4. IInv'
  <2>1. [Next]_vars
    BY <1>1 DEF Next
  <2> QED
    BY <2>1, NextIInv DEF ArcInv
<1>5. /\ tournament[Live].settlementNonce = 0 /\ s # "CANCELLED_REFUNDABLE" /\ s # "CLOSED"
      /\ tournament[Live].state # "CANCELLED_REFUNDABLE" /\ tournament[Live].state # "CLOSED"
  BY <1>2, LiveStages DEF Undecided
<1>6. ASSUME NEW a \in Accounts PROVE Earned(a)'
  <2>1. OwedTo(Live, a)' = OwedTo(Live, a)
    BY <1>2, <1>3, <1>5 DEF OwedTo
  <2>2. Worth(a)' = Worth(a)
    BY <1>2, <2>1 DEF Worth
  <2> QED
    BY <1>2, <1>3, <2>2, EarnedKept
<1>7. Live \in created /\ s = "RUNNING" => tournament[Live].entrantCount = AgentCount
  <2>1. tournament[Live].entrantCount \in Nat
    BY <1>1 DEF Tournament
  <2> QED
    BY <1>1, <1>2, <2>1 DEF ArcInv
<1>8. ArcInv'
  BY <1>2, <1>3, <1>4, <1>5, <1>6, <1>7 DEF ArcInv
<1> QED
  BY <1>1, <1>2, <1>3, <1>5, <1>8 DEF Onward, Cancelled

\* The operator may cancel only a tournament of his, and late.
LEMMA CancelledLate ==
    ASSUME ArcInv, tournament[Live].policy.operator = Owner, MayCancel(Live)
    PROVE  Live \in created /\ tournament[Live].policy = LivePolicy /\ Late
<1>1. Live \in created /\ tournament[Live].policy = LivePolicy
  <2>1. NoPolicy.operator # Owner
    BY TournamentAssumption DEF NoPolicy
  <2> QED
    BY <2>1, LiveStages
<1> QED
  BY <1>1, LiveFacts DEF MayCancel, Late, ArcInv

\* cancelAndOpenRefunds, by the operator once it may be.
LEMMA LiveCancel ==
    ASSUME ArcInv, file'.ranking = file.ranking, CancelAndOpenRefunds(Owner, Live)
    PROVE  ArcInv' /\ Onward /\ Late
<1>1. /\ tournament[Live].policy.operator = Owner /\ tournament[Live].state \in Undecided
      /\ MayCancel(Live)
      /\ UNCHANGED <<created, entrant, entered, credits, refunds, usdc, now>>
  BY DEF CancelAndOpenRefunds
<1>2. /\ Live \in Tournaments /\ now \in Nat /\ tournament[Live] \in Tournament
      /\ LivePolicy.minEntrants = AgentCount /\ AgentCount \in Nat /\ LivePolicy.stake \in Nat
      /\ Funds \in Nat
  BY LiveFacts
<1>3. /\ tournament'[Live].policy = tournament[Live].policy
      /\ tournament'[Live].state = "CANCELLED_REFUNDABLE"
      /\ tournament'[Live].entrantCount = tournament[Live].entrantCount
      /\ tournament'[Live].settlementNonce = tournament[Live].settlementNonce
      /\ tournament'[Live].platformFeeCredit = tournament[Live].platformFeeCredit
  <2>1. tournament'[Live] = [tournament[Live] EXCEPT !.state = "CANCELLED_REFUNDABLE",
              !.totalLiability = tournament[Live].totalLockedStakes, !.totalLockedStakes = 0]
    BY <1>2 DEF ArcInv, IInv, TypeOK, CancelAndOpenRefunds
  <2> QED
    BY <1>2, <2>1 DEF Tournament
<1>4. Live \in created /\ tournament[Live].policy = LivePolicy /\ Late
  BY <1>1, CancelledLate
<1>6. /\ tournament[Live].settlementNonce = 0 /\ tournament[Live].platformFeeCredit = 0
      /\ refunds[Live] = {} /\ tournament[Live].state # "CLOSED"
      /\ \A a \in Accounts : credits[Live][a] = 0 /\ OwedTo(Live, a) = 0
  BY <1>1, LiveStages DEF Undecided
<1>7. IInv'
  BY <1>2, LifecycleAssumption, TournamentAssumption, CancelStep DEF ArcInv
<1>8. ASSUME NEW a \in Accounts PROVE Earned(a)'
  <2>1. OwedTo(Live, a)' = PaidIn(a)
    BY <1>1, <1>2, <1>3, <1>4, <1>6 DEF OwedTo, PaidIn
  <2>2. usdc[a] = Funds - PaidIn(a) /\ usdc[a] \in Nat /\ PaidIn(a) \in Nat
    <3>1. Earned(a) /\ usdc[a] \in Nat /\ PaidIn(a) \in Nat
      BY LiveFacts DEF ArcInv
    <3> QED
      BY <1>1, <1>6, <3>1 DEF Earned, Worth
  <2>3. Worth(a)' = Funds
    BY <1>1, <1>2, <2>1, <2>2 DEF Worth
  <2> QED
    BY <1>3, <1>6, <2>3 DEF Earned, Undecided
<1>9. ArcInv'
  BY <1>1, <1>3, <1>4, <1>6, <1>7, <1>8 DEF ArcInv
<1> QED
  BY <1>1, <1>2, <1>3, <1>4, <1>6, <1>9 DEF Onward

\* claimRefund moves an unclaimed refund to a credit.
LEMMA LiveClaim ==
    ASSUME ArcInv, file'.ranking = file.ranking, NEW a \in Accounts, NEW e \in Entrants, ClaimRefund(a, Live, e)
    PROVE  ArcInv' /\ Onward /\ (Cancelled' => Cancelled)
<1>1. /\ tournament[Live].state = "CANCELLED_REFUNDABLE" /\ entrant[Live][e].wallet = a
      /\ a \notin refunds[Live] /\ refunds'[Live] = refunds[Live] \cup {a}
      /\ \A x \in Accounts : credits'[Live][x] =
            IF x = a THEN credits[Live][x] + tournament[Live].policy.stake ELSE credits[Live][x]
      /\ UNCHANGED <<created, tournament, entrant, entered, usdc, now>>
  BY LiveFacts DEF ClaimRefund, ArcInv, IInv, TypeOK
<1>2. a \in entered[Live] /\ now \in Nat /\ Live \in Tournaments
  BY <1>1, LiveFacts, TournamentAssumption DEF Shape
<1>3. IInv'
  BY <1>2, ClaimStep DEF ArcInv
<1>4. ASSUME NEW x \in Accounts PROVE Earned(x)'
  <2>1. /\ credits[Live][x] \in Nat /\ tournament[Live].platformFeeCredit \in Nat
        /\ tournament[Live].policy.stake \in Nat
    <3>1. TypeOK /\ Live \in Tournaments
      BY LiveFacts DEF ArcInv, IInv
    <3> QED
      BY <3>1, Fields
  <2>2. OwedTo(Live, x)' = OwedTo(Live, x)
    BY <1>1, <1>2, <2>1 DEF OwedTo
  <2>3. Worth(x)' = Worth(x)
    BY <1>1, <2>2 DEF Worth
  <2> QED
    BY <1>1, <2>3, EarnedKept
<1>5. ArcInv'
  BY <1>1, <1>3, <1>4 DEF ArcInv
<1> QED
  BY <1>1, <1>2, <1>5 DEF Onward, Cancelled

\* A payment hands an account part of what it is owed.
LEMMA LivePaid ==
    ASSUME ArcInv, file'.ranking = file.ranking, IInv', NEW a \in Accounts, NEW amount \in Nat,
           usdc' = [usdc EXCEPT ![Escrow] = @ - amount, ![a] = @ + amount],
           \A x \in Accounts : OwedTo(Live, x)' = IF x = a THEN OwedTo(Live, x) - amount ELSE OwedTo(Live, x),
           tournament'[Live].state = tournament[Live].state,
           tournament'[Live].policy = tournament[Live].policy,
           tournament'[Live].entrantCount = tournament[Live].entrantCount,
           tournament'[Live].settlementNonce = tournament[Live].settlementNonce,
           UNCHANGED <<created, entrant, entered, refunds, now>>
    PROVE  ArcInv' /\ Onward /\ (Cancelled' => Cancelled)
<1>1. ASSUME NEW x \in Accounts PROVE Earned(x)'
  <2>1. usdc'[x] = IF x = a THEN usdc[x] + amount ELSE usdc[x]
    BY TournamentAssumption DEF ArcInv, IInv, TypeOK
  <2>2. OwedTo(Live, x) \in Nat /\ usdc[x] \in Nat
    BY LiveFacts
  <2>3. Worth(x)' = Worth(x)
    BY <2>1, <2>2 DEF Worth
  <2> QED
    BY <2>3, EarnedKept
<1>2. ArcInv'
  BY <1>1 DEF ArcInv
<1>3. now \in Nat
  BY LiveFacts
<1> QED
  BY <1>2, <1>3 DEF Onward, Cancelled

\* withdrawCreditFor and withdrawCredit.
LEMMA LiveWithdraw ==
    ASSUME ArcInv, file'.ranking = file.ranking, NEW a \in Accounts, WithdrawCreditFor(Live, a)
    PROVE  ArcInv' /\ Onward /\ (Cancelled' => Cancelled)
<1> DEFINE amount == credits[Live][a]
<1>1. /\ Live \in Tournaments /\ amount \in Nat /\ tournament[Live] \in Tournament
      /\ \A x \in Accounts : credits[Live][x] \in Nat
      /\ tournament[Live].platformFeeCredit \in Nat
  BY LiveFacts
<1>2. IInv'
  BY <1>1, WithdrawCreditStep DEF ArcInv
<1>3. /\ tournament'[Live].policy = tournament[Live].policy
      /\ tournament'[Live].state = tournament[Live].state
      /\ tournament'[Live].entrantCount = tournament[Live].entrantCount
      /\ tournament'[Live].settlementNonce = tournament[Live].settlementNonce
      /\ tournament'[Live].platformFeeCredit = tournament[Live].platformFeeCredit
      /\ UNCHANGED <<created, entrant, entered, refunds, now>>
  BY <1>1 DEF WithdrawCreditFor, ArcInv, IInv, TypeOK, Tournament
<1>4. \A x \in Accounts : credits'[Live][x] = IF x = a THEN 0 ELSE credits[Live][x]
  BY <1>1 DEF WithdrawCreditFor, ArcInv, IInv, TypeOK
<1>5. ASSUME NEW x \in Accounts
      PROVE  OwedTo(Live, x)' = IF x = a THEN OwedTo(Live, x) - amount ELSE OwedTo(Live, x)
  <2>1. tournament[Live].policy.stake \in Nat
    BY <1>1 DEF Tournament, Policy
  <2> QED
    BY <1>1, <1>3, <1>4, <2>1 DEF OwedTo
<1>6. usdc' = [usdc EXCEPT ![Escrow] = @ - amount, ![a] = @ + amount]
  BY DEF WithdrawCreditFor
<1> HIDE DEF amount
<1> QED
  BY <1>1, <1>2, <1>3, <1>5, <1>6, LivePaid

\* withdrawPlatformFeeFor.
LEMMA LiveFee ==
    ASSUME ArcInv, file'.ranking = file.ranking, WithdrawPlatformFeeFor(Live)
    PROVE  ArcInv' /\ Onward /\ (Cancelled' => Cancelled)
<1> DEFINE amount == tournament[Live].platformFeeCredit
<1>1. /\ Live \in Tournaments /\ amount \in Nat /\ tournament[Live] \in Tournament
      /\ \A x \in Accounts : credits[Live][x] \in Nat
      /\ Owner \in Accounts
  BY LiveFacts, TournamentAssumption
<1>2. IInv'
  BY <1>1, WithdrawFeeStep DEF ArcInv
<1>3. /\ tournament'[Live].policy = tournament[Live].policy
      /\ tournament'[Live].state = tournament[Live].state
      /\ tournament'[Live].entrantCount = tournament[Live].entrantCount
      /\ tournament'[Live].settlementNonce = tournament[Live].settlementNonce
      /\ tournament'[Live].platformFeeCredit = 0
      /\ UNCHANGED <<created, entrant, entered, credits, refunds, now>>
  BY <1>1 DEF WithdrawPlatformFeeFor, ArcInv, IInv, TypeOK, Tournament
<1>4. ASSUME NEW x \in Accounts
      PROVE  OwedTo(Live, x)' = IF x = Owner THEN OwedTo(Live, x) - amount ELSE OwedTo(Live, x)
  <2>1. tournament[Live].policy.stake \in Nat
    BY <1>1 DEF Tournament, Policy
  <2> QED
    BY <1>1, <1>3, <2>1 DEF OwedTo
<1>5. usdc' = [usdc EXCEPT ![Escrow] = @ - amount, ![Owner] = @ + amount]
  BY DEF WithdrawPlatformFeeFor
<1> HIDE DEF amount
<1> QED
  BY <1>1, <1>2, <1>3, <1>4, <1>5, LivePaid

\* closeTournament, when nothing is owed any more.
LEMMA LiveClose ==
    ASSUME ArcInv, file'.ranking = file.ranking, CloseTournament(Live)
    PROVE  ArcInv' /\ Onward /\ (Cancelled' => Cancelled)
<1>1. /\ tournament[Live].state \in {"SETTLED", "CANCELLED_REFUNDABLE"}
      /\ tournament[Live].totalLiability = 0
      /\ UNCHANGED <<created, entrant, entered, credits, refunds, usdc, now>>
  BY DEF CloseTournament
<1>2. Live \in Tournaments /\ tournament[Live] \in Tournament /\ now \in Nat
  BY LiveFacts
<1>3. /\ tournament'[Live].state = "CLOSED"
      /\ tournament'[Live].policy = tournament[Live].policy
      /\ tournament'[Live].entrantCount = tournament[Live].entrantCount
      /\ tournament'[Live].settlementNonce = tournament[Live].settlementNonce
      /\ tournament'[Live].platformFeeCredit = tournament[Live].platformFeeCredit
  BY <1>2 DEF CloseTournament, ArcInv, IInv, TypeOK, Tournament
<1>4. IInv'
  BY <1>2, CloseStep DEF ArcInv
<1>5. /\ tournament[Live].platformFeeCredit = 0
      /\ \A a \in Accounts : credits[Live][a] = 0
  BY <1>1, <1>2, NothingLeft DEF ArcInv
<1>6. tournament[Live].state = "CANCELLED_REFUNDABLE" => entered[Live] \ refunds[Live] = {}
  <2>1. Finished(Live)' /\ Shape(Live)
    BY <1>2, <1>3, <1>4 DEF ArcInv, IInv, Shape
  <2> QED
    BY <1>1, <1>3, <2>1 DEF Finished, Shape, Returned
<1>7. ASSUME NEW a \in Accounts PROVE Earned(a)'
  <2>1. OwedTo(Live, a) = 0 /\ OwedTo(Live, a)' = 0
    BY <1>1, <1>3, <1>5, <1>6 DEF OwedTo
  <2>2. Worth(a)' = Worth(a)
    BY <1>1, <2>1 DEF Worth
  <2> QED
    BY <1>1, <1>3, <2>2, EarnedKept DEF Undecided
<1>8. ArcInv'
  BY <1>1, <1>3, <1>4, <1>7 DEF ArcInv
<1>9. Cancelled' => Cancelled
  BY <1>1, <1>3, LiveStages DEF Cancelled
<1> QED
  BY <1>1, <1>2, <1>3, <1>8, <1>9 DEF Onward

\* A block.
LEMMA LiveTick ==
    ASSUME ArcInv, file'.ranking = file.ranking, Tick \/ UNCHANGED vars
    PROVE  ArcInv' /\ Onward /\ (Cancelled' => Cancelled)
<1>1. /\ UNCHANGED <<created, tournament, entrant, entered, credits, refunds, usdc>>
      /\ now' = now \/ now' = now + 1
  BY DEF Tick, vars
<1>2. IInv'
  BY NextIInv DEF ArcInv, Next
<1>3. ASSUME NEW a \in Accounts PROVE Earned(a)'
  <2>1. Worth(a)' = Worth(a)
    BY <1>1 DEF Worth, OwedTo
  <2> QED
    BY <1>1, <2>1, EarnedKept
<1>4. ArcInv'
  BY <1>1, <1>2, <1>3 DEF ArcInv
<1>5. now \in Nat
  BY LiveFacts
<1> QED
  BY <1>1, <1>4, <1>5 DEF Onward, Cancelled

\* settleByOperator, with the ranking in the state file.
LEMMA LiveSettle ==
    ASSUME ArcInv, file'.ranking = file.ranking, file.ranking \in Ranking, SettleByOperator(Owner, Live, file.ranking, 1)
    PROVE  ArcInv' /\ Onward /\ (Cancelled' => Cancelled)
<1> DEFINE r == file.ranking
           pool == tournament[Live].totalLockedStakes
           whole == LivePolicy.stake * AgentCount
           bps == LivePolicy.payoutBps
           winner == [i \in Ranks |-> entrant[Live][r[i]].wallet]
<1>1. /\ Live \in Tournaments /\ tournament[Live] \in Tournament /\ now \in Nat
      /\ LivePolicy.stake \in Nat /\ AgentCount \in Nat /\ bps \in [Ranks -> Nat] /\ Funds \in Nat
      /\ r \in [Ranks -> Entrants] /\ Owner \in Accounts
  BY LiveFacts, TournamentAssumption DEF Ranking
<1>2. /\ tournament[Live].policy.operator = Owner /\ tournament[Live].state = "RUNNING"
      /\ \A i \in Ranks : entrant[Live][r[i]].wallet # None
      /\ UNCHANGED <<created, entered, refunds, usdc, now>>
  BY DEF SettleByOperator, MayRank
<1>3. Live \in created /\ tournament[Live].policy = LivePolicy
  <2>1. NoPolicy.operator # Owner
    BY TournamentAssumption DEF NoPolicy
  <2> QED
    BY <1>2, <2>1, LiveStages
<1>4. /\ tournament[Live].entrantCount = AgentCount /\ Cardinality(entered[Live]) = AgentCount
      /\ tournament[Live].state \in Undecided
  BY <1>2, <1>3 DEF ArcInv, Undecided
<1>5. pool = whole /\ whole \in Nat
  <2>1. Open(Live)
    BY <1>4, LiveFacts DEF Shape
  <2> QED
    BY <1>1, <1>3, <1>4, <2>1 DEF Open
<1>6. /\ tournament[Live].settlementNonce = 0
      /\ \A a \in Accounts : credits[Live][a] = 0 /\ OwedTo(Live, a) = 0
  BY <1>4, LiveStages
<1>7. /\ tournament'[Live].policy = LivePolicy
      /\ tournament'[Live].state = "SETTLED"
      /\ tournament'[Live].entrantCount = AgentCount
      /\ tournament'[Live].settlementNonce = 1
      /\ tournament'[Live].platformFeeCredit = Fee(whole)
  <2>1. tournament'[Live] = [tournament[Live] EXCEPT !.state = "SETTLED",
              !.platformFeeCredit = Fee(pool), !.totalLiability = pool,
              !.totalLockedStakes = 0, !.settlementNonce = 1]
    BY <1>1 DEF SettleByOperator, ArcInv, IInv, TypeOK
  <2> HIDE DEF pool, whole
  <2> QED
    BY <1>1, <1>3, <1>4, <1>5, <2>1 DEF Tournament
<1>8. \A a \in Accounts : credits'[Live][a] = credits[Live][a] + Award(a, whole, bps, winner)
  <2>1. credits' = [credits EXCEPT ![Live] =
                [a \in Accounts |-> credits[Live][a] + Award(a, pool, tournament[Live].policy.payoutBps, winner)]]
    BY <1>1 DEF SettleByOperator, ArcInv, IInv, TypeOK
  <2> HIDE DEF pool, whole, winner
  <2> QED
    BY <1>1, <1>3, <1>5, <2>1 DEF ArcInv, IInv, TypeOK
<1>9. \A e \in Entrants : entrant'[Live][e].wallet = entrant[Live][e].wallet
  <2>1. entrant'[Live] = [e \in Entrants |-> IF \E i \in Ranks : r[i] = e
                             THEN [entrant[Live][e] EXCEPT !.ranked = TRUE] ELSE entrant[Live][e]]
    BY <1>1 DEF SettleByOperator, ArcInv, IInv, TypeOK
  <2>2. \A e \in Entrants : entrant[Live][e] \in Entrant
    BY <1>1 DEF ArcInv, IInv, TypeOK
  <2> QED
    BY <2>1, <2>2 DEF Entrant
<1>10. \A a \in Accounts : Award(a, whole, bps, winner) \in Nat
  <2>1. winner \in [Ranks -> Accounts]
    BY <1>1, <1>2 DEF ArcInv, IInv, TypeOK, Entrant
  <2>2. SumFunctionOnSet(bps, Ranks) = Denominator
    BY <1>3, LiveFacts DEF Shape, Valid
  <2> HIDE DEF winner, whole, bps
  <2> QED
    BY <1>1, <1>5, <2>1, <2>2, AwardsAddUp
<1>11. \A a \in Accounts :
          Prize(a)' = Award(a, whole, bps, winner) + IF a = Owner THEN Fee(whole) ELSE 0
  <2>1. [k \in Ranks |-> RankedWallet(k)]' = winner
    BY <1>1, <1>9 DEF RankedWallet
  <2> HIDE DEF winner
  <2> QED
    BY <2>1 DEF Prize
<1>12. Fee(whole) \in Nat
  BY <1>5, FeeBound
<1>13. IInv'
  BY <1>1, SettleStep DEF ArcInv
<1> HIDE DEF whole, pool, bps, winner
<1>14. ASSUME NEW a \in Accounts PROVE Earned(a)'
  <2>1. OwedTo(Live, a)' = Prize(a)' /\ Prize(a)' \in Nat
    BY <1>6, <1>7, <1>8, <1>10, <1>11, <1>12 DEF OwedTo
  <2>2. usdc[a] = Funds - PaidIn(a) /\ usdc[a] \in Nat /\ PaidIn(a) \in Nat
    <3>1. Earned(a) /\ usdc[a] \in Nat /\ PaidIn(a) \in Nat
      BY LiveFacts DEF ArcInv
    <3> QED
      BY <1>4, <1>6, <3>1 DEF Earned, Worth
  <2>3. PaidIn(a)' = PaidIn(a)
    BY <1>2 DEF PaidIn
  <2>4. Worth(a)' = Funds - PaidIn(a)' + Prize(a)'
    BY <1>1, <1>2, <2>1, <2>2, <2>3 DEF Worth
  <2> QED
    BY <1>7, <2>4 DEF Earned
<1>15. ArcInv'
  BY <1>1, <1>2, <1>3, <1>4, <1>7, <1>13, <1>14 DEF ArcInv, Ranking
<1>16. tournament[Live].settlementNonce = 0 /\ tournament[Live].state # "CLOSED"
  BY <1>2, <1>6
<1> QED
  BY <1>1, <1>2, <1>7, <1>15, <1>16 DEF Onward, Cancelled

-----------------------------------------------------------------------------
(* The scripts.                                                              *)

Sent == [step : Step, ranking : {<<>>} \cup Ranking, result : {"pending", "success", "reverted"}]

\* Steps of an account; steps past the check of the roster; steps past the ranking.
OfAccount == {"approve", "register", "fund-refund-gas", "claim-refund", "withdraw-refund"}
Settling == {"settle", "auto-payout", "auto-payout-fee", "close-tournament", "readback"}
Rostered == {"close-registration", "mark-running", "orchestrator"} \cup Settling

Indexed(s) == s.act \in OfAccount => s.i \in Index

Refunding == Cancelled \/ \E k \in DOMAIN sent : sent[k].step.act = "cancel-refunds"

ScriptTyped ==
    /\ script \in [pc : {"idle", "read", "send", "record", "wait", "asked"}, step : Step]
    /\ sent \in Seq(Sent)
    /\ file = [status |-> file.status, ranking |-> file.ranking, log |-> file.log, done |-> file.done]
    /\ file.status \in {"CREATED", "RANKING_READY", "COMPLETE", "REFUNDED_CLOSED"}
    /\ file.ranking \in {<<>>} \cup Ranking
    /\ DOMAIN file.log \subseteq Step /\ \A s \in DOMAIN file.log : file.log[s] \in DOMAIN sent
    /\ file.done \subseteq DOMAIN file.log
    /\ allowed \subseteq Accounts
    /\ runs \in 0..MaxRuns

\* What a script has checked on its way to the step it is at.
ScriptAt ==
    /\ Indexed(script.step)
    /\ script.pc = "record" => Len(sent) > 0
    /\ script.pc = "wait" => script.step \in DOMAIN file.log
    /\ script.pc \in {"send", "record", "wait"} =>
          script.step.act \notin {"roster", "orchestrator", "readback", "refund-readback"}
    /\ script.pc = "asked" => script.step.act = "orchestrator"
    /\ script.pc # "idle" /\ script.step.act \in Rostered =>
          Live \in created /\ Cardinality(entered[Live]) = AgentCount
    /\ script.pc # "idle" /\ (script.pc = "asked" \/ script.step.act \in Settling) => ~Refunding
    /\ script.pc # "idle" /\ script.step.act \in Settling => file.ranking \in Ranking

\* Every settlement sent is one of the ranking in the file.
SentTrue ==
    \A k \in DOMAIN sent :
       /\ Indexed(sent[k].step)
       /\ sent[k].step.act = "settle" => sent[k].ranking = file.ranking /\ file.ranking \in Ranking

FileTrue ==
    /\ file.status = "COMPLETE" => tournament[Live].settlementNonce = 1
    /\ file.status \in {"COMPLETE", "REFUNDED_CLOSED"} => tournament[Live].state = "CLOSED"

LiveInv == ArcInv /\ ScriptTyped /\ ScriptAt /\ SentTrue /\ (Refunding => Late) /\ FileTrue

\* Where a step leads.
LEMMA AfterStep ==
    ASSUME NEW s \in Step, Indexed(s)
    PROVE  /\ After(s) \in Step /\ Indexed(After(s))
           /\ After(s).act \in Rostered => s.act \in Rostered \cup {"roster"}
           /\ After(s).act \in Settling => s.act \in Settling \cup {"orchestrator"}
<1>1. /\ 0 \in Index /\ 1 \in Index /\ 1 \in Ranks /\ RankCount \in Nat /\ AgentCount \in Nat
      /\ s.act \in MainActs \cup RecoveryActs /\ s.i \in Index \cup Ranks
  BY LifecycleAssumption, TournamentAssumption DEF Index, Ranks, Step
<1>2. ASSUME NEW a \in MainActs \cup RecoveryActs, NEW i \in Index \cup Ranks
      PROVE  /\ StepAt(a, i) \in Step /\ StepAt(a, i).act = a /\ StepAt(a, i).i = i
  BY DEF Step, StepAt
<1>3. PICK a \in MainActs \cup RecoveryActs, i \in Index \cup Ranks :
         /\ After(s) = StepAt(a, i) /\ (a \in OfAccount => i \in Index)
         /\ a \in Rostered => s.act \in Rostered \cup {"roster"}
         /\ a \in Settling => s.act \in Settling \cup {"orchestrator"}
  BY <1>1 DEF After, Indexed, MainActs, RecoveryActs, OfAccount, Rostered, Settling
<1> QED
  BY <1>2, <1>3 DEF Indexed

\* And where it leads when it is passed over.
LEMMA PassedStep ==
    ASSUME NEW s \in Step, Indexed(s)
    PROVE  /\ PassedTo(s) \in Step /\ Indexed(PassedTo(s))
           /\ PassedTo(s).act \in Rostered => s.act \in Rostered \cup {"roster"}
           /\ PassedTo(s).act \in Settling => s.act \in Settling \cup {"orchestrator"}
<1>1. CASE s.act = "approve" /\ Enrolled(s.i) # None
  <2> DEFINE r == StepAt("register", s.i)
  <2>1. r \in Step /\ Indexed(r) /\ r.act = "register"
    BY <1>1 DEF Indexed, OfAccount, Step, StepAt, MainActs
  <2>2. PassedTo(s) = After(r)
    BY <1>1 DEF PassedTo
  <2> HIDE DEF r
  <2>3. "register" \notin Rostered \cup {"roster"} /\ "register" \notin Settling \cup {"orchestrator"}
    BY DEF Rostered, Settling
  <2> QED
    BY <2>1, <2>2, <2>3, AfterStep
<1>2. CASE s.act = "refundable" /\ LiveTournament.state = "CLOSED"
  <2>1. PassedTo(s) = StepAt("refund-readback", 0)
    BY <1>2 DEF PassedTo
  <2>2. 0 \in Index
    BY LifecycleAssumption DEF Index
  <2> QED
    BY <2>1, <2>2 DEF Indexed, OfAccount, Step, StepAt, RecoveryActs, Rostered, Settling
<1>3. CASE ~(s.act = "approve" /\ Enrolled(s.i) # None) /\ ~(s.act = "refundable" /\ LiveTournament.state = "CLOSED")
  <2>1. PassedTo(s) = After(s)
    BY <1>3 DEF PassedTo
  <2> QED
    BY <2>1, AfterStep
<1> QED
  BY <1>1, <1>2, <1>3

\* An empty ranking is none.
LEMMA NoRanking == <<>> \notin Ranking
BY RanksFinite DEF Ranking

\* A transaction that is sent is one more.
LEMMA OneMoreSent ==
    ASSUME sent \in Seq(Sent), NEW x \in Sent, sent' = Append(sent, x)
    PROVE  /\ sent' \in Seq(Sent) /\ Len(sent) \in Nat /\ Len(sent') = Len(sent) + 1
           /\ DOMAIN sent' = DOMAIN sent \cup {Len(sent')}
           /\ sent'[Len(sent')] = x
           /\ \A k \in DOMAIN sent : sent'[k] = sent[k]
<1>1. /\ sent' \in Seq(Sent) /\ Len(sent) \in Nat /\ Len(sent') = Len(sent) + 1
      /\ DOMAIN sent = 1..Len(sent) /\ DOMAIN sent' = 1..Len(sent')
  OBVIOUS
<1>2. sent'[Len(sent')] = x /\ \A k \in 1..Len(sent) : sent'[k] = sent[k]
  BY <1>1
<1> QED
  BY <1>1, <1>2

\* What a call does on Arc, mined for a step that was sent.
LEMMA Called ==
    ASSUME ArcInv, file'.ranking = file.ranking, allowed \subseteq Accounts,
           NEW s, NEW ranking, Call(s, ranking), Indexed(s),
           s.act = "settle" => ranking = file.ranking /\ file.ranking \in Ranking
    PROVE  /\ ArcInv' /\ Onward /\ allowed' \subseteq Accounts
           /\ Cancelled' => Cancelled \/ s.act = "cancel-refunds"
<1> DEFINE account == AccountOf[s.i]
<1>1. s.act \in OfAccount => account \in Accounts /\ EntrantOf[s.i] \in Entrants
  BY LifecycleAssumption DEF Indexed
<1>2. {"approve", "register", "claim-refund", "withdraw-refund"} \subseteq OfAccount
  BY DEF OfAccount
<1>3. CASE s.act = "approve" /\ allowed' = allowed \cup {account} /\ UNCHANGED vars
  BY <1>1, <1>2, <1>3, LiveTick
<1>4. CASE s.act = "register" /\ Register(account, Live, EntrantOf[s.i]) /\ allowed' = allowed \ {account}
  BY <1>1, <1>2, <1>4, LiveRegister
<1>5. CASE /\ \/ s.act = "create-tournament" /\ CreateTournament(Live, LivePolicy)
              \/ s.act = "close-registration" /\ CloseRegistration(Live)
              \/ s.act = "mark-running" /\ MarkRunning(Live)
              \/ s.act = "settle" /\ SettleByOperator(Owner, Live, ranking, 1)
              \/ \E a \in Accounts : WithdrawCreditFor(Live, a)
              \/ WithdrawPlatformFeeFor(Live)
              \/ s.act = "cancel-refunds" /\ CancelAndOpenRefunds(Owner, Live)
              \/ s.act = "claim-refund" /\ ClaimRefund(account, Live, EntrantOf[s.i])
              \/ CloseTournament(Live)
           /\ UNCHANGED allowed
  <2>1. CASE CreateTournament(Live, LivePolicy)
    BY <1>5, <2>1, LiveCreate
  <2>2. CASE CloseRegistration(Live) \/ MarkRunning(Live)
    BY <1>5, <2>2, LiveState
  <2>3. CASE s.act = "settle" /\ SettleByOperator(Owner, Live, ranking, 1)
    BY <1>5, <2>3, LiveSettle
  <2>4. CASE \E a \in Accounts : WithdrawCreditFor(Live, a)
    BY <1>5, <2>4, LiveWithdraw
  <2>5. CASE WithdrawPlatformFeeFor(Live)
    BY <1>5, <2>5, LiveFee
  <2>6. CASE s.act = "cancel-refunds" /\ CancelAndOpenRefunds(Owner, Live)
    BY <1>5, <2>6, LiveCancel
  <2>7. CASE s.act = "claim-refund" /\ ClaimRefund(account, Live, EntrantOf[s.i])
    BY <1>1, <1>2, <1>5, <2>7, LiveClaim
  <2>8. CASE CloseTournament(Live)
    BY <1>5, <2>8, LiveClose
  <2> QED
    BY <1>5, <2>1, <2>2, <2>3, <2>4, <2>5, <2>6, <2>7, <2>8
<1> QED
  BY <1>1, <1>2, <1>3, <1>4, <1>5 DEF Call

\* Time and roster only get later.
LEMMA LateStays ==
    ASSUME ArcInv, Onward
    PROVE  /\ Late => Late'
           /\ Live \in created /\ Cardinality(entered[Live]) = AgentCount =>
                 Live \in created' /\ Cardinality(entered'[Live]) = AgentCount
<1>1. /\ now \in Nat /\ LivePolicy.closesAt \in Nat /\ LivePolicy.expiresAt \in Nat
      /\ AgentCount \in Nat /\ Cardinality(entered[Live]) \in Nat
  BY LiveFacts
<1> QED
  BY <1>1 DEF Onward, Late

\* A step that moves Arc, not the scripts.
LEMMA Elsewhere ==
    ASSUME LiveInv, ArcInv', Onward, Cancelled' => Refunding, UNCHANGED <<script, file, runs>>,
           allowed' \subseteq Accounts, sent' \in Seq(Sent), DOMAIN sent' = DOMAIN sent,
           \A k \in DOMAIN sent : sent'[k].step = sent[k].step /\ sent'[k].ranking = sent[k].ranking
    PROVE  LiveInv'
<1>1. ScriptTyped'
  BY DEF LiveInv, ScriptTyped
<1>2. Refunding' => Refunding
  BY DEF Refunding
<1>3. Len(sent') = Len(sent)
  <2>1. Len(sent) \in Nat /\ Len(sent') \in Nat /\ DOMAIN sent = 1..Len(sent) /\ DOMAIN sent' = 1..Len(sent')
    BY DEF LiveInv, ScriptTyped
  <2> QED
    BY <2>1
<1>4. ArcInv
  BY DEF LiveInv
<1>5. ScriptAt'
  BY <1>2, <1>3, <1>4, LateStays DEF LiveInv, ScriptAt
<1>6. SentTrue'
  BY DEF LiveInv, SentTrue
<1>7. Refunding' => Late'
  BY <1>2, <1>4, LateStays DEF LiveInv
<1>8. FileTrue'
  BY DEF LiveInv, FileTrue, Onward
<1> QED
  BY <1>1, <1>5, <1>6, <1>7, <1>8 DEF LiveInv

\* A transaction is mined: a settlement is one of the ranking in the file.
LEMMA MineStep ==
    ASSUME LiveInv, NEW k \in DOMAIN sent, Mine(k)
    PROVE  LiveInv'
<1>1. /\ ArcInv /\ allowed \subseteq Accounts /\ sent \in Seq(Sent) /\ sent[k] \in Sent
      /\ Indexed(sent[k].step)
      /\ sent[k].step.act = "settle" => sent[k].ranking = file.ranking /\ file.ranking \in Ranking
      /\ UNCHANGED <<script, file, runs>>
  BY DEF LiveInv, ScriptTyped, SentTrue, Mine
<1>2. PICK result \in {"success", "reverted"} :
         /\ sent' = [sent EXCEPT ![k].result = result]
         /\ \/ Call(sent[k].step, sent[k].ranking)
            \/ UNCHANGED <<vars, allowed>>
  BY DEF Mine
<1>3. /\ ArcInv' /\ Onward /\ allowed' \subseteq Accounts
      /\ Cancelled' => Cancelled \/ sent[k].step.act = "cancel-refunds"
  BY <1>1, <1>2, Called, LiveTick
<1>4. Cancelled' => Refunding
  BY <1>3 DEF Refunding
<1>5. [sent[k] EXCEPT !.result = result] \in Sent
  BY <1>1 DEF Sent
<1>6. /\ sent' \in Seq(Sent) /\ DOMAIN sent' = DOMAIN sent
      /\ \A j \in DOMAIN sent : sent'[j] = IF j = k THEN [sent[k] EXCEPT !.result = result] ELSE sent[j]
  <2>1. sent' = [sent EXCEPT ![k] = [sent[k] EXCEPT !.result = result]]
    BY <1>2
  <2> QED
    BY <1>1, <1>5, <2>1
<1>7. \A j \in DOMAIN sent : sent'[j].step = sent[j].step /\ sent'[j].ranking = sent[j].ranking
  BY <1>1, <1>6 DEF Sent
<1> QED
  BY <1>1, <1>3, <1>4, <1>6, <1>7, Elsewhere

\* Somebody else calls the escrow, or time passes.
LEMMA OthersStep ==
    ASSUME LiveInv, Others \/ (Tick /\ UNCHANGED scriptVars)
    PROVE  LiveInv'
<1>1. ArcInv /\ allowed \subseteq Accounts /\ sent \in Seq(Sent) /\ UNCHANGED scriptVars
  BY DEF LiveInv, ScriptTyped, Others
<1>2. file'.ranking = file.ranking
  BY <1>1 DEF scriptVars
<1>3. ArcInv' /\ Onward /\ (Cancelled' => Cancelled)
  BY <1>1, <1>2, LiveWithdraw, LiveFee, LiveClose, LiveTick DEF Others
<1> QED
  BY <1>1, <1>3, Elsewhere DEF scriptVars, Refunding

\* A script's own step leaves Arc where it is.
LEMMA ArcStays ==
    ASSUME LiveInv, UNCHANGED vars, file'.ranking = file.ranking
    PROVE  /\ ArcInv'
           /\ Cancelled' <=> Cancelled
           /\ Late' <=> Late
           /\ tournament' = tournament /\ entered' = entered /\ created' = created
<1>1. ArcInv'
  BY LiveTick DEF LiveInv
<1> QED
  BY <1>1 DEF vars, Cancelled, Late

\* A script starts.
LEMMA RunStep ==
    ASSUME LiveInv, RunMain \/ RunRecovery
    PROVE  LiveInv'
<1>1. /\ script.pc = "idle" /\ runs < MaxRuns /\ runs' = runs + 1
      /\ \E act \in {"create-tournament", "cancel-refunds"} :
            script' = [pc |-> "read", step |-> StepAt(act, 0)]
      /\ UNCHANGED <<vars, sent, file, allowed>>
  BY DEF RunMain, RunRecovery, To
<1>2. PICK act \in {"create-tournament", "cancel-refunds"} :
         script' = [pc |-> "read", step |-> [act |-> act, i |-> 0]]
  BY <1>1 DEF StepAt
<1>3. /\ act \in MainActs \cup RecoveryActs /\ act \notin Rostered /\ act \notin Settling
      /\ act \notin OfAccount /\ 0 \in Index
  BY LifecycleAssumption DEF MainActs, RecoveryActs, Rostered, Settling, OfAccount, Index
<1>4. ScriptTyped'
  <2>1. runs' \in 0..MaxRuns
    BY <1>1, LifecycleAssumption DEF LiveInv, ScriptTyped
  <2>2. [act |-> act, i |-> 0] \in Step
    BY <1>3 DEF Step
  <2> QED
    BY <1>1, <1>2, <2>1, <2>2 DEF LiveInv, ScriptTyped
<1>5. ScriptAt'
  BY <1>2, <1>3 DEF ScriptAt, Indexed
<1>6. ArcInv' /\ (Cancelled' <=> Cancelled) /\ (Late' <=> Late) /\ tournament' = tournament
  BY <1>1, ArcStays
<1>7. SentTrue' /\ FileTrue' /\ (Refunding' => Late')
  BY <1>1, <1>6 DEF LiveInv, SentTrue, FileTrue, Refunding
<1> QED
  BY <1>4, <1>5, <1>6, <1>7 DEF LiveInv

\* A script goes on to another step, or stops: what it knew, it still knows.
LEMMA GoOn ==
    ASSUME LiveInv, UNCHANGED <<vars, sent, file, allowed, runs>>,
           NEW pc \in {"idle", "read", "send", "wait", "asked"}, NEW s \in Step, Indexed(s),
           script' = [pc |-> pc, step |-> s],
           pc = "wait" => s \in DOMAIN file.log,
           pc \in {"send", "wait"} => s.act \notin {"roster", "orchestrator", "readback", "refund-readback"},
           pc = "asked" => s.act = "orchestrator" /\ ~Refunding,
           pc # "idle" /\ s.act \in Rostered => Live \in created /\ Cardinality(entered[Live]) = AgentCount,
           pc # "idle" /\ s.act \in Settling => ~Refunding /\ file.ranking \in Ranking
    PROVE  LiveInv'
<1>1. ArcInv' /\ (Cancelled' <=> Cancelled) /\ (Late' <=> Late)
      /\ tournament' = tournament /\ entered' = entered /\ created' = created
  BY ArcStays
<1>2. Refunding' <=> Refunding
  BY <1>1 DEF Refunding
<1>3. script'.pc = pc /\ script'.step = s
  OBVIOUS
<1>4. ScriptTyped'
  BY DEF LiveInv, ScriptTyped
<1>5. ScriptAt'
  BY <1>1, <1>2, <1>3 DEF ScriptAt
<1>6. SentTrue' /\ FileTrue' /\ (Refunding' => Late')
  BY <1>1, <1>2 DEF LiveInv, SentTrue, FileTrue
<1> QED
  BY <1>1, <1>4, <1>5, <1>6 DEF LiveInv

\* Nothing to do, or a call to be made: the roster is checked on the way.
LEMMA ReadStep ==
    ASSUME LiveInv, PassOver \/ ToCall
    PROVE  LiveInv'
<1> DEFINE s == script.step
<1>1. /\ script.pc = "read" /\ s \in Step /\ Indexed(s) /\ Holds(s)
      /\ s.act \notin {"orchestrator", "readback", "refund-readback"}
      /\ UNCHANGED <<vars, sent, file, allowed, runs>>
      /\ s.act \in Rostered => Live \in created /\ Cardinality(entered[Live]) = AgentCount
      /\ s.act \in Settling => ~Refunding /\ file.ranking \in Ranking
  BY DEF LiveInv, ScriptTyped, ScriptAt, PassOver, ToCall
<1>2. s.act = "roster" => Live \in created /\ Cardinality(entered[Live]) = AgentCount
  <2>1. ASSUME s.act = "roster" PROVE tournament[Live].entrantCount = AgentCount
    BY <1>1, <2>1 DEF Holds, LiveTournament
  <2>2. /\ tournament[Live].entrantCount = Cardinality(entered[Live])
        /\ AgentCount # 0 /\ (Live \notin created => entered[Live] = {})
    BY LiveFacts, LiveStages DEF LiveInv, ArcInv
  <2>3. Cardinality({}) = 0
    BY FS_EmptySet
  <2> QED
    BY <2>1, <2>2, <2>3
<1>3. CASE PassOver
  <2>1. /\ PassedTo(s) \in Step /\ Indexed(PassedTo(s))
        /\ PassedTo(s).act \in Rostered => s.act \in Rostered \cup {"roster"}
        /\ PassedTo(s).act \in Settling => s.act \in Settling \cup {"orchestrator"}
    BY <1>1, PassedStep
  <2>2. script' = [pc |-> "read", step |-> PassedTo(s)]
    BY <1>3 DEF PassOver, To
  <2> HIDE DEF s
  <2> QED
    BY <1>1, <1>2, <2>1, <2>2, GoOn
<1>4. CASE ToCall
  <2>0. s.act # "roster"
    BY <1>4 DEF ToCall, Missing
  <2>1. PICK pc \in {"send", "wait"} :
           script' = [pc |-> pc, step |-> s] /\ (pc = "wait" => s \in DOMAIN file.log)
    BY <1>4 DEF ToCall, To
  <2> HIDE DEF s
  <2> QED
    BY <1>1, <2>0, <2>1, GoOn
<1> QED
  BY <1>3, <1>4

\* A script stops.
LEMMA EndStep ==
    ASSUME LiveInv, End
    PROVE  LiveInv'
<1>1. /\ script.step \in Step /\ Indexed(script.step)
      /\ script' = [pc |-> "idle", step |-> script.step]
      /\ UNCHANGED <<vars, sent, file, allowed, runs>>
  BY DEF LiveInv, ScriptTyped, ScriptAt, End, To
<1> QED
  BY <1>1, GoOn

\* A call is sent only if it would go through now: refunds only when it is late.
LEMMA SendStep ==
    ASSUME LiveInv, Send
    PROVE  LiveInv'
<1> DEFINE s == script.step
           x == [step |-> s, ranking |-> file.ranking, result |-> "pending"]
<1>1. /\ script.pc = "send" /\ s \in Step /\ Indexed(s) /\ Simulated(s)
      /\ s.act \notin {"roster", "orchestrator", "readback", "refund-readback"}
      /\ sent' = Append(sent, x) /\ script' = [pc |-> "record", step |-> s]
      /\ UNCHANGED <<vars, file, allowed, runs>>
      /\ s.act \in Rostered => Live \in created /\ Cardinality(entered[Live]) = AgentCount
      /\ s.act \in Settling => ~Refunding /\ file.ranking \in Ranking
  BY DEF LiveInv, ScriptTyped, ScriptAt, Send, To
<1>2. x \in Sent /\ sent \in Seq(Sent)
  BY <1>1 DEF LiveInv, ScriptTyped, Sent
<1> HIDE DEF x, s
<1>3. /\ sent' \in Seq(Sent) /\ Len(sent) \in Nat /\ Len(sent') = Len(sent) + 1
      /\ DOMAIN sent' = DOMAIN sent \cup {Len(sent')}
      /\ sent'[Len(sent')] = x
      /\ \A k \in DOMAIN sent : sent'[k] = sent[k]
  BY <1>1, <1>2, OneMoreSent
<1>4. x.step = s /\ x.ranking = file.ranking
  BY DEF x
<1>5. /\ ArcInv' /\ (Cancelled' <=> Cancelled) /\ (Late' <=> Late)
      /\ tournament' = tournament /\ entered' = entered /\ created' = created
  BY <1>1, ArcStays
<1>6. Refunding' => Refunding \/ s.act = "cancel-refunds"
  BY <1>3, <1>4, <1>5 DEF Refunding
<1>7. s.act = "cancel-refunds" => Late
  BY <1>1, CancelledLate DEF LiveInv, Simulated, LiveTournament
<1>8. Refunding' => Late'
  BY <1>5, <1>6, <1>7 DEF LiveInv
<1>9. ScriptTyped'
  <2>1. script' \in [pc : {"idle", "read", "send", "record", "wait", "asked"}, step : Step]
    BY <1>1
  <2> QED
    BY <1>1, <1>3, <2>1 DEF LiveInv, ScriptTyped
<1>10. script'.pc = "record" /\ script'.step = s
  BY <1>1
<1>11. ScriptAt'
  <2>1. s.act \in Settling => ~Refunding'
    BY <1>1, <1>6 DEF Settling
  <2> QED
    BY <1>1, <1>3, <1>5, <1>10, <2>1 DEF ScriptAt
<1>12. SentTrue'
  <2>1. ASSUME s.act = "settle" PROVE file.ranking \in Ranking
    BY <1>1, <2>1 DEF Settling
  <2> QED
    BY <1>1, <1>3, <1>4, <2>1 DEF LiveInv, SentTrue
<1>13. FileTrue'
  BY <1>1, <1>5 DEF LiveInv, FileTrue
<1> QED
  BY <1>5, <1>8, <1>9, <1>11, <1>12, <1>13 DEF LiveInv

\* Something is written of the calls in the file, and the script goes on.
LEMMA Written ==
    ASSUME LiveInv, script.pc \in {"record", "wait"},
           UNCHANGED <<vars, sent, allowed, runs>>,
           file' = [status |-> file.status, ranking |-> file.ranking, log |-> file'.log, done |-> file'.done],
           DOMAIN file'.log \subseteq Step, \A x \in DOMAIN file'.log : file'.log[x] \in DOMAIN sent,
           file'.done \subseteq DOMAIN file'.log,
           script' \in [pc : {"read", "wait"}, step : Step], Indexed(script'.step),
           script'.pc = "wait" => script'.step = script.step /\ script.step \in DOMAIN file'.log,
           script'.step.act \in Rostered => script.step.act \in Rostered \cup {"roster"},
           script'.step.act \in Settling => script.step.act \in Settling \cup {"orchestrator"}
    PROVE  LiveInv'
<1>1. /\ script.step.act \notin {"roster", "orchestrator", "readback", "refund-readback"}
      /\ script.step.act \in Rostered => Live \in created /\ Cardinality(entered[Live]) = AgentCount
      /\ script.step.act \in Settling => ~Refunding /\ file.ranking \in Ranking
  BY DEF LiveInv, ScriptAt
<1>2. file'.status = file.status /\ file'.ranking = file.ranking
  OBVIOUS
<1>3. /\ ArcInv' /\ (Cancelled' <=> Cancelled) /\ (Late' <=> Late)
      /\ tournament' = tournament /\ entered' = entered /\ created' = created
  BY <1>2, ArcStays DEF LiveInv
<1>4. Refunding' <=> Refunding
  BY <1>3 DEF Refunding
<1>5. script'.pc \in {"read", "wait"} /\ script'.step \in Step
  OBVIOUS
<1>6. ScriptTyped'
  BY <1>2 DEF LiveInv, ScriptTyped
<1>7. ScriptAt'
  BY <1>1, <1>2, <1>3, <1>4, <1>5 DEF ScriptAt
<1>8. SentTrue' /\ FileTrue' /\ (Refunding' => Late')
  BY <1>2, <1>3, <1>4 DEF LiveInv, SentTrue, FileTrue
<1> QED
  BY <1>3, <1>6, <1>7, <1>8 DEF LiveInv

\* The hash is written to the file, or the receipt.
LEMMA WriteStep ==
    ASSUME LiveInv, Record \/ Receipt
    PROVE  LiveInv'
<1> DEFINE s == script.step
<1>1. /\ script.pc \in {"record", "wait"} /\ s \in Step /\ Indexed(s)
      /\ UNCHANGED <<vars, sent, allowed, runs>>
  BY DEF LiveInv, ScriptTyped, ScriptAt, Record, Receipt
<1>2. /\ DOMAIN file.log \subseteq Step /\ file.done \subseteq DOMAIN file.log
      /\ \A x \in DOMAIN file.log : file.log[x] \in DOMAIN sent
  BY DEF LiveInv, ScriptTyped
<1>3. CASE Record
  <2> DEFINE log == [x \in DOMAIN file.log \cup {s} |-> IF x = s THEN Len(sent) ELSE file.log[x]]
  <2>1. Len(sent) > 0 /\ Len(sent) \in Nat /\ DOMAIN sent = 1..Len(sent)
    BY <1>3 DEF LiveInv, ScriptTyped, ScriptAt, Record
  <2>2. /\ file' = [file EXCEPT !.log = log] /\ script' = [pc |-> "wait", step |-> s]
    BY <1>3 DEF Record, To
  <2>3. /\ DOMAIN log = DOMAIN file.log \cup {s} /\ log[s] = Len(sent)
        /\ \A x \in DOMAIN file.log : log[x] = file.log[x] \/ log[x] = Len(sent)
    OBVIOUS
  <2> HIDE DEF log
  <2>4. file' = [status |-> file.status, ranking |-> file.ranking, log |-> log, done |-> file.done]
    BY <2>2 DEF LiveInv, ScriptTyped
  <2>5. Len(sent) \in DOMAIN sent
    BY <2>1
  <2>6. \A x \in DOMAIN log : log[x] \in DOMAIN sent
    BY <1>2, <2>3, <2>5
  <2>7. DOMAIN log \subseteq Step /\ file.done \subseteq DOMAIN log /\ s \in DOMAIN log
    BY <1>1, <1>2, <2>3
  <2> QED
    <3>1. /\ file'.log = log /\ file'.done = file.done
          /\ file'.status = file.status /\ file'.ranking = file.ranking
          /\ script'.pc = "wait" /\ script'.step = s /\ script' \in [pc : {"read", "wait"}, step : Step]
      BY <1>1, <2>2, <2>4
    <3>2. s.act \notin {"roster", "orchestrator"}
      BY <1>1 DEF LiveInv, ScriptAt
    <3> QED
      BY <1>1, <2>4, <2>6, <2>7, <3>1, <3>2, Written
<1>4. CASE Receipt
  <2> DEFINE done == file.done \cup {s}
             to == After(s)
  <2>1. /\ file' = [file EXCEPT !.done = done] /\ script' = [pc |-> "read", step |-> to]
        /\ s \in DOMAIN file.log
    BY <1>4 DEF Receipt, To, LiveInv, ScriptAt
  <2>2. done \subseteq DOMAIN file.log
    BY <1>2, <2>1
  <2>3. /\ to \in Step /\ Indexed(to)
        /\ to.act \in Rostered => s.act \in Rostered \cup {"roster"}
        /\ to.act \in Settling => s.act \in Settling \cup {"orchestrator"}
    BY <1>1, AfterStep
  <2> HIDE DEF done, to
  <2>4. file' = [status |-> file.status, ranking |-> file.ranking, log |-> file.log, done |-> done]
    BY <2>1 DEF LiveInv, ScriptTyped
  <2> QED
    <3>1. /\ file'.log = file.log /\ file'.done = done
          /\ file'.status = file.status /\ file'.ranking = file.ranking
          /\ script'.pc = "read" /\ script'.step = to /\ script' \in [pc : {"read", "wait"}, step : Step]
      BY <2>1, <2>3, <2>4
    <3> QED
      BY <1>1, <1>2, <2>2, <2>3, <2>4, <3>1, Written
<1> QED
  BY <1>3, <1>4

\* The judgments are asked for only while nobody may open refunds.
LEMMA AskStep ==
    ASSUME LiveInv, Ask
    PROVE  LiveInv'
<1>1. /\ script.pc = "read" /\ script.step = StepAt("orchestrator", 0) /\ now < LivePolicy.expiresAt
      /\ script' = [pc |-> "asked", step |-> script.step]
      /\ UNCHANGED <<vars, sent, file, allowed, runs>>
  BY DEF Ask, To
<1>2. script.step.act = "orchestrator" /\ "orchestrator" \in Rostered /\ "orchestrator" \notin Settling
  BY <1>1 DEF StepAt, Rostered, Settling
<1>3. /\ script.step \in Step /\ Indexed(script.step)
      /\ Live \in created /\ Cardinality(entered[Live]) = AgentCount
  BY <1>1, <1>2 DEF LiveInv, ScriptTyped, ScriptAt
<1>4. ~Late
  <2>1. now \in Nat /\ LivePolicy.expiresAt \in Nat /\ AgentCount \in Nat
    BY LiveFacts DEF LiveInv
  <2> QED
    BY <1>1, <1>3, <2>1 DEF Late
<1>5. ~Refunding
  BY <1>4 DEF LiveInv
<1> QED
  BY <1>1, <1>2, <1>3, <1>5, GoOn

\* The ranking of the judgments: the first time any, afterwards that one.
LEMMA RankedStep ==
    ASSUME LiveInv, RankingReady
    PROVE  LiveInv'
<1>1. /\ script.pc = "asked" /\ script' = [pc |-> "read", step |-> After(script.step)]
      /\ UNCHANGED <<vars, sent, allowed, runs>>
  BY DEF RankingReady, To
<1>2. /\ script.step \in Step /\ Indexed(script.step) /\ script.step.act = "orchestrator" /\ ~Refunding
      /\ Live \in created /\ Cardinality(entered[Live]) = AgentCount
  BY <1>1 DEF LiveInv, ScriptTyped, ScriptAt, Rostered
<1>3. PICK r \in Ranking :
         /\ file' = [file EXCEPT !.ranking = r, !.status = "RANKING_READY"]
         /\ file.ranking \in Ranking => r = file.ranking
  <2>1. PICK r \in Rankings : file' = [file EXCEPT !.ranking = r, !.status = "RANKING_READY"]
    BY DEF RankingReady
  <2>2. file.ranking \in {<<>>} \cup Ranking
    BY DEF LiveInv, ScriptTyped
  <2>3. {EntrantOf[i] : i \in Index} \subseteq Entrants
    BY LifecycleAssumption
  <2>4. r \in Ranking /\ (file.ranking \in Ranking => r = file.ranking)
    BY <2>1, <2>2, <2>3, NoRanking DEF Rankings, Ranking
  <2> QED
    BY <2>1, <2>4
<1>4. file' = [status |-> "RANKING_READY", ranking |-> r, log |-> file.log, done |-> file.done]
  BY <1>3 DEF LiveInv, ScriptTyped
<1>5. file'.status = "RANKING_READY" /\ file'.ranking = r /\ file'.log = file.log /\ file'.done = file.done
  BY <1>4
<1>6. ArcInv'
  <2>1. CASE file.ranking \in Ranking
    BY <1>1, <1>3, <1>5, <2>1, ArcStays
  <2>2. CASE file.ranking \notin Ranking
    <3>1. tournament[Live].settlementNonce = 0
      BY <2>2 DEF LiveInv, ArcInv
    <3>2. IInv'
      BY <1>1, NextIInv DEF LiveInv, ArcInv
    <3>3. ASSUME NEW a \in Accounts PROVE Earned(a)'
      <4>1. Worth(a)' = Worth(a) /\ PaidIn(a)' = PaidIn(a) /\ tournament' = tournament
        BY <1>1 DEF vars, Worth, OwedTo, PaidIn
      <4>2. Earned(a)
        BY DEF LiveInv, ArcInv
      <4> QED
        BY <3>1, <4>1, <4>2 DEF Earned
    <3> QED
      BY <1>1, <3>1, <3>2, <3>3 DEF LiveInv, ArcInv, vars
  <2> QED
    BY <2>1, <2>2
<1>7. Late' = Late /\ Cancelled' = Cancelled /\ tournament' = tournament /\ entered' = entered /\ created' = created
  BY <1>1 DEF vars, Late, Cancelled
<1>8. Refunding' <=> Refunding
  BY <1>1, <1>7 DEF Refunding
<1>9. /\ After(script.step) \in Step /\ Indexed(After(script.step))
  BY <1>2, AfterStep
<1>10. ScriptTyped'
  BY <1>1, <1>3, <1>4, <1>5, <1>9 DEF LiveInv, ScriptTyped
<1>11. ScriptAt'
  <2>1. script'.pc = "read" /\ script'.step = After(script.step)
    BY <1>1
  <2> QED
    BY <1>2, <1>3, <1>5, <1>7, <1>8, <1>9, <2>1 DEF ScriptAt
<1>12. SentTrue' /\ FileTrue' /\ (Refunding' => Late')
  BY <1>1, <1>3, <1>5, <1>7, <1>8 DEF LiveInv, SentTrue, FileTrue
<1> QED
  BY <1>6, <1>10, <1>11, <1>12 DEF LiveInv

\* The last readback: closed, and for COMPLETE not by refunds.
LEMMA FinishStep ==
    ASSUME LiveInv, Finish
    PROVE  LiveInv'
<1> DEFINE s == script.step
           status == IF s.act = "readback" THEN "COMPLETE" ELSE "REFUNDED_CLOSED"
<1>1. /\ script.pc = "read" /\ s.act \in {"readback", "refund-readback"} /\ Holds(s)
      /\ file' = [file EXCEPT !.status = status] /\ script' = [pc |-> "idle", step |-> s]
      /\ UNCHANGED <<vars, sent, allowed, runs>>
  BY DEF Finish, To
<1>2. s \in Step /\ Indexed(s) /\ (s.act = "readback" => ~Refunding)
  BY <1>1 DEF LiveInv, ScriptTyped, ScriptAt, Settling
<1>3. tournament[Live].state = "CLOSED"
  BY <1>1 DEF Holds, LiveTournament
<1>4. s.act = "readback" => tournament[Live].settlementNonce = 1
  BY <1>2, <1>3 DEF Refunding, Cancelled, LiveInv, ArcInv
<1>5. file' = [status |-> status, ranking |-> file.ranking, log |-> file.log, done |-> file.done]
  BY <1>1 DEF LiveInv, ScriptTyped
<1>6. file'.status = status /\ file'.ranking = file.ranking /\ file'.log = file.log /\ file'.done = file.done
  BY <1>5
<1>7. /\ ArcInv' /\ (Cancelled' <=> Cancelled) /\ (Late' <=> Late) /\ tournament' = tournament
  BY <1>1, <1>6, ArcStays
<1>8. status \in {"COMPLETE", "REFUNDED_CLOSED"} /\ (status = "COMPLETE" => s.act = "readback")
  OBVIOUS
<1> HIDE DEF status, s
<1>9. ScriptTyped'
  BY <1>1, <1>2, <1>5, <1>6, <1>8 DEF LiveInv, ScriptTyped
<1>10. ScriptAt'
  <2>1. script'.pc = "idle" /\ script'.step = s
    BY <1>1
  <2> QED
    BY <1>2, <2>1 DEF ScriptAt
<1>11. SentTrue' /\ FileTrue' /\ (Refunding' => Late')
  BY <1>1, <1>3, <1>4, <1>6, <1>7, <1>8 DEF LiveInv, SentTrue, FileTrue, Refunding
<1> QED
  BY <1>7, <1>9, <1>10, <1>11 DEF LiveInv

\* Nothing is created, sent or written at the start.
LEMMA LiveInit == LifecycleInit => LiveInv
<1> SUFFICES ASSUME LifecycleInit PROVE LiveInv
  OBVIOUS
<1>1. /\ Live \in Tournaments /\ AgentCount \in Nat /\ Escrow \notin Accounts /\ MaxRuns \in Nat
      /\ 0 \in Index
  BY LifecycleAssumption, TournamentAssumption DEF Index
<1>2. IInv /\ Init
  BY InitIInv DEF LifecycleInit
<1>3. /\ created = {} /\ entered[Live] = {} /\ refunds[Live] = {}
      /\ tournament[Live] = Draft(NoPolicy)
      /\ \A a \in Accounts : credits[Live][a] = 0 /\ usdc[a] = Funds
  BY <1>1, <1>2 DEF Init
<1>4. /\ tournament[Live].state = "DRAFT" /\ tournament[Live].entrantCount = 0
      /\ tournament[Live].settlementNonce = 0 /\ tournament[Live].platformFeeCredit = 0
  BY <1>3 DEF Draft
<1>5. Funds \in Nat /\ "DRAFT" \in Undecided
  BY TournamentAssumption DEF Undecided
<1>6. \A a \in Accounts : Earned(a)
  BY <1>3, <1>4, <1>5 DEF Earned, Worth, OwedTo, PaidIn
<1>7. ArcInv
  BY <1>1, <1>2, <1>3, <1>4, <1>6, FS_EmptySet DEF ArcInv
<1>8. /\ script = [pc |-> "idle", step |-> [act |-> "readback", i |-> 0]] /\ sent = <<>> /\ allowed = {} /\ runs = 0
      /\ file = [status |-> "CREATED", ranking |-> <<>>, log |-> <<>>, done |-> {}]
  BY DEF LifecycleInit, StepAt
<1>9. /\ DOMAIN sent = {} /\ DOMAIN file.log = {} /\ file.done = {} /\ sent \in Seq(Sent)
      /\ file.status = "CREATED" /\ file.ranking = <<>>
      /\ script.pc = "idle" /\ script.step.act = "readback"
  BY <1>8
<1>10. ScriptTyped
  <2>1. [act |-> "readback", i |-> 0] \in Step
    BY <1>1 DEF Step, MainActs
  <2> QED
    BY <1>1, <1>8, <1>9, <2>1 DEF ScriptTyped
<1>11. Indexed(script.step)
  BY <1>9 DEF Indexed, OfAccount
<1>12. ScriptAt
  BY <1>9, <1>11 DEF ScriptAt
<1>13. SentTrue /\ FileTrue /\ ~Refunding
  BY <1>4, <1>9 DEF SentTrue, FileTrue, Refunding, Cancelled
<1> QED
  BY <1>7, <1>10, <1>12, <1>13 DEF LiveInv

\* Every step of the scripts, of the blocks and of anybody else keeps the invariant.
LEMMA LiveNext == LiveInv /\ [LifecycleNext]_lifecycleVars => LiveInv'
<1> SUFFICES ASSUME LiveInv, [LifecycleNext]_lifecycleVars PROVE LiveInv'
  OBVIOUS
<1>1. CASE RunMain \/ RunRecovery
  BY <1>1, RunStep
<1>2. CASE PassOver \/ ToCall
  BY <1>2, ReadStep
<1>3. CASE Send
  BY <1>3, SendStep
<1>4. CASE Record \/ Receipt
  BY <1>4, WriteStep
<1>5. CASE Ask
  BY <1>5, AskStep
<1>6. CASE RankingReady
  BY <1>6, RankedStep
<1>7. CASE Finish
  BY <1>7, FinishStep
<1>8. CASE End
  BY <1>8, EndStep
<1>9. CASE Others \/ (Tick /\ UNCHANGED scriptVars)
  BY <1>9, OthersStep
<1>10. CASE \E k \in DOMAIN sent : Mine(k)
  BY <1>10, MineStep
<1>11. CASE UNCHANGED lifecycleVars
  <2>1. ArcInv /\ UNCHANGED vars /\ file'.ranking = file.ranking /\ UNCHANGED scriptVars
    BY <1>11 DEF LiveInv, lifecycleVars, scriptVars
  <2>2. ArcInv' /\ Onward /\ (Cancelled' => Cancelled)
    BY <2>1, LiveTick
  <2> QED
    BY <2>1, <2>2, Elsewhere DEF LiveInv, ScriptTyped, Refunding, scriptVars
<1> QED
  BY <1>1, <1>2, <1>3, <1>4, <1>5, <1>6, <1>7, <1>8, <1>9, <1>10, <1>11 DEF LifecycleNext

\* However often the scripts die, are run again and overtake their own
\* transactions, every account ends with the prizes of the ranking in the state
\* file or with its whole stake, a settlement pays that ranking and no other, and
\* the file says COMPLETE only of a settled tournament, over only of one that owes
\* nothing (RunTruthful, of src/scripts/run-live-lifecycle.mjs and
\* recover-live-refund.mjs).
THEOREM RunsAlwaysTruthful == LifecycleSpec => []RunTruthful
<1>1. LiveInv => RunTruthful
  <2> SUFFICES ASSUME LiveInv PROVE RunTruthful
    OBVIOUS
  <2>1. ArcInv /\ ScriptTyped /\ FileTrue /\ TypeOK
    BY DEF LiveInv, ArcInv, IInv
  <2>2. LifecycleTypeOK
    BY <2>1 DEF LifecycleTypeOK, ScriptTyped, Sent, Ranking
  <2>3. ASSUME NEW a \in Accounts
        PROVE  Owed[Live][a] = OwedTo(Live, a)
    BY LifecycleAssumption DEF Owed, OwedTo
  <2>4. ASSUME NEW a \in Accounts
        PROVE  usdc[a] + Owed[Live][a] =
                  IF tournament[Live].settlementNonce = 1 THEN Funds - PaidIn(a) + Prize(a)
                  ELSE IF tournament[Live].state \in Undecided THEN Funds - PaidIn(a)
                  ELSE Funds
    BY <2>1, <2>3 DEF ArcInv, Earned, Worth
  <2>5. tournament[Live].state = "CLOSED" => \A a \in Accounts : Owed[Live][a] = 0
    BY <2>1, <2>3, LiveStages
  <2> QED
    BY <2>1, <2>2, <2>4, <2>5 DEF RunTruthful, PaidIn, FileTrue, LiveTournament
<1> QED
  BY <1>1, LiveInit, LiveNext, PTL DEF LifecycleSpec

=============================================================================
