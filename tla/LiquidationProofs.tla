------------------------- MODULE LiquidationProofs -------------------------
(* Proofs about Liquidation. *)
EXTENDS Liquidation, SequenceTheorems, WellFoundedInduction, TLAPS

-----------------------------------------------------------------------------
\* Lemmas on the operators.

\* Every set of numbers that has an element has a least one.
LEMMA LeastNumber ==
    ASSUME NEW T \in SUBSET Nat, T # {}
    PROVE  \E i \in T : \A j \in T : i <= j
<1> DEFINE R == {ss \in Nat \X Nat : ss[1] < ss[2]}
<1>1. IsWellFoundedOn(R, Nat)
  BY NatLessThanWellFounded DEF OpToRel
<1> HIDE DEF R
<1>2. \E i \in T : \A j \in T : <<j, i>> \notin R
  BY <1>1, WFMin
<1>3. ASSUME NEW i \in T, NEW j \in T, <<j, i>> \notin R PROVE i <= j
  BY <1>3 DEF R
<1> QED
  BY <1>2, <1>3

\* find() answers an asset, when there is one to find.
LEMMA EarliestType ==
    ASSUME NEW held \in SUBSET (1..Len(Assets))
    PROVE  Earliest(held) \in Asset \cup {None}
<1>1. CASE held = {}
  BY <1>1 DEF Earliest
<1>2. CASE held # {}
 <2>1. Len(Assets) \in Nat
   BY DataAssumption, LenProperties
 <2>2. held \in SUBSET Nat
   BY <2>1
 <2>3. \E i \in held : \A j \in held : i <= j
   BY <1>2, <2>2, LeastNumber
 <2>4. (CHOOSE i \in held : \A j \in held : i <= j) \in held
   BY <2>3
 <2> QED
   BY <1>2, <2>4 DEF Earliest, Asset
<1> QED
  BY <1>1, <1>2

\* The three pools.
LEMMA FeesType ==
    /\ Len(Fees) = 3
    /\ \A i \in 1..Len(Fees) : Fees[i] \in {500, 3000, 10000}
    /\ {Fees[i] : i \in 1..Len(Fees)} = {500, 3000, 10000}
<1>1. Len(Fees) = 3 /\ Fees[1] = 500 /\ Fees[2] = 3000 /\ Fees[3] = 10000
  BY DEF Fees
<1>2. 1..3 = {1, 2, 3}
  OBVIOUS
<1> QED
  BY <1>1, <1>2

\* What the assumption says of the numbers.
LEMMA Numbers ==
    /\ \A x \in Amounts : x \in Nat
    /\ \A x \in Liquidities : x \in Nat
    /\ \A x \in Doubles : x \in Nat
    /\ None \notin Asset /\ None \notin Nat
<1>1. None \notin Asset /\ None \notin Nat
  BY DataAssumption DEF Asset
<1> QED
  BY <1>1, DataAssumption

\* The indices of the chain are numbers, from 1.0 on.
LEMMA IndexType ==
    ASSUME NEW i \in Indices \cup {100}
    PROVE  i \in Nat /\ i >= 100
  BY DataAssumption

\* Rounding keeps the order of amounts.
LEMMA FromF64Monotone ==
    ASSUME NEW x \in Nat, NEW y \in Nat, x <= y
    PROVE  /\ FromF64(x) \in Nat
           /\ FromF64(x) <= FromF64(y)
  BY DEF FromF64

\* The close factor of 0.5 rounds to 1: all of the debt is covered.
LEMMA CoverIsAll ==
    ASSUME NEW x \in Nat
    PROVE  debt_to_cover(x) = x
<1>1. FromF64(CLOSE_FACTOR) = 1
  BY DEF FromF64, CLOSE_FACTOR
<1> QED
  BY <1>1 DEF debt_to_cover

\* A larger index makes a debt larger.
LEMMA DebtGrows ==
    ASSUME NEW d \in Nat, NEW i \in Nat, NEW j \in Nat, i <= j
    PROVE  d * i \in Nat /\ d * j \in Nat /\ d * i <= d * j
<1>1. PICK k \in Nat : j = i + k
 <2>1. j - i \in Nat /\ j = i + (j - i)
   OBVIOUS
 <2> QED
   BY <2>1
<1>2. d * j = d * i + d * k
  BY <1>1
<1>3. d * k \in Nat /\ d * i \in Nat
  OBVIOUS
<1> QED
  BY <1>2, <1>3

\* A distance is a number.
LEMMA DistanceType ==
    ASSUME NEW m \in Nat, NEW n \in Nat
    PROVE  /\ Distance(m, n) \in Nat
           /\ m <= n => n = m + Distance(m, n)
           /\ n <= m => m = n + Distance(m, n)
  BY DEF Distance

\* There is a nearest f64, and it is a number.
LEMMA NearestType ==
    ASSUME NEW n \in Nat, NEW s \in {1, 100}
    PROVE  /\ Nearest(n, s) \in Doubles /\ Nearest(n, s) \in Nat
           /\ \A f \in Doubles :
                 Distance(s * Nearest(n, s), n) <= Distance(s * f, n)
<1> DEFINE T == {Distance(s * f, n) : f \in Doubles}
<1>1. \A f \in Doubles : Distance(s * f, n) \in Nat
 <2> TAKE f \in Doubles
 <2>1. f \in Nat
   BY Numbers
 <2>2. s * f \in Nat
   BY <2>1
 <2> QED
   BY <2>2, DistanceType
<1>2. T \in SUBSET Nat /\ T # {}
 <2>1. T \in SUBSET Nat
   BY <1>1
 <2>2. PICK f \in Doubles : TRUE
   BY DataAssumption
 <2>3. Distance(s * f, n) \in T
   BY <2>2
 <2> QED
   BY <2>1, <2>3
<1>3. PICK t \in T : \A u \in T : t <= u
  BY <1>2, LeastNumber
<1>4. \E e \in Doubles :
         \A f \in Doubles : Distance(s * e, n) <= Distance(s * f, n)
 <2>1. PICK e \in Doubles : t = Distance(s * e, n)
   BY <1>3
 <2> QED
   BY <1>3, <2>1
<1>5. /\ Nearest(n, s) \in Doubles
      /\ \A f \in Doubles :
            Distance(s * Nearest(n, s), n) <= Distance(s * f, n)
  BY <1>4 DEF Nearest
<1> QED
  BY <1>5, Numbers

\* Of two numbers, the one that is nearer to the larger and no nearer to the
\* smaller is not below the other.
LEMMA NearerToTheLarger ==
    ASSUME NEW m \in Nat, NEW n \in Nat, m < n,
           NEW x \in Nat, NEW y \in Nat,
           Distance(x, m) <= Distance(y, m), Distance(y, n) <= Distance(x, n)
    PROVE  x <= y
  BY DEF Distance

\* Rounding to an f64 keeps the order of amounts.
LEMMA NearestMonotone ==
    ASSUME NEW m \in Nat, NEW n \in Nat, m <= n, NEW s \in {1, 100}
    PROVE  Nearest(m, s) <= Nearest(n, s)
<1>1. Nearest(m, s) \in Doubles /\ Nearest(m, s) \in Nat
  BY NearestType
<1>2. Nearest(n, s) \in Doubles /\ Nearest(n, s) \in Nat
  BY NearestType
<1>3. CASE m = n
  BY <1>1, <1>3
<1>4. CASE m < n
 <2>1. PICK x \in Nat : x = s * Nearest(m, s)
   BY <1>1
 <2>2. PICK y \in Nat : y = s * Nearest(n, s)
   BY <1>2
 <2>3. Distance(x, m) <= Distance(y, m)
   BY <1>2, <2>1, <2>2, NearestType
 <2>4. Distance(y, n) <= Distance(x, n)
   BY <1>1, <2>1, <2>2, NearestType
 <2>5. x <= y
   BY <1>4, <2>3, <2>4, NearerToTheLarger
 <2> QED
   BY <1>1, <1>2, <2>1, <2>2, <2>5
<1> QED
  BY <1>3, <1>4

\* norm() of a larger index is not smaller.
LEMMA NormMonotone ==
    ASSUME NEW d \in Nat, NEW i \in Nat, NEW j \in Nat, i <= j
    PROVE  norm(d, i) \in Nat /\ norm(d, j) \in Nat /\ norm(d, i) <= norm(d, j)
<1>1. PICK p \in Nat : p = Nearest(d * 100, 1)
 <2>1. d * 100 \in Nat
   OBVIOUS
 <2> QED
   BY <2>1, NearestType
<1>2. p * i \in Nat /\ p * j \in Nat /\ p * i <= p * j
  BY DebtGrows
<1>3. /\ Nearest(p * i, 100) \in Nat /\ Nearest(p * j, 100) \in Nat
      /\ Nearest(p * i, 100) <= Nearest(p * j, 100)
  BY <1>2, NearestType, NearestMonotone
<1> QED
  BY <1>1, <1>3 DEF norm

-----------------------------------------------------------------------------
\* The inductive invariant.

\* No index that is stored or read is ahead of the chain.
StatsInv ==
    /\ \A a \in DOMAIN stats : stats[a] \in Nat /\ stats[a] <= index[a]
    /\ \A a \in DOMAIN indices : indices[a] \in Nat /\ indices[a] <= index[a]

\* The best pool is the first of the best among those read so far, if one of
\* them has liquidity.
BestInv ==
    IF best.fee = None
    THEN /\ best.liquidity = 0
         /\ \A j \in 1..Len(probed) : probed[j] # None => probed[j] = 0
    ELSE \E i \in 1..Len(probed) :
            /\ best = [liquidity |-> probed[i], fee |-> Fees[i]]
            /\ probed[i] # None /\ probed[i] > 0
            /\ \A j \in 1..Len(probed) : probed[j] # None =>
                  IF j < i THEN probed[j] < probed[i]
                  ELSE probed[j] <= probed[i]

\* What the handler has in hand at each await.
LocalInv ==
    /\ probed \in Seq(Liquidities \cup {None})
    /\ pc \in {"idle", "rpc", "indices", "data", "replied"} =>
          picked = Nothing /\ probed = << >> /\ best = NoPool
    /\ pc = "call" => Len(probed) = Len(Fees) /\ best.fee # None

\* No pool is found for one asset on both sides.
SidesInv == picked.debt = picked.collateral => best.fee = None

IInv == TypeOK /\ StatsInv /\ BestInv /\ LocalInv /\ SidesInv

-----------------------------------------------------------------------------
\* What the handler reads.

\* The user's first debt, and the first collateral, are assets when there are.
LEMMA FirstType ==
    /\ FirstDebt \in Asset \cup {None}
    /\ FirstCollateral \in Asset \cup {None}
<1>1. /\ {i \in 1..Len(Assets) : position[Assets[i]].debt > 0}
            \in SUBSET (1..Len(Assets))
      /\ {i \in 1..Len(Assets) : position[Assets[i]].aToken > 0}
            \in SUBSET (1..Len(Assets))
  OBVIOUS
<1> QED
  BY <1>1, EarliestType DEF FirstDebt, FirstCollateral

\* The amount to cover is a number, and at most what the chain's index gives.
LEMMA CoverBound ==
    ASSUME TypeOK, StatsInv, FirstDebt # None
    PROVE  /\ debt_to_cover(FromF64(NormalizedDebt)) \in Nat
           /\ debt_to_cover(FromF64(NormalizedDebt))
                 <= FromF64(norm(position[FirstDebt].debt, index[FirstDebt]))
<1>1. FirstDebt \in Asset
  BY FirstType
<1>2. position[FirstDebt].debt \in Nat
 <2>1. position[FirstDebt].debt \in Amounts
   BY <1>1 DEF TypeOK
 <2> QED
   BY <2>1, Numbers
<1>3. index[FirstDebt] \in Nat /\ index[FirstDebt] >= 100
 <2>1. index[FirstDebt] \in Indices \cup {100}
   BY <1>1 DEF TypeOK
 <2> QED
   BY <2>1, IndexType
<1>4. /\ IndexOf(indices, FirstDebt) \in Nat
      /\ IndexOf(indices, FirstDebt) <= index[FirstDebt]
  BY <1>1, <1>3 DEF IndexOf, StatsInv
<1>5. /\ NormalizedDebt \in Nat
      /\ norm(position[FirstDebt].debt, index[FirstDebt]) \in Nat
      /\ NormalizedDebt <= norm(position[FirstDebt].debt, index[FirstDebt])
  BY <1>2, <1>3, <1>4, NormMonotone DEF NormalizedDebt
<1>6. /\ FromF64(NormalizedDebt) \in Nat
      /\ FromF64(NormalizedDebt)
            <= FromF64(norm(position[FirstDebt].debt, index[FirstDebt]))
  BY <1>5, FromF64Monotone
<1> QED
  BY <1>6, CoverIsAll

\* A pool reports a liquidity, or there is none.
LEMMA PoolType ==
    ASSUME TypeOK, NEW i \in 1..Len(Fees)
    PROVE  PoolOf(Fees[i]) \in Liquidities \cup {None}
  BY FeesType DEF PoolOf, TypeOK

\* A handler that ends has nothing in hand.
LEMMA ForgetType ==
    ASSUME Forget
    PROVE  /\ DOMAIN indices' = {}
           /\ Len(probed') = 0
           /\ picked' \in [debt : Asset \cup {None},
                           collateral : Asset \cup {None}, cover : Nat]
           /\ best' \in [liquidity : Liquidities \cup {0},
                         fee : {500, 3000, 10000, None}]
  BY EmptySeq DEF Forget, Nothing, NoPool

-----------------------------------------------------------------------------
\* Each part of the invariant is kept.

\* What the variables hold when nothing has happened.
LEMMA InitInv == Init => IInv
<1> SUFFICES ASSUME Init PROVE IInv
  OBVIOUS
<1>1. TypeOK
 <2>1. pools \in [{500, 3000, 10000} -> Liquidities \cup {None}]
  <3>1. pools = [f \in {Fees[i] : i \in 1..Len(Fees)} |-> None]
    BY DEF Init
  <3> QED
    BY <3>1, FeesType
 <2>2. /\ position \in [Asset -> [aToken : Amounts, debt : Amounts]]
       /\ index \in [Asset -> Indices \cup {100}]
       /\ DOMAIN stats \subseteq Asset /\ DOMAIN indices \subseteq Asset
   BY DEF Init
 <2>3. /\ picked \in [debt : Asset \cup {None}, collateral : Asset \cup {None},
                      cover : Nat]
       /\ best \in [liquidity : Liquidities \cup {0},
                    fee : {500, 3000, 10000, None}]
   BY DEF Init, Nothing, NoPool
 <2>4. Len(probed) <= Len(Fees)
  <3>1. Len(probed) = 0
    BY EmptySeq DEF Init
  <3> QED
    BY <3>1, FeesType
 <2>5. pc \in {"idle", "rpc", "indices", "data", "pool", "call", "notify",
               "replied"}
   BY DEF Init
 <2> QED
   BY <2>1, <2>2, <2>3, <2>4, <2>5 DEF TypeOK
<1>2. StatsInv
  BY DEF Init, StatsInv
<1>3. BestInv
  BY EmptySeq DEF Init, BestInv, NoPool
<1>4. LocalInv
  BY EmptySeq DEF Init, LocalInv
<1>5. SidesInv
  BY DEF Init, SidesInv, NoPool
<1> QED
  BY <1>1, <1>2, <1>3, <1>4, <1>5 DEF IInv

\* Every step keeps the types.
LEMMA TypeNext == IInv /\ [Next]_vars => TypeOK'
<1> SUFFICES ASSUME IInv, [Next]_vars PROVE TypeOK'
  OBVIOUS
<1> USE DEF IInv
<1>1. CASE UNCHANGED vars
  BY <1>1 DEF vars, chain, local, TypeOK
<1>2. CASE LiquidationRequest \/ ReadHealth \/ PickPool \/ CallLiquidatoor
             \/ FanaticAnswers \/ FanaticTakesAnswer
  BY <1>2
     DEF LiquidationRequest, ReadHealth, PickPool, CallLiquidatoor,
         FanaticAnswers, FanaticTakesAnswer, Goto, chain, local, TypeOK
<1>3. CASE ReadIndices
  BY <1>3 DEF ReadIndices, Goto, chain, TypeOK
<1>4. CASE ReadPosition
 <2>1. picked' \in [debt : Asset \cup {None}, collateral : Asset \cup {None},
                    cover : Nat]
   BY <1>4, FirstType, CoverBound DEF ReadPosition
 <2>2. DOMAIN indices' = {}
   BY <1>4 DEF ReadPosition
 <2> QED
   BY <1>4, <2>1, <2>2 DEF ReadPosition, Goto, chain, TypeOK
<1>5. CASE ProbePool
 <2> DEFINE n == Len(probed) + 1
 <2>1. Len(probed) \in Nat /\ n \in 1..Len(Fees)
   BY <1>5, FeesType, LenProperties DEF ProbePool, LocalInv
 <2>2. /\ PoolOf(Fees[n]) \in Liquidities \cup {None}
       /\ Fees[n] \in {500, 3000, 10000}
   BY <2>1, PoolType, FeesType
 <2>3. best' = IF PoolOf(Fees[n]) # None /\ Better(PoolOf(Fees[n]))
               THEN [liquidity |-> PoolOf(Fees[n]), fee |-> Fees[n]] ELSE best
   BY <1>5 DEF ProbePool
 <2>4. best' \in [liquidity : Liquidities \cup {0},
                  fee : {500, 3000, 10000, None}]
   BY <2>2, <2>3 DEF TypeOK
 <2>5. Len(probed') = n
   BY <1>5, <2>2, AppendProperties DEF ProbePool, LocalInv
 <2>6. Len(probed') <= Len(Fees)
   BY <2>1, <2>5
 <2> HIDE DEF n
 <2> QED
   BY <1>5, <2>4, <2>6 DEF ProbePool, chain, TypeOK
<1>6. CASE GiveUp \/ Notified
 <2>1. Forget /\ UNCHANGED chain
   BY <1>6 DEF GiveUp, Notified
 <2>2. Len(probed') <= Len(Fees)
   BY <2>1, ForgetType, FeesType
 <2> QED
   BY <2>1, <2>2, ForgetType DEF Forget, chain, TypeOK
<1>7. ASSUME NEW a \in Asset, Transaction(a) PROVE TypeOK'
  BY <1>7 DEF Transaction, local, TypeOK
<1>8. ASSUME NEW a \in Asset, UpsertReserveStats(a) PROVE TypeOK'
  BY <1>8 DEF UpsertReserveStats, local, TypeOK
<1>9. CASE UniswapMoves
  BY <1>9, FeesType DEF UniswapMoves, local, TypeOK
<1> QED
  BY <1>1, <1>2, <1>3, <1>4, <1>5, <1>6, <1>7, <1>8, <1>9
     DEF Next, HandlerStep, Surroundings

\* Indices only grow, and the Follower stores what the chain says.
LEMMA StatsNext == IInv /\ [Next]_vars => StatsInv'
<1> SUFFICES ASSUME IInv, [Next]_vars PROVE StatsInv'
  OBVIOUS
<1> USE DEF IInv
<1>0. \A a \in Asset : index[a] \in Nat
 <2>1. index \in [Asset -> Indices \cup {100}]
   BY DEF TypeOK
 <2> QED
   BY <2>1, IndexType
<1>1. CASE UNCHANGED <<stats, indices, index>>
  BY <1>1 DEF StatsInv
<1>2. CASE ReadIndices
  BY <1>2 DEF ReadIndices, chain, StatsInv
<1>3. CASE ReadPosition \/ GiveUp \/ Notified
 <2>1. DOMAIN indices' = {} /\ UNCHANGED <<stats, index>>
   BY <1>3 DEF ReadPosition, GiveUp, Notified, Forget, chain
 <2> QED
   BY <2>1 DEF StatsInv
<1>4. ASSUME NEW a \in Asset, Transaction(a) PROVE StatsInv'
 <2>1. UNCHANGED <<stats, indices>>
   BY <1>4 DEF Transaction, local
 <2>2. \A b \in Asset : index'[b] \in Nat /\ index[b] <= index'[b]
  <3>1. index \in [Asset -> Indices \cup {100}]
    BY DEF TypeOK
  <3>2. \/ UNCHANGED index
        \/ \E i \in Indices : i > index[a] /\ index' = [index EXCEPT ![a] = i]
    BY <1>4 DEF Transaction
  <3> QED
    BY <1>0, <3>1, <3>2, IndexType
 <2> QED
   BY <1>0, <2>1, <2>2 DEF StatsInv, TypeOK
<1>5. ASSUME NEW a \in Asset, UpsertReserveStats(a) PROVE StatsInv'
  BY <1>0, <1>5 DEF UpsertReserveStats, local, StatsInv, TypeOK
<1>6. CASE LiquidationRequest \/ ReadHealth \/ ProbePool \/ PickPool
             \/ CallLiquidatoor \/ FanaticAnswers \/ FanaticTakesAnswer
             \/ UniswapMoves \/ UNCHANGED vars
  BY <1>1, <1>6
     DEF LiquidationRequest, ReadHealth, ProbePool, PickPool, CallLiquidatoor,
         FanaticAnswers, FanaticTakesAnswer, UniswapMoves, chain, local, vars
<1> QED
  BY <1>2, <1>3, <1>4, <1>5, <1>6 DEF Next, HandlerStep, Surroundings

\* Every step keeps what the best pool is.
LEMMA BestNext == IInv /\ [Next]_vars => BestInv'
<1> SUFFICES ASSUME IInv, [Next]_vars PROVE BestInv'
  OBVIOUS
<1> USE DEF IInv
<1>1. CASE UNCHANGED <<probed, best>>
  BY <1>1 DEF BestInv
<1>2. CASE ProbePool
 <2> DEFINE n == Len(probed) + 1
            L == PoolOf(Fees[n])
 <2>1. /\ Len(probed) \in Nat /\ n \in 1..Len(Fees)
       /\ 1..n = 1..Len(probed) \cup {n}
   BY <1>2, FeesType, LenProperties DEF ProbePool, LocalInv
 <2>2. L \in Liquidities \cup {None} /\ Fees[n] # None
   BY <2>1, PoolType, FeesType, Numbers
 <2>3. /\ Len(probed') = n
       /\ probed'[n] = L
       /\ \A j \in 1..Len(probed) : probed'[j] = probed[j]
   BY <1>2, <2>2, AppendProperties DEF ProbePool, LocalInv
 <2>4. \A j \in 1..Len(probed) : probed[j] # None => probed[j] \in Nat
   BY Numbers, ElementOfSeq DEF LocalInv
 <2>5. /\ best' = IF L # None /\ L > best.liquidity
                  THEN [liquidity |-> L, fee |-> Fees[n]] ELSE best
       /\ best.liquidity \in Nat
       /\ L # None => L \in Nat
   BY <1>2, <2>2, Numbers DEF ProbePool, Better, TypeOK
 <2> HIDE DEF n, L
 <2>6. \A j \in 1..Len(probed) : probed[j] # None => probed[j] <= best.liquidity
   BY <2>1, <2>4 DEF BestInv
 <2>7. CASE L # None /\ L > best.liquidity
  <3>1. best' = [liquidity |-> L, fee |-> Fees[n]] /\ best'.fee # None
    BY <2>2, <2>5, <2>7
  <3>2. \A j \in 1..n : probed'[j] # None =>
           IF j < n THEN probed'[j] < probed'[n] ELSE probed'[j] <= probed'[n]
    BY <2>1, <2>3, <2>4, <2>5, <2>6, <2>7
  <3>3. n \in 1..n /\ probed'[n] # None /\ probed'[n] > 0
    BY <2>1, <2>3, <2>5, <2>7
  <3> QED
    BY <2>3, <3>1, <3>2, <3>3 DEF BestInv
 <2>8. CASE ~(L # None /\ L > best.liquidity)
  <3>1. best' = best
    BY <2>5, <2>8
  <3>2. L # None => L <= best.liquidity
    BY <2>5, <2>8
  <3>3. CASE best.fee = None
   <4>1. /\ best.liquidity = 0
         /\ \A j \in 1..Len(probed) : probed[j] # None => probed[j] = 0
     BY <3>3 DEF BestInv
   <4>2. \A j \in 1..n : probed'[j] # None => probed'[j] = 0
     BY <2>1, <2>3, <2>5, <3>2, <4>1
   <4> QED
     BY <2>3, <3>1, <3>3, <4>1, <4>2 DEF BestInv
  <3>4. CASE best.fee # None
   <4>1. PICK i \in 1..Len(probed) :
            /\ best = [liquidity |-> probed[i], fee |-> Fees[i]]
            /\ probed[i] # None /\ probed[i] > 0
            /\ \A j \in 1..Len(probed) : probed[j] # None =>
                  IF j < i THEN probed[j] < probed[i]
                  ELSE probed[j] <= probed[i]
     BY <3>4 DEF BestInv
   <4>2. best.liquidity = probed[i] /\ i \in 1..n /\ probed'[i] = probed[i]
     BY <2>1, <2>3, <4>1
   <4>3. \A j \in 1..n : probed'[j] # None =>
            IF j < i THEN probed'[j] < probed'[i] ELSE probed'[j] <= probed'[i]
     BY <2>1, <2>3, <2>5, <3>2, <4>1, <4>2
   <4> QED
     BY <2>3, <3>1, <3>4, <4>1, <4>2, <4>3 DEF BestInv
  <3> QED
    BY <3>3, <3>4
 <2> QED
   BY <2>7, <2>8
<1>3. CASE GiveUp \/ Notified
 <2>1. Len(probed') = 0 /\ best' = NoPool
   BY <1>3, EmptySeq DEF GiveUp, Notified, Forget
 <2> QED
   BY <2>1 DEF BestInv, NoPool
<1>4. CASE LiquidationRequest \/ ReadHealth \/ ReadIndices \/ ReadPosition
             \/ PickPool \/ CallLiquidatoor \/ Surroundings \/ UNCHANGED vars
  BY <1>1, <1>4
     DEF LiquidationRequest, ReadHealth, ReadIndices, ReadPosition, PickPool,
         CallLiquidatoor, Surroundings, FanaticAnswers, FanaticTakesAnswer,
         Transaction, UpsertReserveStats, UniswapMoves, local, vars
<1> QED
  BY <1>2, <1>3, <1>4 DEF Next, HandlerStep

\* Every step keeps what the handler has in hand.
LEMMA LocalNext == IInv /\ [Next]_vars => LocalInv'
<1> SUFFICES ASSUME IInv, [Next]_vars PROVE LocalInv'
  OBVIOUS
<1> USE DEF IInv, LocalInv
<1>1. CASE LiquidationRequest \/ ReadHealth \/ ReadIndices \/ ReadPosition
             \/ CallLiquidatoor
  BY <1>1
     DEF LiquidationRequest, ReadHealth, ReadIndices, ReadPosition,
         CallLiquidatoor, Goto, local
<1>2. CASE ProbePool
 <2>1. Len(probed) \in Nat /\ Len(probed) + 1 \in 1..Len(Fees)
   BY <1>2, FeesType, LenProperties DEF ProbePool
 <2>2. PoolOf(Fees[Len(probed) + 1]) \in Liquidities \cup {None}
   BY <2>1, PoolType
 <2>3. probed' \in Seq(Liquidities \cup {None})
   BY <1>2, <2>2, AppendProperties DEF ProbePool
 <2> QED
   BY <1>2, <2>3 DEF ProbePool
<1>3. CASE PickPool
  BY <1>3 DEF PickPool, Goto, local
<1>4. CASE GiveUp \/ Notified
  BY <1>4, EmptySeq DEF GiveUp, Notified, Forget
<1>5. CASE FanaticTakesAnswer
  BY <1>5 DEF FanaticTakesAnswer, Goto, local
<1>6. CASE UNCHANGED <<pc, local>>
  BY <1>6 DEF local
<1>7. CASE Surroundings \/ UNCHANGED vars
  BY <1>5, <1>6, <1>7
     DEF Surroundings, FanaticAnswers, Transaction, UpsertReserveStats,
         UniswapMoves, vars
<1> QED
  BY <1>1, <1>2, <1>3, <1>4, <1>7 DEF Next, HandlerStep

\* Every step keeps the sides apart.
LEMMA SidesNext == IInv /\ [Next]_vars => SidesInv'
<1> SUFFICES ASSUME IInv, [Next]_vars PROVE SidesInv'
  OBVIOUS
<1> USE DEF IInv
<1>1. CASE UNCHANGED <<picked, best>>
  BY <1>1 DEF SidesInv
<1>2. CASE ReadPosition
  BY <1>2 DEF ReadPosition, Goto, LocalInv, NoPool, SidesInv
<1>3. CASE ProbePool
  BY <1>3 DEF ProbePool, PoolOf, SidesInv
<1>4. CASE GiveUp \/ Notified
  BY <1>4 DEF GiveUp, Notified, Forget, NoPool, SidesInv
<1>5. CASE LiquidationRequest \/ ReadHealth \/ ReadIndices \/ PickPool
             \/ CallLiquidatoor \/ Surroundings \/ UNCHANGED vars
  BY <1>1, <1>5
     DEF LiquidationRequest, ReadHealth, ReadIndices, PickPool,
         CallLiquidatoor, Surroundings, FanaticAnswers, FanaticTakesAnswer,
         Transaction, UpsertReserveStats, UniswapMoves, local, vars
<1> QED
  BY <1>2, <1>3, <1>4, <1>5 DEF Next, HandlerStep

\* The inductive invariant holds for ever.
LEMMA Invariant == Spec => []IInv
<1>1. IInv /\ [Next]_vars => IInv'
  BY TypeNext, StatsNext, BestNext, LocalNext, SidesNext DEF IInv
<1> QED
  BY <1>1, InitInv, PTL DEF Spec

-----------------------------------------------------------------------------
\* What follows.

\* Whatever the chain, the database and the pools answer, what the handler has
\* in hand is an asset, an amount or a pool (executor.rs:122-189, utils.rs).
THEOREM TypeCorrect == Spec => []TypeOK
<1>1. IInv => TypeOK
  BY DEF IInv
<1> QED
  BY <1>1, Invariant, PTL

\* A liquidation is never called for one asset on both sides
\* (utils.rs:96-114, Liquidator.sol:73).
THEOREM SidesAlwaysDiffer == Spec => []SidesDiffer
<1>1. IInv => SidesDiffer
  BY DEF IInv, LocalInv, SidesInv, SidesDiffer
<1> QED
  BY <1>1, Invariant, PTL

\* The pool of a liquidation is the first of the best among the three that were
\* read, one after the other (utils.rs:96-114).
THEOREM MostLiquidIsChosen == Spec => []ChoiceIsMostLiquid
<1>1. IInv => ChoiceIsMostLiquid
 <2> SUFFICES ASSUME IInv, pc = "call"
              PROVE  \E i \in 1..Len(Fees) :
                        /\ best.fee = Fees[i]
                        /\ probed[i] # None /\ probed[i] > 0
                        /\ \A j \in 1..Len(Fees) : probed[j] # None =>
                              IF j < i THEN probed[j] < probed[i]
                              ELSE probed[j] <= probed[i]
   BY DEF ChoiceIsMostLiquid
 <2>1. Len(probed) = Len(Fees) /\ best.fee # None
   BY DEF IInv, LocalInv
 <2>2. PICK i \in 1..Len(Fees) :
          /\ best = [liquidity |-> probed[i], fee |-> Fees[i]]
          /\ probed[i] # None /\ probed[i] > 0
          /\ \A j \in 1..Len(Fees) : probed[j] # None =>
                IF j < i THEN probed[j] < probed[i]
                ELSE probed[j] <= probed[i]
   BY <2>1 DEF IInv, BestInv
 <2> QED
   BY <2>2
<1> QED
  BY <1>1, Invariant, PTL

\* However the reads of a request interleave with the chain and with the
\* Follower's writes, and whichever amounts an f64 can hold, the handler never
\* asks to cover more than the chain's own index would have given when it reads
\* the position: the indices it has from the database may be behind the chain's,
\* never ahead, and the two roundings of norm() keep their order
\* (executor.rs:132-146, utils.rs:16-21, 34-87).
THEOREM CoverStaysCurrent == Spec => CoverIsCurrent
<1>1. IInv /\ [Next]_vars =>
        [pc = "data" /\ pc' = "pool" =>
            picked'.cover <= FromF64(norm(position[picked'.debt].debt,
                                          index[picked'.debt]))]_vars
 <2> SUFFICES ASSUME IInv, Next, pc = "data", pc' = "pool"
              PROVE  picked'.cover <= FromF64(norm(position[picked'.debt].debt,
                                                   index[picked'.debt]))
   OBVIOUS
 <2>1. ReadPosition
   BY DEF Next, LiquidationRequest, HandlerStep, ReadHealth, ReadIndices,
          ProbePool, PickPool, GiveUp, CallLiquidatoor, Notified, Forget,
          Surroundings, FanaticAnswers, FanaticTakesAnswer, Transaction,
          UpsertReserveStats, UniswapMoves, Goto
 <2>2. /\ FirstDebt # None
       /\ picked'.debt = FirstDebt
       /\ picked'.cover = debt_to_cover(FromF64(NormalizedDebt))
   BY <2>1 DEF ReadPosition
 <2> QED
   BY <2>2, CoverBound DEF IInv
<1> QED
  BY <1>1, Invariant, PTL DEF Spec, CoverIsCurrent

-----------------------------------------------------------------------------
\* The refinement.

\* Where Executor sees the handler of the one user.
LEMMA RequestMoves ==
    ASSUME NEW from, NEW to, Goto(from, to), from # "idle", to # "idle"
    PROVE  E!RequestAt("user", from, to)
<1>1. /\ requestBar = [l \in {"price", "user"} |->
             IF l = "user" THEN [pc |-> from, user |-> User]
             ELSE [pc |-> "idle", user |-> None]]
      /\ requestBar' = [l \in {"price", "user"} |->
             IF l = "user" THEN [pc |-> to, user |-> User]
             ELSE [pc |-> "idle", user |-> None]]
  BY DEF Goto, requestBar
<1>2. requestBar["user"].pc = from
  BY <1>1
<1>3. requestBar' = [requestBar EXCEPT !["user"].pc = to]
  BY <1>1
<1> QED
  BY <1>2, <1>3 DEF E!RequestAt

\* Its notification is the one of the user listener.
LEMMA NoteMoves ==
    /\ noteBar["user"] = note
    /\ noteBar' = [noteBar EXCEPT !["user"] = note']
  BY DEF noteBar

\* A handler that does not notify leaves the notification alone.
LEMMA NoteStays ==
    ASSUME UNCHANGED note
    PROVE  UNCHANGED noteBar
  BY DEF noteBar

\* The start of the bot is the start of Executor.
LEMMA ExecutorStart == Init => E!ExecutorInit
  BY DEF Init, requestBar, noteBar, NoNote, E!ExecutorInit, E!Listeners,
         E!NoRequest, E!NoNote

\* A request begins as SendRequest says.
LEMMA RequestBegins == LiquidationRequest => E!SendRequest("user", User)
<1> SUFFICES ASSUME LiquidationRequest PROVE E!SendRequest("user", User)
  OBVIOUS
<1>1. pc = "idle" /\ pc' = "rpc" /\ note' = NoNote
  BY DEF LiquidationRequest, Goto
<1>2. requestBar' =
         [requestBar EXCEPT !["user"] = [pc |-> "rpc", user |-> User]]
  BY <1>1 DEF requestBar
<1>3. noteBar' = [noteBar EXCEPT !["user"] = E!NoNote]
  BY <1>1, NoteMoves DEF NoNote, E!NoNote
<1> QED
  BY <1>2, <1>3 DEF E!SendRequest

\* Every step of the handler is one of Executor, or within one of its reads.
LEMMA HandlerImplements ==
    HandlerStep => E!ExecutorStep("user") \/ UNCHANGED <<pc, note>>
<1> SUFFICES ASSUME HandlerStep
             PROVE  E!ExecutorStep("user") \/ UNCHANGED <<pc, note>>
  OBVIOUS
<1>1. CASE ReadHealth
 <2>1. E!RequestAt("user", "rpc", "indices") /\ UNCHANGED noteBar
   BY <1>1, RequestMoves, NoteStays DEF ReadHealth, Goto
 <2>2. 95 \in {95, 2000000} /\ 95 \in E!Plausible
   BY DEF E!Plausible, E!SanityCap
 <2>3. \E h \in {95, 2000000} :
          E!RequestAt("user", "rpc",
                      IF h \in E!Plausible THEN "indices" ELSE "replied")
   BY <2>1, <2>2
 <2> QED
   BY <2>1, <2>3 DEF E!ExecutorStep, E!RequestUserHealth
<1>2. ASSUME NEW from \in {"indices", "data", "pool"},
             Goto(from, E!NextRead[from]), UNCHANGED note
      PROVE  E!ExecutorStep("user")
 <2>1. E!NextRead[from] # "idle" /\ from \in DOMAIN E!NextRead
   BY <1>2 DEF E!NextRead
 <2>2. E!RequestAt("user", from, E!NextRead[from]) /\ UNCHANGED noteBar
   BY <1>2, <2>1, RequestMoves, NoteStays
 <2>3. requestBar["user"].pc = from
   BY <2>2 DEF E!RequestAt
 <2> QED
   BY <2>1, <2>2, <2>3 DEF E!ExecutorStep, E!RequestRead
<1>3. CASE ReadIndices
 <2>1. E!NextRead["indices"] = "data"
   BY DEF E!NextRead
 <2> QED
   BY <1>2, <1>3, <2>1 DEF ReadIndices
<1>4. CASE ReadPosition
 <2>1. E!NextRead["data"] = "pool"
   BY DEF E!NextRead
 <2> QED
   BY <1>2, <1>4, <2>1 DEF ReadPosition
<1>5. CASE ProbePool
  BY <1>5 DEF ProbePool
<1>6. CASE PickPool
 <2>1. E!NextRead["pool"] = "call"
   BY DEF E!NextRead
 <2> QED
   BY <1>2, <1>6, <2>1 DEF PickPool
<1>7. CASE GiveUp
 <2>1. /\ pc \in {"rpc", "indices", "data", "pool"}
       /\ Goto(pc, "replied") /\ UNCHANGED note
   BY <1>7 DEF GiveUp, Forget, Goto
 <2>2. E!RequestAt("user", pc, "replied") /\ UNCHANGED noteBar
   BY <2>1, RequestMoves, NoteStays
 <2>3. CASE pc = "rpc"
   BY <2>2, <2>3 DEF E!ExecutorStep, E!RequestPanics
 <2>4. CASE pc # "rpc"
  <3>1. pc \in DOMAIN E!NextRead
    BY <2>1, <2>4 DEF E!NextRead
  <3>2. requestBar["user"].pc = pc
    BY <2>2 DEF E!RequestAt
  <3> QED
    BY <2>2, <3>1, <3>2 DEF E!ExecutorStep, E!RequestGivesUp
 <2> QED
   BY <2>3, <2>4
<1>8. CASE CallLiquidatoor
 <2>1. E!RequestAt("user", "call", "notify")
   BY <1>8, RequestMoves DEF CallLiquidatoor, Goto
 <2>2. \E outcome \in {"success", "failure"} :
          noteBar' = [noteBar EXCEPT !["user"] =
                         [outcome |-> outcome, at |-> "sent"]]
   BY <1>8, NoteMoves DEF CallLiquidatoor
 <2> QED
   BY <2>1, <2>2 DEF E!ExecutorStep, E!CallLiquidatoor
<1>9. CASE Notified
 <2>1. Goto("notify", "replied") /\ note.at = "done" /\ UNCHANGED note
   BY <1>9 DEF Notified, Forget, Goto
 <2>2. E!RequestAt("user", "notify", "replied") /\ UNCHANGED noteBar
   BY <2>1, RequestMoves, NoteStays
 <2> QED
   BY <2>1, <2>2, NoteMoves DEF E!ExecutorStep, E!RequestNotified
<1> QED
  BY <1>1, <1>3, <1>4, <1>5, <1>6, <1>7, <1>8, <1>9 DEF HandlerStep

\* The handler of a LiquidationRequest, read by read (executor.rs:122-189),
\* does to the request and to its notification what Executor says.
THEOREM RequestIsExecutors == Spec => ImplementsExecutor
<1>1. [Next]_vars =>
        [\/ UNCHANGED <<pc, note>>
         \/ E!ExecutorStep("user") \/ E!SendRequest("user", User)
         \/ UNCHANGED pc /\ note.at = "sent"
         \/ pc = "replied" /\ UNCHANGED note]_vars
  BY RequestBegins, HandlerImplements
     DEF Next, Surroundings, FanaticAnswers, FanaticTakesAnswer, Goto,
         Transaction, UpsertReserveStats, UniswapMoves
<1> QED
  BY <1>1, ExecutorStart, PTL DEF Spec, ImplementsExecutor
=============================================================================
