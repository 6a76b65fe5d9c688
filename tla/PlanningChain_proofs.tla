------------------------- MODULE PlanningChain_proofs -------------------------
(***************************************************************************)
(* Proofs about AggregatePlanning, PlanningChain and HotOrder: the split   *)
(* of a plan, its capacity, its books, the material orders and the lots,   *)
(* for any products, machines, materials, weeks, forecasts and quantities. *)
(***************************************************************************)
EXTENDS HotOrder, FiniteLemmas

-----------------------------------------------------------------------------
(* disaggregate_to_sku: the split of a family's batches over its products. *)

LEMMA Finite ==
    /\ IsFiniteSet(Products) /\ IsFiniteSet(Machines) /\ IsFiniteSet(Families)
    /\ \A f \in Families : Members(f) \in SUBSET Products /\ IsFiniteSet(Members(f)) /\ Members(f) # {}
  <1>1. ASSUME NEW S, NEW s \in Seq(S), S = ToSet(s) PROVE IsFiniteSet(S)
    <2>1. Len(s) \in Nat /\ DOMAIN s = 1..Len(s)
      OBVIOUS
    <2>2. IsFiniteSet(1..Len(s))
      BY <2>1, FS_Interval
    <2>3. s \in Surjection(1..Len(s), S)
      BY <1>1, <2>1 DEF ToSet, Surjection
    <2> QED BY <2>2, <2>3, FS_Surjection
  <1>2. IsFiniteSet(Products)
    BY <1>1, PlanAssumption DEF Products
  <1>3. IsFiniteSet(Machines) /\ IsFiniteSet(Families)
    BY <1>1, PlanAssumption DEF Machines, Families
  <1>4. \A f \in Families : Members(f) \in SUBSET Products /\ Members(f) # {}
    BY PlanAssumption DEF Members
  <1> QED BY <1>2, <1>3, <1>4, FS_Subset

ForecastTyped == forecast \in [Products -> [Weeks -> Nat]]
TargetTyped == target \in [Families -> [Weeks -> Nat]]

LEMMA Weights ==
    ASSUME ForecastTyped, NEW f \in Families, NEW w \in Weeks,
           NEW g, g = [p \in Members(f) |-> Weight(p, w)]
    PROVE  /\ \A p \in Members(f) : Weight(p, w) \in Nat
           /\ FamilyWeight(f, w) = Total(g, Members(f))
           /\ FamilyWeight(f, w) \in Nat \ {0}
  <1> DEFINE u == [p \in Members(f) |-> forecast[p][w]]
  <1>1. \A p \in Members(f) : p \in Products /\ FamilyOf[p] = f /\ forecast[p][w] \in Nat
    BY DEF Members, ForecastTyped
  <1>2. FamilyUnits(f, w) = Total(u, Members(f)) /\ FamilyUnits(f, w) \in Nat
    <2>1. DOMAIN u = Members(f) /\ \A p \in Members(f) : u[p] \in Nat
      BY <1>1
    <2>2. FamilyUnits(f, w) = SumFunction(u)
      BY DEF FamilyUnits
    <2> HIDE DEF u
    <2> QED BY <2>1, <2>2, SumIsTotal, TotalNatural, Finite
  <1>3. \A p \in Members(f) : g[p] = Weight(p, w) /\ Weight(p, w) \in Nat
    BY <1>1 DEF Weight
  <1>4. FamilyWeight(f, w) = Total(g, Members(f)) /\ FamilyWeight(f, w) \in Nat
    <2>1. DOMAIN g = Members(f) /\ FamilyWeight(f, w) = SumFunction(g)
      BY DEF FamilyWeight
    <2> QED BY <1>3, <2>1, SumIsTotal, TotalNatural, Finite
  <1>5. FamilyWeight(f, w) # 0
    <2>1. CASE FamilyUnits(f, w) = 0
      <3>1. \A p \in Members(f) : g[p] = IF p \in Members(f) THEN 1 ELSE 0
        BY <1>1, <1>3, <2>1 DEF Weight
      <3>2. Members(f) \in SUBSET Members(f) /\ 1 \in Int /\ IsFiniteSet(Members(f))
        BY Finite
      <3>3. Total(g, Members(f)) = 1 * Cardinality(Members(f))
        BY <3>1, <3>2, TotalCounts
      <3>4. Cardinality(Members(f)) \in Nat /\ Cardinality(Members(f)) # 0
        BY Finite, FS_CardinalityType, FS_EmptySet
      <3> QED BY <1>4, <3>3, <3>4
    <2>2. CASE FamilyUnits(f, w) # 0
      <3>1. \A p \in Members(f) : g[p] = u[p]
        BY <1>1, <1>3, <2>2 DEF Weight
      <3>2. IntegersOn(u, Members(f)) /\ AgreeOn(g, u, Members(f))
        BY <1>1, <3>1 DEF IntegersOn, AgreeOn
      <3> HIDE DEF u
      <3>3. Total(g, Members(f)) = Total(u, Members(f))
        BY <3>2, TotalSame, Finite
      <3> QED BY <1>2, <1>4, <2>2, <3>3
    <2> QED BY <2>1, <2>2
  <1> QED BY <1>3, <1>4, <1>5

\* The order in which the missing batches are handed out.
ServingOrder(f, w) == {pair \in Members(f) \X Members(f) : ServedBefore(pair[1], pair[2], w)}

LEMMA Ranks == \A p, q \in Products : Rank(p) \in Nat /\ (Rank(p) = Rank(q) => p = q)
  <1>1. ASSUME NEW p \in Products
        PROVE  Rank(p) \in DOMAIN ProductSeq /\ ProductSeq[Rank(p)] = p
    <2>1. \E i \in DOMAIN ProductSeq : ProductSeq[i] = p
      BY DEF Products, ToSet
    <2> QED BY <2>1 DEF Rank
  <1>2. DOMAIN ProductSeq \subseteq Nat
    BY PlanAssumption
  <1> QED BY <1>1, <1>2

LEMMA SharesTyped ==
    ASSUME ForecastTyped, TargetTyped, NEW f \in Families, NEW w \in Weeks, NEW p \in Members(f)
    PROVE  /\ FamilyOf[p] = f /\ Share(p, w) \in Nat /\ Share(p, w) = target[f][w] * Weight(p, w)
           /\ Floor(p, w) \in Nat /\ Remainder(p, w) \in 0..(FamilyWeight(f, w) - 1)
           /\ Share(p, w) = FamilyWeight(f, w) * Floor(p, w) + Remainder(p, w)
  <1>1. FamilyOf[p] = f
    BY DEF Members
  <1>2. PICK t \in Nat, v \in Nat : t = target[f][w] /\ v = Weight(p, w)
    BY Weights DEF TargetTyped
  <1>3. Share(p, w) = t * v /\ t * v \in Nat
    BY <1>1, <1>2 DEF Share
  <1>4. PICK d \in Nat \ {0} : d = FamilyWeight(f, w)
    BY Weights
  <1>5. PICK s \in Nat : s = Share(p, w)
    BY <1>3
  <1>6. Floor(p, w) = s \div d /\ Remainder(p, w) = s % d
    BY <1>1, <1>4, <1>5 DEF Floor, Remainder
  <1>7. s \div d \in Nat /\ s % d \in 0..(d - 1) /\ s = d * (s \div d) + (s % d)
    <2>1. s \in Int /\ s >= 0
      OBVIOUS
    <2>2. s \div d \in Int /\ s \div d >= 0
      BY <2>1, Division
    <2> QED BY <2>1, <2>2, Division
  <1> QED BY <1>1, <1>2, <1>3, <1>4, <1>5, <1>6, <1>7

LEMMA ServingIsOrder ==
    ASSUME ForecastTyped, TargetTyped, NEW f \in Families, NEW w \in Weeks
    PROVE  Orders2(ServingOrder(f, w), Members(f))
  <1>1. \A p \in Members(f) : Remainder(p, w) \in Int /\ Rank(p) \in Nat
    BY SharesTyped, Weights, Ranks, Finite
  <1>2. \A p, q \in Members(f) : Rank(p) = Rank(q) => p = q
    BY Ranks, Finite
  <1>3. \A p, q \in Members(f) : <<p, q>> \in ServingOrder(f, w) <=> ServedBefore(p, q, w)
    BY DEF ServingOrder
  <1>4. \A p \in Members(f) : ~ServedBefore(p, p, w)
    BY <1>1 DEF ServedBefore
  <1>5. \A p, q \in Members(f) : p # q => ServedBefore(p, q, w) \/ ServedBefore(q, p, w)
    BY <1>1, <1>2 DEF ServedBefore
  <1>6. \A p, q, r \in Members(f) : ServedBefore(p, q, w) /\ ServedBefore(q, r, w) => ServedBefore(p, r, w)
    BY <1>1 DEF ServedBefore
  <1> QED BY <1>3, <1>4, <1>5, <1>6 DEF Orders2
LEMMA MissingBounds ==
    ASSUME NEW W \in Nat \ {0}, NEW missing \in Int, NEW k \in Nat,
           0 <= W * missing, W * missing <= (W - 1) * k
    PROVE  missing \in 0..k
  <1>1. missing >= 0
    <2>1. SUFFICES ASSUME missing <= -1 PROVE FALSE
      OBVIOUS
    <2>2. W * missing <= W * (-1)
      BY <2>1
    <2> QED BY <2>2
  <1>2. missing <= k
    <2>1. SUFFICES ASSUME missing >= k + 1 PROVE FALSE
      OBVIOUS
    <2>2. W * missing >= W * (k + 1)
      BY <2>1
    <2>3. W * (k + 1) = W * k + W /\ (W - 1) * k = W * k - k
      OBVIOUS
    <2>4. W * k \in Int /\ W * missing \in Int
      OBVIOUS
    <2> QED BY <2>2, <2>3, <2>4
  <1> QED BY <1>1, <1>2

\* What the whole shares leave is less than one batch per remainder.
Left(f, w) == {p \in Members(f) : Remainder(p, w) > 0}

LEMMA WholeShares ==
    ASSUME ForecastTyped, TargetTyped, NEW f \in Families, NEW w \in Weeks,
           NEW fl, fl = [p \in Members(f) |-> Floor(p, w)]
    PROVE  /\ Total(fl, Members(f)) \in Nat
           /\ Missing(f, w) = target[f][w] - Total(fl, Members(f))
           /\ IsFiniteSet(Left(f, w)) /\ Missing(f, w) \in 0..Cardinality(Left(f, w))
           /\ Cardinality(Left(f, w)) <= Cardinality(Members(f))
  <1> DEFINE M == Members(f)
             rm == [p \in M |-> Remainder(p, w)]
             sh == [p \in M |-> Share(p, w)]
             wt == [p \in M |-> Weight(p, w)]
             no == [p \in M |-> IF p \in {} THEN 0 ELSE 0]
  <1>1. PICK W \in Nat \ {0} : W = FamilyWeight(f, w)
    BY Weights
  <1>2. PICK t \in Nat : t = target[f][w]
    BY DEF TargetTyped
  <1>3. IsFiniteSet(M)
    BY Finite
  <1>4. \A p \in M : /\ fl[p] \in Nat /\ rm[p] \in 0..(W - 1) /\ wt[p] \in Nat
                     /\ sh[p] = t * wt[p] + no[p] /\ sh[p] = W * fl[p] + rm[p]
    <2> SUFFICES ASSUME NEW p \in M
                 PROVE  /\ Floor(p, w) \in Nat /\ Remainder(p, w) \in 0..(W - 1) /\ Weight(p, w) \in Nat
                        /\ Share(p, w) = t * Weight(p, w) + 0
                        /\ Share(p, w) = W * Floor(p, w) + Remainder(p, w)
      OBVIOUS
    <2>1. Weight(p, w) \in Nat
      BY Weights
    <2> QED BY <1>1, <1>2, <2>1, SharesTyped
  <1> HIDE DEF M, rm, sh, wt, no
  <1>5. IntegersOn(fl, M) /\ IntegersOn(rm, M) /\ IntegersOn(wt, M)
    <2>1. ASSUME NEW p \in M PROVE fl[p] \in Int /\ rm[p] \in Int /\ wt[p] \in Int
      <3>1. fl[p] \in Nat /\ rm[p] \in 0..(W - 1) /\ wt[p] \in Nat
        BY <1>4
      <3> QED BY <3>1
    <2> QED BY <2>1 DEF IntegersOn
  <1>6. Total(no, M) = 0 /\ IntegersOn(no, M)
    <2>1. \A p \in M : no[p] = IF p \in {} THEN 0 ELSE 0
      BY DEF no
    <2>2. Total(no, M) = 0 * Cardinality({})
      BY <1>3, <2>1, TotalCounts
    <2> QED BY <2>1, <2>2, FS_EmptySet DEF IntegersOn
  <1>7. Total(wt, M) = W
    BY <1>1, Weights DEF wt, M
  <1>8. Total(sh, M) = t * W
    <2>1. Combines(sh, t, wt, no, M)
      BY <1>4 DEF Combines
    <2>2. Total(sh, M) = t * Total(wt, M) + Total(no, M)
      BY <1>3, <1>5, <1>6, <2>1, TotalLinear
    <2> QED BY <1>6, <1>7, <2>2
  <1>9. PICK F \in Nat : F = Total(fl, M)
    BY <1>3, <1>4, TotalNatural
  <1>10. PICK R \in Nat : R = Total(rm, M)
    <2>1. \A p \in M : rm[p] \in Nat
      BY <1>4
    <2> QED BY <1>3, <2>1, TotalNatural
  <1>11. t * W = W * F + R
    <2>1. Combines(sh, W, fl, rm, M)
      BY <1>4 DEF Combines
    <2> QED BY <1>3, <1>5, <1>8, <1>9, <1>10, <2>1, TotalLinear
  <1>12. Missing(f, w) = t - F
    <2>1. DOMAIN fl = M /\ SumFunction(fl) = Total(fl, M)
      BY <1>3, <1>5, SumIsTotal DEF M, IntegersOn
    <2> QED BY <1>2, <1>9, <2>1 DEF Missing, M
  <1>13. W * (t - F) = R
    BY <1>11
  <1>14. IsFiniteSet(Left(f, w)) /\ Left(f, w) \in SUBSET M /\ Cardinality(Left(f, w)) <= Cardinality(M)
    <2>1. Left(f, w) \in SUBSET M
      BY DEF Left, M
    <2> QED BY <1>3, <2>1, FS_Subset
  <1>15. PICK k \in Nat : k = Cardinality(Left(f, w))
    BY <1>14, FS_CardinalityType
  <1>16. R <= (W - 1) * k
    <2> DEFINE top == [p \in M |-> IF p \in Left(f, w) THEN W - 1 ELSE 0]
    <2>1. \A p \in M : rm[p] \in Int /\ top[p] \in Int /\ rm[p] <= top[p]
      BY <1>4 DEF Left, rm, M
    <2>2. \A p \in M : top[p] = IF p \in Left(f, w) THEN W - 1 ELSE 0
      OBVIOUS
    <2> HIDE DEF top
    <2>3. Total(rm, M) <= Total(top, M)
      BY <1>3, <2>1, TotalMonotone
    <2>4. W - 1 \in Int
      OBVIOUS
    <2>5. Total(top, M) = (W - 1) * Cardinality(Left(f, w))
      BY <1>3, <1>14, <2>2, <2>4, TotalCounts
    <2> QED BY <1>10, <1>15, <2>3, <2>5
  <1>17. t - F \in 0..k
    <2>1. 0 <= W * (t - F) /\ W * (t - F) <= (W - 1) * k /\ t - F \in Int
      BY <1>13, <1>16
    <2> QED BY <2>1, MissingBounds
  <1> QED BY <1>2, <1>9, <1>12, <1>14, <1>15, <1>17 DEF M
Extra(f, w) == {p \in Members(f) : Cardinality(Ahead(p, w)) < Missing(f, w)}

LEMMA ExtraBatches ==
    ASSUME ForecastTyped, TargetTyped, NEW f \in Families, NEW w \in Weeks
    PROVE  /\ IsFiniteSet(Extra(f, w)) /\ Cardinality(Extra(f, w)) = Missing(f, w)
           /\ \A p \in Extra(f, w) : Remainder(p, w) > 0
  <1> DEFINE M == Members(f)
             B == ServingOrder(f, w)
             pos == [p \in M |-> Cardinality(Before(B, M, p))]
  <1>1. IsFiniteSet(M) /\ Orders2(B, M)
    BY Finite, ServingIsOrder
  <1>2. \A p \in M : Before(B, M, p) = Ahead(p, w)
    <2> TAKE p \in M
    <2>1. FamilyOf[p] = f
      BY DEF Members
    <2> QED BY <2>1 DEF Before, ServingOrder, Ahead
  <1> HIDE DEF M, B
  <1>3. pos \in Bijection(M, 0..(Cardinality(M) - 1))
    BY <1>1, PlacesInOrder
  <1>4. PICK n \in Nat : n = Cardinality(M)
    BY <1>1, FS_CardinalityType
  <1>5. PICK k \in 0..n : k = Missing(f, w)
    <2>1. Missing(f, w) \in 0..Cardinality(Left(f, w)) /\ Cardinality(Left(f, w)) <= n
          /\ IsFiniteSet(Left(f, w))
      BY <1>4, WholeShares DEF M
    <2>2. Cardinality(Left(f, w)) \in Nat
      BY <2>1, FS_CardinalityType
    <2> QED BY <2>1, <2>2
  <1>6. Cardinality({p \in M : pos[p] < k}) = k
    <2> HIDE DEF pos
    <2> QED BY <1>1, <1>3, <1>4, FirstOfThem
  <1>7. {p \in M : pos[p] < k} = Extra(f, w)
    BY <1>2, <1>5 DEF Extra, M
  <1>8. IsFiniteSet(Extra(f, w))
    <2>1. Extra(f, w) \in SUBSET M
      BY DEF Extra, M
    <2> QED BY <1>1, <2>1, FS_Subset
  <1>9. ASSUME NEW p \in Extra(f, w) PROVE Remainder(p, w) > 0
    <2>1. p \in M /\ Cardinality(Ahead(p, w)) < Missing(f, w)
      BY DEF Extra, M
    <2>2. \A q \in M : Remainder(q, w) \in Int /\ Remainder(q, w) >= 0
      BY SharesTyped, Weights DEF M
    <2>3. SUFFICES ASSUME Remainder(p, w) = 0 PROVE FALSE
      BY <2>1, <2>2
    <2>4. Left(f, w) \in SUBSET Ahead(p, w)
      <3>1. FamilyOf[p] = f
        BY <2>1 DEF M, Members
      <3> QED BY <2>3, <3>1 DEF Left, Ahead, ServedBefore
    <2>5. IsFiniteSet(Ahead(p, w))
      <3>1. Before(B, M, p) \in SUBSET M
        BY DEF Before
      <3> QED BY <1>1, <1>2, <2>1, <3>1, FS_Subset
    <2>6. /\ Cardinality(Left(f, w)) <= Cardinality(Ahead(p, w))
          /\ Cardinality(Left(f, w)) \in Nat /\ Cardinality(Ahead(p, w)) \in Nat
      BY <2>4, <2>5, FS_Subset, FS_CardinalityType
    <2>7. Missing(f, w) \in 0..Cardinality(Left(f, w))
      BY WholeShares
    <2> QED BY <2>1, <2>6, <2>7
  <1> QED BY <1>5, <1>6, <1>7, <1>8, <1>9

\* Nothing is lost or invented, and no product is a whole batch off its share.
LEMMA SplitLemma ==
    ASSUME ForecastTyped, TargetTyped, NEW f \in Families, NEW w \in Weeks,
           NEW al, al = [p \in Members(f) |-> Allocation(p, w)]
    PROVE  /\ \A p \in Members(f) : Allocation(p, w) \in Nat
           /\ Total(al, Members(f)) = target[f][w]
           /\ \A p \in Members(f) :
                LET gap == Allocation(p, w) * FamilyWeight(f, w) - Share(p, w)
                IN gap < FamilyWeight(f, w) /\ -gap < FamilyWeight(f, w)
  <1> DEFINE M == Members(f)
             fl == [p \in M |-> Floor(p, w)]
             one == [p \in M |-> IF p \in Extra(f, w) THEN 1 ELSE 0]
  <1>1. IsFiniteSet(M)
    BY Finite
  <1>2. \A p \in M : Allocation(p, w) = Floor(p, w) + (IF p \in Extra(f, w) THEN 1 ELSE 0)
    <2> TAKE p \in M
    <2>1. FamilyOf[p] = f
      BY DEF Members
    <2> QED BY <2>1 DEF Allocation, Extra
  <1>3. \A p \in M : Floor(p, w) \in Nat
    BY SharesTyped
  <1>4. \A p \in M : Allocation(p, w) \in Nat
    BY <1>2, <1>3
  <1>5. Total(al, M) = target[f][w]
    <2>1. IntegersOn(fl, M) /\ IntegersOn(one, M)
      BY <1>3 DEF IntegersOn
    <2>2. Combines(al, 1, one, fl, M)
      <3>1. \A p \in M : al[p] = 1 * one[p] + fl[p]
        BY <1>2, <1>3
      <3> QED BY <3>1 DEF Combines
    <2>3. \A p \in M : one[p] = IF p \in Extra(f, w) THEN 1 ELSE 0
      OBVIOUS
    <2>4. Total(fl, M) \in Nat /\ Missing(f, w) = target[f][w] - Total(fl, M)
      BY WholeShares
    <2> HIDE DEF M, fl, one
    <2>5. Total(al, M) = 1 * Total(one, M) + Total(fl, M)
      BY <1>1, <2>1, <2>2, TotalLinear
    <2>6. Total(one, M) = 1 * Cardinality(Extra(f, w))
      <3>1. Extra(f, w) \in SUBSET M
        BY DEF Extra, M
      <3> QED BY <1>1, <2>3, <3>1, TotalCounts
    <2>7. Cardinality(Extra(f, w)) = Missing(f, w)
      BY ExtraBatches
    <2>8. PICK t \in Nat : t = target[f][w]
      BY DEF TargetTyped
    <2> QED BY <2>4, <2>5, <2>6, <2>7, <2>8
  <1>6. ASSUME NEW p \in M
        PROVE  /\ Allocation(p, w) * FamilyWeight(f, w) - Share(p, w) < FamilyWeight(f, w)
               /\ -(Allocation(p, w) * FamilyWeight(f, w) - Share(p, w)) < FamilyWeight(f, w)
    <2>1. PICK W \in Nat \ {0} : W = FamilyWeight(f, w)
      BY Weights
    <2>2. PICK q \in Nat, r \in 0..(W - 1) : q = Floor(p, w) /\ r = Remainder(p, w) /\ Share(p, w) = W * q + r
      BY <2>1, SharesTyped
    <2>3. CASE p \in Extra(f, w)
      <3>1. Allocation(p, w) = q + 1 /\ r > 0
        BY <1>2, <2>2, <2>3, ExtraBatches
      <3>2. (q + 1) * W - (W * q + r) = W - r
        OBVIOUS
      <3> QED BY <2>1, <2>2, <3>1, <3>2
    <2>4. CASE p \notin Extra(f, w)
      <3>1. Allocation(p, w) = q
        BY <1>2, <2>2, <2>4
      <3>2. q * W - (W * q + r) = -r
        OBVIOUS
      <3> QED BY <2>1, <2>2, <3>1, <3>2
    <2> QED BY <2>3, <2>4
  <1> QED BY <1>4, <1>5, <1>6
-----------------------------------------------------------------------------
(* Rounding, and the overtime the programme records.                       *)

LEMMA NotNegative ==
    ASSUME NEW a \in Int
    PROVE  Max0(a) = (IF a > 0 THEN a ELSE 0) /\ Max0(a) \in Nat
  <1>1. Max({0, a}) = IF 0 >= a THEN 0 ELSE a
    BY Larger
  <1> QED BY <1>1 DEF Max0

LEMMA RoundedBounds ==
    ASSUME NEW n \in Nat, NEW d \in Nat \ {0}
    PROVE  /\ Rounded(n, d) \in Nat
           /\ \A k \in Nat : n <= k * d => Rounded(n, d) <= k
  <1>1. PICK q \in Nat, r \in 0..(d - 1) : q = n \div d /\ r = n % d /\ n = d * q + r
    BY Division, SMTT(30)
  <1>2. Rounded(n, d) = q \/ (Rounded(n, d) = q + 1 /\ 2 * r >= d)
    BY <1>1 DEF Rounded
  <1>3. ASSUME NEW k \in Nat, n <= k * d PROVE Rounded(n, d) <= k
    <2>1. q <= k
      <3>1. SUFFICES ASSUME q >= k + 1 PROVE FALSE
        OBVIOUS
      <3>2. d * q >= d * (k + 1)
        BY <3>1
      <3>3. d * (k + 1) = k * d + d
        OBVIOUS
      <3> QED BY <1>1, <1>3, <3>2, <3>3
    <2>2. q = k => r = 0
      BY <1>1, <1>3
    <2> QED BY <1>2, <2>1, <2>2
  <1> QED BY <1>2, <1>3

\* Rounding is off by half a unit at most.
LEMMA RoundedNear ==
    ASSUME NEW n \in Nat, NEW d \in Nat \ {0}
    PROVE  2 * (d * Rounded(n, d)) <= 2 * n + d /\ 2 * n <= 2 * (d * Rounded(n, d)) + d
  <1>1. PICK q \in Nat, r \in 0..(d - 1) : q = n \div d /\ r = n % d /\ n = d * q + r
    BY Division, SMTT(30)
  <1>2. \/ Rounded(n, d) = q /\ 2 * r <= d
        \/ Rounded(n, d) = q + 1 /\ 2 * r >= d
    BY <1>1 DEF Rounded
  <1>3. d * (q + 1) = d * q + d
    OBVIOUS
  <1>4. PICK m \in Nat : m = d * q
    OBVIOUS
  <1> QED BY <1>1, <1>2, <1>3, <1>4

LEMMA RoundedUpBounds ==
    ASSUME NEW n \in Nat, NEW d \in Nat \ {0}
    PROVE  /\ RoundedUp(n, d) \in Nat
           /\ n <= RoundedUp(n, d) * d /\ RoundedUp(n, d) * d < n + d
           /\ RoundedUp(n, d) = 0 <=> n = 0
  <1>1. n + d - 1 \in Int /\ n + d - 1 >= 0
    OBVIOUS
  <1>2. PICK q \in Nat, r \in 0..(d - 1) : q = (n + d - 1) \div d /\ n + d - 1 = d * q + r
    BY <1>1, Division
  <1>3. RoundedUp(n, d) = q
    BY <1>2 DEF RoundedUp
  <1>4. n <= q * d /\ q * d < n + d
    BY <1>2
  <1>5. q = 0 <=> n = 0
    <2>1. q = 0 => q * d = 0
      OBVIOUS
    <2>2. n = 0 /\ q >= 1 => FALSE
      <3>1. SUFFICES ASSUME n = 0, q >= 1 PROVE FALSE
        OBVIOUS
      <3>2. d * q >= d
        BY <3>1
      <3> QED BY <1>2, <3>1, <3>2
    <2> QED BY <1>4, <2>1, <2>2
  <1> QED BY <1>3, <1>4, <1>5

LEMMA OvertimeInCalendar ==
    ASSUME NEW num \in Nat, NEW den \in Nat \ {0}, num <= MaxOvertime * den
    PROVE  OvertimeAsPlanned(num, den) \in 0..MaxOvertime
  <1>1. Tenth \in Nat \ {0} /\ MaxOvertime \in Nat /\ MaxOvertime % Tenth = 0
    BY PlanAssumption DEF Tenth
  <1>2. PICK t \in Nat \ {0} : t = Tenth
    BY <1>1
  <1>3. PICK k \in Nat : k = MaxOvertime \div t /\ MaxOvertime = t * k
    <2>1. MaxOvertime \in Int /\ MaxOvertime >= 0
      BY <1>1
    <2>2. MaxOvertime \div t \in Int /\ MaxOvertime \div t >= 0 /\ MaxOvertime = t * (MaxOvertime \div t) + (MaxOvertime % t)
      BY <2>1, Division
    <2> QED BY <1>1, <1>2, <2>2
  <1>4. den * t \in Nat \ {0} /\ num <= k * (den * t)
    <2>1. (t * k) * den = k * (den * t)
      OBVIOUS
    <2> QED BY <1>3, <2>1
  <1>5. PICK r \in Nat : r = Rounded(num, den * t) /\ r <= k
    BY <1>4, RoundedBounds
  <1>6. t * r <= t * k /\ t * r \in Nat
    BY <1>5
  <1> QED BY <1>2, <1>3, <1>5, <1>6 DEF OvertimeAsPlanned

\* A product of positive numbers is positive and a multiple of each.
LEMMA ProductPositive ==
    ASSUME NEW g, IsFiniteSet(DOMAIN g), \A x \in DOMAIN g : g[x] \in Nat \ {0}
    PROVE  /\ FoldFunction(LAMBDA x, y : x * y, 1, g) \in Nat \ {0}
           /\ \A x \in DOMAIN g : \E k \in Nat : FoldFunction(LAMBDA y, z : y * z, 1, g) = k * g[x]
  <1> DEFINE S == DOMAIN g
             choice == [s \in SUBSET S |-> First(s)]
             F == [p \in S \X Nat |-> g[p[1]] * p[2]]
             Own(h) == h = [s \in SUBSET S |-> IF s = {} THEN 1 ELSE g[First(s)] * h[s \ {First(s)}]]
  <1>1. \A s \in SUBSET S : s # {} => choice[s] \in s /\ choice[s] = First(s)
    BY DEF First
  <1>2. PICK h : Folds(h, F, 1, choice, S)
    <2> HIDE DEF choice, F
    <2> QED BY <1>1, FoldExists
  <1>3. \A s \in SUBSET S : h[s] = IF s = {} THEN 1 ELSE F[<<First(s), h[s \ {First(s)}]>>]
    <2> HIDE DEF choice, F
    <2> QED BY <1>1, <1>2 DEF Folds
  <1>4. \A x \in S, i \in Nat \ {0} : F[<<x, i>>] = g[x] * i /\ g[x] * i \in Nat \ {0}
    OBVIOUS
  <1>5. ASSUME NEW k, \A s \in SUBSET S : s # {} /\ k[s \ {First(s)}] \in Nat \ {0} => k[s] \in Nat \ {0},
               k[{}] = 1
        PROVE  \A s \in SUBSET S : k[s] \in Nat \ {0}
    <2> DEFINE T == {s \in SUBSET S : k[s] \in Nat \ {0}}
    <2>1. ASSUME NEW s \in SUBSET S, \A r \in SUBSET s : r # s => r \in T
          PROVE  s \in T
      <3>1. CASE s = {}
        BY <1>5, <3>1
      <3>2. CASE s # {}
        <4>1. First(s) \in s
          BY <3>2 DEF First
        <4>2. s \ {First(s)} \in SUBSET s /\ s \ {First(s)} # s
          BY <4>1
        <4> QED BY <1>5, <2>1, <3>2, <4>2
      <3> QED BY <3>1, <3>2
    <2> HIDE DEF T
    <2>2. \A s \in SUBSET S : s \in T
      BY <2>1, SmallerFirst
    <2> QED BY <2>2 DEF T
  <1>6. \A s \in SUBSET S : h[s] \in Nat \ {0}
    <2> HIDE DEF F, choice
    <2>1. ASSUME NEW s \in SUBSET S, s # {}, h[s \ {First(s)}] \in Nat \ {0} PROVE h[s] \in Nat \ {0}
      <3>1. First(s) \in S
        BY <2>1 DEF First
      <3>2. PICK i \in Nat \ {0} : i = h[s \ {First(s)}]
        BY <2>1
      <3>3. h[s] = F[<<First(s), i>>]
        BY <1>3, <2>1, <3>2
      <3>4. F[<<First(s), i>>] \in Nat \ {0}
        BY <1>4, <3>1
      <3> QED BY <3>3, <3>4
    <2>2. h[{}] = 1
      BY <1>3
    <2> QED BY <1>5, <2>1, <2>2
  <1>7. Own(h)
    <2> HIDE DEF F, choice
    <2>1. \A s \in SUBSET S : s # {} => First(s) \in S /\ s \ {First(s)} \in SUBSET S
      BY DEF First
    <2>2. \A s \in SUBSET S : s # {} => F[<<First(s), h[s \ {First(s)}]>>] = g[First(s)] * h[s \ {First(s)}]
      BY <1>4, <1>6, <2>1
    <2>3. h = [s \in SUBSET S |-> h[s]]
      BY <1>2 DEF Folds
    <2> QED BY <1>3, <2>2, <2>3
  <1>8. PICK i : i = CHOOSE k : Own(k)
    OBVIOUS
  <1>9. FoldFunction(LAMBDA x, y : x * y, 1, g) = i[S]
    BY <1>8 DEF FoldFunction, FoldFunctionOnSet, MapThenFoldSet, First
  <1>10. Own(i)
    <2> HIDE DEF Own
    <2> QED BY <1>7, <1>8
  <1>11. \A s \in SUBSET S : i[s] \in Nat \ {0}
    <2>1. ASSUME NEW s \in SUBSET S, s # {}, i[s \ {First(s)}] \in Nat \ {0} PROVE i[s] \in Nat \ {0}
      <3>1. First(s) \in S /\ i[s] = g[First(s)] * i[s \ {First(s)}]
        BY <1>10, <2>1 DEF First
      <3>2. PICK a \in Nat \ {0}, b \in Nat \ {0} : a = g[First(s)] /\ b = i[s \ {First(s)}]
        BY <2>1, <3>1
      <3>3. a * b \in Nat \ {0}
        OBVIOUS
      <3> QED BY <3>1, <3>2, <3>3
    <2>2. i[{}] = 1
      BY <1>10
    <2> QED BY <1>5, <2>1, <2>2
  <1>12. \A x \in S : \E k \in Nat : i[S] = k * g[x]
    <2> DEFINE T == {s \in SUBSET S : \A x \in s : \E k \in Nat : i[s] = k * g[x]}
    <2>1. ASSUME NEW s \in SUBSET S, \A r \in SUBSET s : r # s => r \in T
          PROVE  s \in T
      <3> SUFFICES ASSUME NEW x \in s PROVE \E k \in Nat : i[s] = k * g[x]
        OBVIOUS
      <3>1. First(s) \in S /\ First(s) \in s /\ i[s] = g[First(s)] * i[s \ {First(s)}]
        BY <1>10 DEF First
      <3>2. PICK a \in Nat, b \in Nat, c \in Nat :
              a = g[First(s)] /\ b = i[s \ {First(s)}] /\ c = g[x]
        BY <1>11, <3>1
      <3>3. CASE x = First(s)
        <4>1. i[s] = b * c
          BY <3>1, <3>2, <3>3
        <4> QED BY <3>2, <4>1
      <3>4. CASE x # First(s)
        <4>1. x \in s \ {First(s)} /\ s \ {First(s)} \in SUBSET s /\ s \ {First(s)} # s
          BY <3>1, <3>4
        <4>2. PICK k \in Nat : b = k * c
          BY <2>1, <3>2, <4>1
        <4>3. i[s] = (a * k) * c /\ a * k \in Nat
          BY <3>1, <3>2, <4>2
        <4> QED BY <3>2, <4>3
      <3> QED BY <3>3, <3>4
    <2> HIDE DEF T
    <2>2. \A s \in SUBSET S : s \in T
      BY <2>1, SmallerFirst
    <2> QED BY <2>2 DEF T
  <1> QED BY <1>9, <1>11, <1>12
CutsTyped == cuts \in [Machines -> [Weeks -> Nat]]

LEMMA LoadsTyped ==
    ASSUME ForecastTyped, CutsTyped, NEW plan \in [Families -> Nat], NEW m \in Machines, NEW w \in Weeks
    PROVE  /\ Scale(w) \in Nat \ {0} /\ OvertimeNum(plan, m, w) \in Nat
           /\ LoadNum(plan, m, w) \in Nat /\ Available(m, w) \in Nat
  <1> DEFINE weight == [f \in Families |-> FamilyWeight(f, w)]
             load == [f \in Families |-> plan[f] * MixTime(f, m, w) * (Scale(w) \div FamilyWeight(f, w))]
  <1>1. \A f \in Families : FamilyWeight(f, w) \in Nat \ {0}
    BY Weights
  <1>2. Scale(w) \in Nat \ {0}
    <2>1. DOMAIN weight = Families /\ \A f \in Families : weight[f] \in Nat \ {0}
      BY <1>1
    <2>2. Scale(w) = FoldFunction(LAMBDA x, y : x * y, 1, weight)
      BY DEF Scale
    <2> HIDE DEF weight
    <2> QED BY <2>1, <2>2, ProductPositive, Finite
  <1>3. ASSUME NEW f \in Families PROVE MixTime(f, m, w) \in Nat
    <2> DEFINE mix == [p \in Members(f) |-> Weight(p, w) * Cycle[p][m]]
    <2>1. \A p \in Members(f) : mix[p] \in Nat
      <3> TAKE p \in Members(f)
      <3>1. p \in Products
        BY Finite
      <3>2. PICK a \in Nat, b \in Nat : a = Weight(p, w) /\ b = Cycle[p][m]
        BY <3>1, Weights, PlanAssumption
      <3> QED BY <3>2
    <2>2. DOMAIN mix = Members(f) /\ MixTime(f, m, w) = SumFunction(mix) /\ \A p \in Members(f) : mix[p] \in Int
      BY <2>1 DEF MixTime
    <2> HIDE DEF mix
    <2> QED BY <2>1, <2>2, SumIsTotal, TotalNatural, Finite
  <1>4. \A f \in Families : load[f] \in Nat
    <2> TAKE f \in Families
    <2>1. PICK a \in Nat, b \in Nat, c \in Nat : a = plan[f] /\ b = MixTime(f, m, w)
              /\ c = Scale(w) \div FamilyWeight(f, w)
      <3>1. Scale(w) \in Int /\ Scale(w) >= 0
        BY <1>2
      <3>2. Scale(w) \div FamilyWeight(f, w) \in Int /\ Scale(w) \div FamilyWeight(f, w) >= 0
        BY <1>1, <3>1, Division
      <3> QED BY <1>3, <3>2
    <2>2. a * b * c \in Nat
      OBVIOUS
    <2> QED BY <2>1, <2>2
  <1>5. LoadNum(plan, m, w) \in Nat
    <2>1. DOMAIN load = Families /\ LoadNum(plan, m, w) = SumFunction(load) /\ \A f \in Families : load[f] \in Int
      BY <1>4 DEF LoadNum
    <2> HIDE DEF load
    <2> QED BY <1>4, <2>1, SumIsTotal, TotalNatural, Finite
  <1>6. Available(m, w) \in Nat
    <2>1. Regular - cuts[m][w] \in Int
      BY PlanAssumption DEF CutsTyped
    <2> QED BY <2>1, NotNegative DEF Available
  <1>7. OvertimeNum(plan, m, w) \in Nat
    <2>1. PICK a \in Nat, b \in Nat, c \in Nat : a = LoadNum(plan, m, w) /\ b = Available(m, w) /\ c = Scale(w)
      BY <1>2, <1>5, <1>6
    <2>2. a - b * c \in Int
      OBVIOUS
    <2>3. Max0(a - b * c) \in Nat
      BY <2>2, NotNegative
    <2> QED BY <2>1, <2>3 DEF OvertimeNum
  <1> QED BY <1>2, <1>5, <1>6, <1>7

-----------------------------------------------------------------------------
(* The rows of a machine in the order of the repair. *)

Routed(m) == {p \in Products : Cycle[p][m] > 0}
RepairOrder(m, w) == {pair \in Routed(m) \X Routed(m) : Slower(pair[1], pair[2], m, w)}

LEMMA RowsAreOrdered ==
    ASSUME ForecastTyped, TargetTyped, NEW m \in Machines, NEW w \in Weeks
    PROVE  Orders2(RepairOrder(m, w), Routed(m)) /\ IsFiniteSet(Routed(m))
  <1>0. IsFiniteSet(Routed(m)) /\ Routed(m) \in SUBSET Products
    <2>1. Routed(m) \in SUBSET Products
      BY DEF Routed
    <2> QED BY <2>1, Finite, FS_Subset
  <1>1. \A p \in Routed(m) : /\ FamilyOf[p] \in Families /\ p \in Members(FamilyOf[p])
                             /\ Cycle[p][m] \in Int
    BY <1>0, PlanAssumption DEF Members
  <1>2. \A p \in Routed(m) : FamilyRank(p) \in Int
    <2>1. \A f \in Families : \E i \in DOMAIN FamilySeq : FamilySeq[i] = f
      BY PlanAssumption DEF Families, ToSet
    <2>2. DOMAIN FamilySeq \subseteq Int
      BY PlanAssumption
    <2> QED BY <1>1, <2>1, <2>2 DEF FamilyRank
  <1>3. \A p, q \in Routed(m) : FamilyRank(p) = FamilyRank(q) => FamilyOf[p] = FamilyOf[q]
    <2>1. \A f \in Families : \E i \in DOMAIN FamilySeq : FamilySeq[i] = f
      BY PlanAssumption DEF Families, ToSet
    <2>2. \A p \in Routed(m) : FamilySeq[FamilyRank(p)] = FamilyOf[p]
      BY <1>1, <2>1 DEF FamilyRank
    <2> QED BY <2>2
  <1>4. \A p, q \in Routed(m) : FamilyRank(p) = FamilyRank(q) /\ p # q
                                  => ServedBefore(p, q, w) \/ ServedBefore(q, p, w)
    <2> TAKE p \in Routed(m), q \in Routed(m)
    <2> HAVE FamilyRank(p) = FamilyRank(q) /\ p # q
    <2>1. PICK f \in Families : f = FamilyOf[p] /\ p \in Members(f) /\ q \in Members(f)
      BY <1>1, <1>3
    <2>2. Orders2(ServingOrder(f, w), Members(f))
      BY ServingIsOrder
    <2> QED BY <2>1, <2>2 DEF Orders2, ServingOrder
  <1>5. \A p \in Routed(m) : ~ServedBefore(p, p, w)
    <2> TAKE p \in Routed(m)
    <2>1. PICK f \in Families : f = FamilyOf[p] /\ p \in Members(f)
      BY <1>1
    <2>2. Orders2(ServingOrder(f, w), Members(f))
      BY ServingIsOrder
    <2> QED BY <2>1, <2>2 DEF Orders2, ServingOrder
  <1>6. \A p, q, r \in Routed(m) :
           FamilyRank(p) = FamilyRank(q) /\ FamilyRank(q) = FamilyRank(r)
           /\ ServedBefore(p, q, w) /\ ServedBefore(q, r, w) => ServedBefore(p, r, w)
    <2> TAKE p \in Routed(m), q \in Routed(m), r \in Routed(m)
    <2> HAVE /\ FamilyRank(p) = FamilyRank(q) /\ FamilyRank(q) = FamilyRank(r)
             /\ ServedBefore(p, q, w) /\ ServedBefore(q, r, w)
    <2>1. PICK f \in Families : f = FamilyOf[p] /\ p \in Members(f) /\ q \in Members(f) /\ r \in Members(f)
      BY <1>1, <1>3
    <2>2. Orders2(ServingOrder(f, w), Members(f))
      BY ServingIsOrder
    <2>3. \A x, y \in Members(f) : <<x, y>> \in ServingOrder(f, w) <=> ServedBefore(x, y, w)
      BY DEF ServingOrder
    <2>4. <<p, q>> \in ServingOrder(f, w) /\ <<q, r>> \in ServingOrder(f, w)
      BY <2>1, <2>3
    <2>5. <<p, r>> \in ServingOrder(f, w)
      BY <2>1, <2>2, <2>4 DEF Orders2
    <2> QED BY <2>1, <2>3, <2>5
  <1>7. \A p, q \in Routed(m) : <<p, q>> \in RepairOrder(m, w) <=> Slower(p, q, m, w)
    BY DEF RepairOrder
  <1>8. \A p \in Routed(m) : ~Slower(p, p, m, w)
    BY <1>1, <1>2, <1>5 DEF Slower, RowBefore
  <1>9. \A p, q \in Routed(m) : p # q => Slower(p, q, m, w) \/ Slower(q, p, m, w)
    BY <1>1, <1>2, <1>4 DEF Slower, RowBefore
  <1>10. \A p, q, r \in Routed(m) : Slower(p, q, m, w) /\ Slower(q, r, m, w) => Slower(p, r, m, w)
    BY <1>1, <1>2, <1>6 DEF Slower, RowBefore
  <1>11. Orders2(RepairOrder(m, w), Routed(m))
    BY <1>7, <1>8, <1>9, <1>10 DEF Orders2
  <1> QED BY <1>0, <1>11

LEMMA CandidatesListed ==
    ASSUME ForecastTyped, TargetTyped, NEW m \in Machines, NEW w \in Weeks
    PROVE  \E n \in Nat : /\ Candidates(m, w) \in [1..n -> Routed(m)]
                          /\ \A p \in Routed(m) : \E i \in 1..n : Candidates(m, w)[i] = p
  <1>1. Orders2(RepairOrder(m, w), Routed(m)) /\ IsFiniteSet(Routed(m))
    BY RowsAreOrdered
  <1>2. \E s \in SetToSeqs(Routed(m)) :
           \A i, j \in DOMAIN s : i < j => <<s[i], s[j]>> \in RepairOrder(m, w)
    BY <1>1, SortedSequence
  <1>3. \E s \in SetToSeqs(Routed(m)) :
           \A i, j \in DOMAIN s : i < j => Slower(s[i], s[j], m, w)
    BY <1>2 DEF RepairOrder
  <1>4. Candidates(m, w) \in SetToSeqs(Routed(m))
    BY <1>3 DEF Candidates, Routed
  <1> QED BY <1>1, <1>4, SequenceOfAll
-----------------------------------------------------------------------------
(* A fold from left to right passes through the prefixes of its sequence. *)

LEMMA Prefix ==
    ASSUME NEW n \in Nat, NEW k \in 1..n
    PROVE  /\ (1..k) \in SUBSET (1..n) /\ 1..k # {} /\ Max(1..k) = k
           /\ (1..k) \ {k} = 1..(k - 1)
  <1>1. (1..k) \in SUBSET (1..n) /\ k \in 1..k
    OBVIOUS
  <1>2. Max(1..k) \in 1..k /\ k <= Max(1..k)
    BY <1>1, Greatest
  <1>3. Max(1..k) = k
    BY <1>2
  <1>4. (1..k) \ {k} = 1..(k - 1)
    OBVIOUS
  <1> QED BY <1>1, <1>3, <1>4

FoldsLeft(h, F, base, cs, n) ==
    h = [s \in SUBSET (1..n) |-> IF s = {} THEN base ELSE F[<<cs[Max(s)], h[s \ {Max(s)}]>>]]

LEMMA LeftFoldExists ==
    ASSUME NEW n \in Nat, NEW X, NEW cs \in [1..n -> X], NEW A, NEW base \in A, NEW F \in [X \X A -> A]
    PROVE  \E h : FoldsLeft(h, F, base, cs, n) /\ \A s \in SUBSET (1..n) : h[s] \in A
  <1> DEFINE S == 1..n
             choice == [s \in SUBSET S |-> Max(s)]
             G == [pair \in S \X A |-> F[<<cs[pair[1]], pair[2]>>]]
  <1>0. IsFiniteSet(S)
    <2>1. 1 \in Int /\ n \in Int
      OBVIOUS
    <2> QED BY <2>1, FS_Interval
  <1>1. \A s \in SUBSET S : s # {} => choice[s] \in s /\ choice[s] = Max(s)
    BY Greatest
  <1>2. PICK h : Folds(h, G, base, choice, S)
    <2> HIDE DEF choice, G, S
    <2> QED BY <1>0, <1>1, FoldExists
  <1>3. \A s \in SUBSET S : h[s] = IF s = {} THEN base ELSE G[<<Max(s), h[s \ {Max(s)}]>>]
    <2> HIDE DEF choice, G, S
    <2> QED BY <1>1, <1>2 DEF Folds
  <1>4. \A i \in S, a \in A : G[<<i, a>>] = F[<<cs[i], a>>] /\ F[<<cs[i], a>>] \in A
    OBVIOUS
  <1>5. \A s \in SUBSET S : h[s] \in A
    <2> DEFINE T == {s \in SUBSET S : h[s] \in A}
    <2>1. ASSUME NEW s \in SUBSET S, \A r \in SUBSET s : r # s => r \in T
          PROVE  s \in T
      <3> HIDE DEF G, choice, S
      <3>1. CASE s = {}
        <4>1. h[s] = base
          BY <1>3, <3>1
        <4> QED BY <4>1
      <3>2. CASE s # {}
        <4>1. s \ {Max(s)} \in SUBSET s /\ s \ {Max(s)} # s /\ Max(s) \in S
          BY <1>1, <3>2
        <4>2. PICK a \in A : a = h[s \ {Max(s)}]
          BY <2>1, <4>1
        <4>3. h[s] = G[<<Max(s), a>>]
          BY <1>3, <3>2, <4>2
        <4>4. h[s] \in A
          BY <1>4, <4>1, <4>3
        <4> QED BY <4>4
      <3> QED BY <3>1, <3>2
    <2> HIDE DEF T, S
    <2>2. \A s \in SUBSET S : s \in T
      BY <1>0, <2>1, SmallerFirst
    <2> QED BY <2>2 DEF T
  <1>6. h = [s \in SUBSET S |-> IF s = {} THEN base ELSE F[<<cs[Max(s)], h[s \ {Max(s)}]>>]]
    <2> HIDE DEF choice, G, S
    <2>1. \A s \in SUBSET S : s # {} => Max(s) \in S /\ s \ {Max(s)} \in SUBSET S
      BY <1>1
    <2>2. \A s \in SUBSET S : s # {} => G[<<Max(s), h[s \ {Max(s)}]>>] = F[<<cs[Max(s)], h[s \ {Max(s)}]>>]
      BY <1>4, <1>5, <2>1
    <2>3. h = [s \in SUBSET S |-> h[s]]
      BY <1>2 DEF Folds
    <2> QED BY <1>3, <2>2, <2>3
  <1> QED BY <1>5, <1>6 DEF FoldsLeft
-----------------------------------------------------------------------------
(* The greedy repair: it only takes batches off, and leaves no machine above
   its capacity. *)

OvertimeTyped == overtime \in [Machines -> [Weeks -> 0..MaxOvertime]]
WeekLoad(plan, m) == SumFunction([p \in Products |-> plan[p] * Cycle[p][m]])
Account == [plan : [Products -> Nat], over : Int]

LEMMA RoutedTime ==
    ASSUME NEW m \in Machines
    PROVE  /\ \A p \in Products : Cycle[p][m] \in Nat
           /\ \A p \in Routed(m) : p \in Products /\ Cycle[p][m] \in Nat \ {0}
  <1>1. \A p \in Products : Cycle[p][m] \in Nat
    BY PlanAssumption
  <1> QED BY <1>1 DEF Routed

LEMMA LoadTotal ==
    ASSUME NEW m \in Machines, NEW plan \in [Products -> Nat],
           NEW g, g = [p \in Products |-> plan[p] * Cycle[p][m]]
    PROVE  /\ \A p \in Products : g[p] \in Nat
           /\ WeekLoad(plan, m) = Total(g, Products) /\ WeekLoad(plan, m) \in Nat
  <1>1. \A p \in Products : g[p] \in Nat
    <2> TAKE p \in Products
    <2>1. PICK a \in Nat, b \in Nat : a = plan[p] /\ b = Cycle[p][m]
      BY RoutedTime
    <2>2. a * b \in Nat
      OBVIOUS
    <2> QED BY <2>1, <2>2
  <1>2. DOMAIN g = Products /\ IsFiniteSet(DOMAIN g)
    BY Finite
  <1>3. SumFunction(g) = Total(g, Products)
    <2>1. \A p \in DOMAIN g : g[p] \in Int
      BY <1>1, <1>2
    <2> QED BY <1>2, <2>1, SumIsTotal
  <1>4. Total(g, Products) \in Nat
    BY <1>1, Finite, TotalNatural
  <1> QED BY <1>1, <1>3, <1>4 DEF WeekLoad

Without(plan, p, less) == [plan EXCEPT ![p] = plan[p] - less]

LEMMA LoadAfter ==
    ASSUME NEW m \in Machines, NEW plan \in [Products -> Nat], NEW p \in Products,
           NEW less \in Nat, less <= plan[p], NEW after, after = Without(plan, p, less)
    PROVE  /\ after \in [Products -> Nat] /\ \A q \in Products : after[q] <= plan[q]
           /\ WeekLoad(after, m) = WeekLoad(plan, m) - less * Cycle[p][m]
  <1>0. plan[p] \in Nat /\ less \in Nat /\ plan[p] - less \in Nat /\ plan[p] - less <= plan[p]
    OBVIOUS
  <1> USE DEF Without
  <1>1. after \in [Products -> Nat] /\ \A q \in Products : after[q] <= plan[q]
    BY <1>0
  <1>2. PICK g : g = [q \in Products |-> plan[q] * Cycle[q][m]]
    OBVIOUS
  <1>3. PICK h : h = [q \in Products |-> after[q] * Cycle[q][m]]
    OBVIOUS
  <1>4. /\ WeekLoad(plan, m) = Total(g, Products) /\ IntegersOn(g, Products)
        /\ WeekLoad(after, m) = Total(h, Products) /\ IntegersOn(h, Products)
    <2>1. (\A q \in Products : g[q] \in Nat) /\ WeekLoad(plan, m) = Total(g, Products)
      BY <1>2, LoadTotal
    <2>2. (\A q \in Products : h[q] \in Nat) /\ WeekLoad(after, m) = Total(h, Products)
      BY <1>1, <1>3, LoadTotal
    <2> QED BY <2>1, <2>2 DEF IntegersOn
  <1>5. AgreeOn(h, g, Products \ {p})
    <2>1. \A q \in Products \ {p} : after[q] = plan[q]
      OBVIOUS
    <2> QED BY <1>2, <1>3, <2>1 DEF AgreeOn
  <1>6. IsFiniteSet(Products) /\ IsFiniteSet(Products \ {p})
    BY Finite, FS_RemoveElement
  <1>7. Total(h, Products \ {p}) = Total(g, Products \ {p}) /\ Total(g, Products \ {p}) \in Int
    <2>1. IntegersOn(g, Products \ {p})
      BY <1>4 DEF IntegersOn
    <2>2. Total(h, Products \ {p}) = Total(g, Products \ {p})
      BY <1>5, <1>6, <2>1, TotalSame
    <2>3. Total(g, Products \ {p}) \in Int
      BY <1>6, <2>1, TotalStep DEF IntegersOn
    <2> QED BY <2>2, <2>3
  <1>8. /\ Total(g, Products) = Total(g, Products \ {p}) + g[p]
        /\ Total(h, Products) = Total(h, Products \ {p}) + h[p]
    BY <1>4, <1>6, TotalStep DEF IntegersOn
  <1>9. h[p] = g[p] - less * Cycle[p][m] /\ g[p] \in Int /\ less * Cycle[p][m] \in Int
    <2>1. PICK a \in Nat, c \in Nat : a = plan[p] /\ c = Cycle[p][m]
      BY RoutedTime
    <2>2. g[p] = a * c /\ h[p] = (a - less) * c
      BY <1>2, <1>3, <2>1
    <2>3. (a - less) * c = a * c - less * c /\ a * c \in Int /\ less * c \in Int
      BY <1>0
    <2> QED BY <2>1, <2>2, <2>3
  <1>10. WeekLoad(after, m) = WeekLoad(plan, m) - less * Cycle[p][m]
    <2>1. PICK t \in Int, u \in Int, v \in Int :
             t = Total(g, Products \ {p}) /\ u = g[p] /\ v = less * Cycle[p][m]
      BY <1>7, <1>9
    <2>2. WeekLoad(plan, m) = t + u /\ WeekLoad(after, m) = t + (u - v)
      BY <1>4, <1>7, <1>8, <1>9, <2>1
    <2>3. t + (u - v) = t + u - v
      OBVIOUS
    <2> QED BY <2>1, <2>2, <2>3
  <1> QED BY <1>1, <1>10

LEMMA LoadWithout ==
    ASSUME NEW m \in Machines, NEW plan \in [Products -> Nat], NEW p \in Products,
           NEW part \in Nat, part <= plan[p]
    PROVE  /\ Without(plan, p, part) \in [Products -> Nat] /\ \A q \in Products : Without(plan, p, part)[q] <= plan[q]
           /\ WeekLoad(Without(plan, p, part), m) = WeekLoad(plan, m) - part * Cycle[p][m]
  <1>1. PICK after : after = Without(plan, p, part)
    OBVIOUS
  <1>2. WeekLoad(after, m) = WeekLoad(plan, m) - part * Cycle[p][m]
    BY <1>1, LoadAfter
  <1>3. after \in [Products -> Nat]
    BY <1>1, LoadAfter
  <1>4. \A q \in Products : after[q] <= plan[q]
    BY <1>1, LoadAfter
  <1> QED BY <1>1, <1>2, <1>3, <1>4

LEMMA LoadMonotone ==
    ASSUME NEW m \in Machines, NEW week \in [Products -> Nat], NEW stale \in [Products -> Nat],
           \A p \in Products : week[p] <= stale[p]
    PROVE  WeekLoad(week, m) \in Nat /\ WeekLoad(stale, m) \in Nat /\ WeekLoad(week, m) <= WeekLoad(stale, m)
  <1>1. PICK g : g = [p \in Products |-> week[p] * Cycle[p][m]]
    OBVIOUS
  <1>2. PICK h : h = [p \in Products |-> stale[p] * Cycle[p][m]]
    OBVIOUS
  <1>3. /\ \A p \in Products : g[p] \in Nat
        /\ WeekLoad(week, m) = Total(g, Products) /\ WeekLoad(week, m) \in Nat
    BY <1>1, LoadTotal
  <1>4. /\ \A p \in Products : h[p] \in Nat
        /\ WeekLoad(stale, m) = Total(h, Products) /\ WeekLoad(stale, m) \in Nat
    BY <1>2, LoadTotal
  <1>5. ASSUME NEW p \in Products PROVE g[p] <= h[p]
    <2>1. PICK a \in Nat, b \in Nat, c \in Nat : a = week[p] /\ b = stale[p] /\ c = Cycle[p][m] /\ a <= b
      BY RoutedTime
    <2>2. a * c <= b * c
      BY <2>1
    <2> QED BY <1>1, <1>2, <2>1, <2>2
  <1>6. \A p \in Products : g[p] \in Int /\ h[p] \in Int /\ g[p] <= h[p]
    BY <1>3, <1>4, <1>5
  <1>7. Total(g, Products) <= Total(h, Products)
    BY <1>6, Finite, TotalMonotone
  <1> QED BY <1>3, <1>4, <1>7

\* What one step of the repair takes off a product.
LEMMA TakeOffStep ==
    ASSUME NEW m \in Machines, NEW p \in Routed(m), NEW acc \in Account
    PROVE  /\ TakeOff(acc, p, m) \in Account
           /\ acc.over <= 0 => TakeOff(acc, p, m) = acc
           /\ acc.over > 0 => \E less \in 0..acc.plan[p] :
                /\ TakeOff(acc, p, m) = [plan |-> [acc.plan EXCEPT ![p] = acc.plan[p] - less],
                                         over |-> acc.over - less * Cycle[p][m]]
                /\ acc.over - less * Cycle[p][m] > 0 => less = acc.plan[p]
  <1>0. acc.plan \in [Products -> Nat] /\ acc.over \in Int /\ p \in Products
    BY RoutedTime DEF Account
  <1>1. CASE acc.over <= 0
    BY <1>0, <1>1 DEF TakeOff
  <1>2. CASE ~(acc.over <= 0)
    <2>1. PICK c \in Nat \ {0}, over \in Nat, have \in Nat :
             c = Cycle[p][m] /\ over = acc.over /\ have = acc.plan[p] /\ over > 0
      BY <1>0, <1>2, RoutedTime
    <2>2. PICK up \in Nat : up = RoundedUp(over, c) /\ over <= up * c
      BY RoundedUpBounds
    <2>3. PICK less \in Int : less = Min({have, up}) /\ less = (IF have <= up THEN have ELSE up)
      <3>1. have \in Int /\ up \in Int
        OBVIOUS
      <3>2. Min({have, up}) = IF have <= up THEN have ELSE up
        BY <3>1, Larger
      <3> QED BY <3>1, <3>2
    <2>4. less \in 0..have
      BY <2>3
    <2>5. over - less * c > 0 => less = have
      <3>1. CASE have <= up
        BY <2>3, <3>1
      <3>2. CASE ~(have <= up)
        <4>1. less = up
          BY <2>3, <3>2
        <4>2. PICK k \in Int : k = up * c
          OBVIOUS
        <4>3. ~(over - k > 0)
          BY <2>2, <4>2
        <4> QED BY <4>1, <4>2, <4>3
      <3> QED BY <3>1, <3>2
    <2>6. TakeOff(acc, p, m) = [plan |-> [acc.plan EXCEPT ![p] = acc.plan[p] - less],
                                over |-> acc.over - less * Cycle[p][m]]
      BY <1>2, <2>1, <2>2, <2>3 DEF TakeOff, Reducible
    <2>7. TakeOff(acc, p, m) \in Account
      <3>1. have - less \in Nat
        BY <2>4
      <3>2. over - less * c \in Int
        <4>1. less * c \in Int
          BY <2>3
        <4> QED BY <4>1
      <3> QED BY <1>0, <2>1, <2>6, <3>1, <3>2 DEF Account
    <2>8. ~(acc.over <= 0)
      BY <1>2
    <2> QED BY <2>1, <2>4, <2>5, <2>6, <2>7, <2>8
  <1> QED BY <1>1, <1>2
\* The repair of one machine, candidate after candidate.
Steps(g, n, base, cs, m) ==
    g[0] = base /\ \A k \in 0..(n - 1) : g[k + 1] = TakeOff(g[k], cs[k + 1], m)

LEMMA RepairFold ==
    ASSUME NEW m \in Machines, NEW n \in Nat, NEW cs \in [1..n -> Routed(m)], NEW base \in Account
    PROVE  \E g : /\ Steps(g, n, base, cs, m)
                  /\ FoldLeft(LAMBDA acc, p : TakeOff(acc, p, m), base, cs) = g[n]
  <1> DEFINE F == [pair \in Routed(m) \X Account |-> TakeOff(pair[2], pair[1], m)]
             Own(h) == h = [s \in SUBSET (1..n) |->
                             IF s = {} THEN base ELSE TakeOff(h[s \ {Max(s)}], cs[Max(s)], m)]
  <1>1. \A p \in Routed(m), acc \in Account : F[<<p, acc>>] = TakeOff(acc, p, m) /\ TakeOff(acc, p, m) \in Account
    BY TakeOffStep
  <1>2. F \in [Routed(m) \X Account -> Account]
    BY <1>1
  <1>3. PICK h : FoldsLeft(h, F, base, cs, n) /\ \A s \in SUBSET (1..n) : h[s] \in Account
    <2> HIDE DEF F
    <2> QED BY <1>2, LeftFoldExists
  <1>4. Own(h)
    <2> HIDE DEF F
    <2>1. \A s \in SUBSET (1..n) : s # {} => /\ cs[Max(s)] \in Routed(m) /\ s \ {Max(s)} \in SUBSET (1..n)
      BY Greatest
    <2>2. \A s \in SUBSET (1..n) : s # {} =>
             F[<<cs[Max(s)], h[s \ {Max(s)}]>>] = TakeOff(h[s \ {Max(s)}], cs[Max(s)], m)
      BY <1>1, <1>3, <2>1
    <2>3. \A s \in SUBSET (1..n) : h[s] = IF s = {} THEN base ELSE F[<<cs[Max(s)], h[s \ {Max(s)}]>>]
      BY <1>3 DEF FoldsLeft
    <2>4. h = [s \in SUBSET (1..n) |-> h[s]]
      BY <1>3 DEF FoldsLeft
    <2> QED BY <2>2, <2>3, <2>4
  <1>5. PICK i : i = CHOOSE k : Own(k)
    OBVIOUS
  <1>6. Own(i)
    <2> HIDE DEF Own
    <2> QED BY <1>4, <1>5
  <1>7. FoldLeft(LAMBDA acc, p : TakeOff(acc, p, m), base, cs) = i[1..n]
    <2>1. DOMAIN cs = 1..n
      OBVIOUS
    <2>2. FoldLeft(LAMBDA acc, p : TakeOff(acc, p, m), base, cs)
            = (CHOOSE k : k = [s \in SUBSET DOMAIN cs |->
                   IF s = {} THEN base ELSE TakeOff(k[s \ {Max(s)}], cs[Max(s)], m)])[DOMAIN cs]
      BY DEF FoldLeft, MapThenFoldSet
    <2>3. FoldLeft(LAMBDA acc, p : TakeOff(acc, p, m), base, cs) = (CHOOSE k : Own(k))[1..n]
      BY <2>1, <2>2
    <2> HIDE DEF Own
    <2> QED BY <1>5, <2>3
  <1>8. \A s \in SUBSET (1..n) : i[s] = IF s = {} THEN base ELSE TakeOff(i[s \ {Max(s)}], cs[Max(s)], m)
    BY <1>6
  <1> DEFINE g == [k \in 0..n |-> i[1..k]]
  <1>9. Steps(g, n, base, cs, m)
    <2>1. i[1..0] = base
      <3>1. 1..0 = {}
        OBVIOUS
      <3> QED BY <1>8, <3>1
    <2>2. \A k \in 1..n : i[1..k] = TakeOff(i[1..(k - 1)], cs[k], m)
      BY <1>8, Prefix
    <2>3. \A k \in 0..n : g[k] = i[1..k]
      OBVIOUS
    <2> HIDE DEF g
    <2>4. ASSUME NEW k \in 0..(n - 1) PROVE g[k + 1] = TakeOff(g[k], cs[k + 1], m)
      <3>1. PICK j \in 1..n : j = k + 1 /\ j - 1 = k
        OBVIOUS
      <3>2. g[j] = i[1..j] /\ g[k] = i[1..k]
        BY <2>3, <3>1
      <3> QED BY <2>2, <3>1, <3>2
    <2>5. g[0] = base
      BY <2>1, <2>3
    <2> QED BY <2>4, <2>5 DEF Steps
  <1>10. g[n] = i[1..n]
    OBVIOUS
  <1> QED BY <1>7, <1>9, <1>10

\* Between two candidates: no product has gained a batch, the load has fallen by
\* what was taken off, and the candidates passed are empty if that was not enough.
Trimmed(acc, k, week, cap, cs, m) ==
    /\ acc \in Account
    /\ \A p \in Products : acc.plan[p] <= week[p]
    /\ WeekLoad(acc.plan, m) <= cap + acc.over
    /\ acc.over > 0 => \A i \in 1..k : acc.plan[cs[i]] = 0

LEMMA TrimStep ==
    ASSUME NEW m \in Machines, NEW n \in Nat, NEW cs \in [1..n -> Routed(m)], NEW week \in [Products -> Nat],
           NEW cap \in Nat, NEW k \in 0..(n - 1), NEW acc, Trimmed(acc, k, week, cap, cs, m)
    PROVE  Trimmed(TakeOff(acc, cs[k + 1], m), k + 1, week, cap, cs, m)
  <1>1. PICK p \in Routed(m) : p = cs[k + 1]
    OBVIOUS
  <1>2. /\ acc \in Account /\ acc.plan \in [Products -> Nat] /\ acc.over \in Int /\ p \in Products
        /\ \A q \in Products : acc.plan[q] <= week[q]
        /\ WeekLoad(acc.plan, m) <= cap + acc.over
        /\ acc.over > 0 => \A i \in 1..k : acc.plan[cs[i]] = 0
    BY RoutedTime DEF Trimmed, Account
  <1>3. CASE acc.over <= 0
    <2>1. TakeOff(acc, p, m) = acc
      BY <1>2, <1>3, TakeOffStep
    <2>2. ~(acc.over > 0)
      BY <1>2, <1>3
    <2> QED BY <1>1, <1>2, <2>1, <2>2 DEF Trimmed
  <1>4. CASE acc.over > 0
    <2>1. PICK less \in 0..acc.plan[p] :
             /\ TakeOff(acc, p, m) = [plan |-> [acc.plan EXCEPT ![p] = acc.plan[p] - less],
                                      over |-> acc.over - less * Cycle[p][m]]
             /\ acc.over - less * Cycle[p][m] > 0 => less = acc.plan[p]
      BY <1>2, <1>4, TakeOffStep
    <2>2. PICK after : after = [acc.plan EXCEPT ![p] = acc.plan[p] - less]
      OBVIOUS
    <2>3. /\ after \in [Products -> Nat] /\ \A q \in Products : after[q] <= acc.plan[q]
          /\ WeekLoad(after, m) = WeekLoad(acc.plan, m) - less * Cycle[p][m]
      <3>1. PICK plan \in [Products -> Nat] : plan = acc.plan
        BY <1>2
      <3>2. less \in 0..plan[p] /\ after = [plan EXCEPT ![p] = plan[p] - less]
        BY <2>1, <2>2, <3>1
      <3>4. p \in Products
        BY <1>2
      <3>5. PICK part \in Nat : part = less /\ part <= plan[p]
        BY <3>2
      <3>6. after = Without(plan, p, part)
        BY <3>2, <3>5 DEF Without
      <3>7. /\ after \in [Products -> Nat] /\ \A q \in Products : after[q] <= plan[q]
            /\ WeekLoad(after, m) = WeekLoad(plan, m) - part * Cycle[p][m]
        <4>1. /\ Without(plan, p, part) \in [Products -> Nat]
              /\ \A q \in Products : Without(plan, p, part)[q] <= plan[q]
          BY <3>4, <3>5, LoadWithout
        <4>2. WeekLoad(Without(plan, p, part), m) = WeekLoad(plan, m) - part * Cycle[p][m]
          BY <3>4, <3>5, LoadWithout
        <4> HIDE <3>5
        <4> QED BY <3>6, <4>1, <4>2
      <3>3. /\ after \in [Products -> Nat] /\ \A q \in Products : after[q] <= plan[q]
            /\ WeekLoad(after, m) = WeekLoad(plan, m) - less * Cycle[p][m]
        BY <3>5, <3>7
      <3> QED BY <3>1, <3>3
    <2>4. PICK new : /\ new = TakeOff(acc, p, m) /\ new.plan = after
                     /\ new.over = acc.over - less * Cycle[p][m] /\ new \in Account
      <3>1. TakeOff(acc, p, m) \in Account
        BY <1>2, TakeOffStep
      <3>2. TakeOff(acc, p, m) = [plan |-> after, over |-> acc.over - less * Cycle[p][m]]
        BY <2>1, <2>2
      <3> QED BY <3>1, <3>2
    <2>5. \A q \in Products : new.plan[q] <= week[q]
      <3> TAKE q \in Products
      <3>1. PICK a \in Nat, b \in Nat, c \in Nat : a = after[q] /\ b = acc.plan[q] /\ c = week[q]
        BY <1>2, <2>3
      <3>2. a <= b /\ b <= c
        BY <1>2, <2>3, <3>1
      <3> QED BY <2>4, <3>1, <3>2
    <2>6. WeekLoad(new.plan, m) <= cap + new.over
      <3>1. PICK d \in Int : d = less * Cycle[p][m]
        <4>1. PICK c \in Nat : c = Cycle[p][m]
          BY <1>2, RoutedTime
        <4>2. less \in Int
          BY <1>2
        <4>3. less * c \in Int
          BY <4>2
        <4> QED BY <4>1, <4>3
      <3>2. WeekLoad(acc.plan, m) \in Nat
        BY <1>2, LoadTotal
      <3> QED BY <1>2, <2>3, <2>4, <3>1, <3>2, SMTT(30)
    <2>7. ASSUME new.over > 0, NEW i \in 1..(k + 1)
          PROVE  new.plan[cs[i]] = 0
      <3>1. less = acc.plan[p]
        BY <2>1, <2>4, <2>7
      <3>2. after[p] = 0
        <4>1. acc.plan[p] - less = 0 /\ p \in DOMAIN acc.plan
          BY <1>2, <3>1
        <4> QED BY <2>2, <4>1
      <3>3. cs[i] \in Products
        BY <2>7, RoutedTime
      <3>4. CASE cs[i] = p
        BY <2>4, <3>2, <3>4
      <3>5. CASE cs[i] # p
        <4>1. i \in 1..k
          <5>1. i # k + 1
            BY <1>1, <3>5
          <5> QED BY <2>7, <5>1
        <4>2. acc.plan[cs[i]] = 0
          BY <1>2, <1>4, <4>1
        <4>3. after[cs[i]] = acc.plan[cs[i]]
          BY <1>2, <2>2, <3>3, <3>5
        <4> QED BY <2>4, <4>2, <4>3
      <3> QED BY <3>4, <3>5
    <2>8. Trimmed(new, k + 1, week, cap, cs, m)
      BY <2>4, <2>5, <2>6, <2>7 DEF Trimmed
    <2> QED BY <1>1, <2>4, <2>8
  <1> QED BY <1>2, <1>3, <1>4

Typed == ForecastTyped /\ TargetTyped /\ OvertimeTyped

LEMMA MachineRepaired ==
    ASSUME Typed, NEW m \in Machines, NEW w \in Weeks, NEW stale \in [Products -> Nat],
           NEW week \in [Products -> Nat], \A p \in Products : week[p] <= stale[p],
           NEW r, r = RepairMachine(week, stale, m, w)
    PROVE  /\ r \in [Products -> Nat] /\ \A p \in Products : r[p] <= week[p]
           /\ WeekLoad(r, m) <= TotalCapacity(m, w)
  <1>0. TotalCapacity(m, w) \in Nat
    BY PlanAssumption DEF TotalCapacity, Typed, OvertimeTyped
  <1>1. PICK cap \in Nat : cap = TotalCapacity(m, w)
    BY <1>0
  <1>14. PICK cs : cs = Candidates(m, w)
    OBVIOUS
  <1>2. PICK n \in Nat : /\ cs = Candidates(m, w) /\ cs \in [1..n -> Routed(m)]
                         /\ \A p \in Routed(m) : \E i \in 1..n : cs[i] = p
    <2>1. \E n \in Nat : /\ Candidates(m, w) \in [1..n -> Routed(m)]
                         /\ \A p \in Routed(m) : \E i \in 1..n : Candidates(m, w)[i] = p
      BY CandidatesListed DEF Typed
    <2> QED BY <1>14, <2>1
  <1>3. WeekLoad(week, m) \in Nat /\ WeekLoad(stale, m) \in Nat /\ WeekLoad(week, m) <= WeekLoad(stale, m)
    BY LoadMonotone
  <1>4. PICK base : base = [plan |-> week, over |-> WeekLoad(stale, m) - cap]
    OBVIOUS
  <1>5. Trimmed(base, 0, week, cap, cs, m)
    <2>1. base \in Account
      BY <1>3, <1>4 DEF Account
    <2>2. WeekLoad(base.plan, m) <= cap + base.over
      BY <1>3, <1>4
    <2>3. \A p \in Products : base.plan[p] <= week[p]
      BY <1>4
    <2> QED BY <2>1, <2>2, <2>3 DEF Trimmed
  <1>6. PICK g : /\ Steps(g, n, base, cs, m)
                 /\ FoldLeft(LAMBDA acc, p : TakeOff(acc, p, m), base, cs) = g[n]
    <2>1. base \in Account
      BY <1>5 DEF Trimmed
    <2> QED BY <1>2, <2>1, RepairFold
  <1>61. g[0] = base /\ \A k \in 0..(n - 1) : g[k + 1] = TakeOff(g[k], cs[k + 1], m)
    BY <1>6 DEF Steps
  <1>7. r = g[n].plan
    BY <1>1, <1>2, <1>4, <1>6 DEF RepairMachine, WeekLoad
  <1>8. Trimmed(g[n], n, week, cap, cs, m)
    <2> DEFINE T == {k \in 0..n : Trimmed(g[k], k, week, cap, cs, m)}
    <2>1. 0 \in T
      BY <1>5, <1>61
    <2>2. ASSUME NEW k \in 0..(n - 1), k \in T PROVE k + 1 \in T
      <3>1. Trimmed(TakeOff(g[k], cs[k + 1], m), k + 1, week, cap, cs, m)
        BY <1>2, <2>2, TrimStep
      <3>2. g[k + 1] = TakeOff(g[k], cs[k + 1], m) /\ k + 1 \in 0..n
        BY <1>61
      <3> QED BY <3>1, <3>2
    <2> HIDE DEF T
    <2>3. \A k \in 0..n : k \in T
      BY <2>1, <2>2, CountUp
    <2>4. n \in T
      BY <2>3
    <2> QED BY <2>4 DEF T
  <1>9. PICK over \in Int : over = g[n].over /\ r \in [Products -> Nat]
    BY <1>7, <1>8 DEF Trimmed, Account
  <1>10. \A p \in Products : r[p] <= week[p]
    BY <1>7, <1>8 DEF Trimmed
  <1>11. PICK load \in Nat : load = WeekLoad(r, m) /\ load <= cap + over
    <2>1. WeekLoad(r, m) \in Nat
      BY <1>9, LoadTotal
    <2>2. WeekLoad(r, m) <= cap + over
      BY <1>7, <1>8, <1>9 DEF Trimmed
    <2> QED BY <2>1, <2>2
  <1>12. CASE over <= 0
    BY <1>1, <1>9, <1>10, <1>11, <1>12
  <1>13. CASE over > 0
    <2>1. \A i \in 1..n : r[cs[i]] = 0
      BY <1>7, <1>8, <1>9, <1>13 DEF Trimmed
    <2>2. \A p \in Routed(m) : r[p] = 0
      BY <1>2, <2>1
    <2>3. PICK h : h = [p \in Products |-> r[p] * Cycle[p][m]]
      OBVIOUS
    <2>4. ASSUME NEW p \in Products PROVE h[p] = 0
      <3>1. PICK a \in Nat, c \in Nat : a = r[p] /\ c = Cycle[p][m]
        BY <1>9, RoutedTime
      <3>2. a = 0 \/ c = 0
        BY <2>2, <3>1 DEF Routed
      <3>3. a * c = 0
        BY <3>2
      <3> QED BY <2>3, <3>1, <3>3
    <2>5. Total(h, Products) = 0
      <3>1. \A p \in Products : h[p] = IF p \in {} THEN 0 ELSE 0
        BY <2>4
      <3>2. {} \in SUBSET Products /\ 0 \in Int /\ IsFiniteSet(Products) /\ Cardinality({}) = 0
        BY Finite, FS_EmptySet
      <3>3. Total(h, Products) = 0 * Cardinality({})
        BY <3>1, <3>2, TotalCounts
      <3> QED BY <3>2, <3>3
    <2>6. load = 0
      BY <1>9, <1>11, <2>3, <2>5, LoadTotal
    <2> QED BY <1>1, <1>9, <1>10, <1>11, <2>6
  <1> QED BY <1>12, <1>13

LEMMA MachinesInOrder ==
    \E n \in Nat : /\ MachineSeq \in [1..n -> Machines] /\ DOMAIN MachineSeq = 1..n
                   /\ \A m \in Machines : \E i \in 1..n : MachineSeq[i] = m
  <1>1. MachineSeq \in Seq(Machines)
    BY PlanAssumption
  <1>2. PICK n \in Nat : n = Len(MachineSeq) /\ MachineSeq \in [1..n -> Machines] /\ DOMAIN MachineSeq = 1..n
    BY <1>1
  <1>3. \A m \in Machines : \E i \in DOMAIN MachineSeq : MachineSeq[i] = m
    BY DEF Machines, ToSet
  <1> QED BY <1>2, <1>3

\* The repair of a week, machine after machine.
Within(week) == {plan \in [Products -> Nat] : \A p \in Products : plan[p] <= week[p]}
MachineSteps(g, n, week, w) ==
    g[0] = week /\ \A k \in 0..(n - 1) : g[k + 1] = RepairMachine(g[k], week, MachineSeq[k + 1], w)

LEMMA RepairWithin ==
    ASSUME Typed, NEW m \in Machines, NEW w \in Weeks, NEW week \in [Products -> Nat],
           NEW plan \in Within(week)
    PROVE  /\ RepairMachine(plan, week, m, w) \in Within(week)
           /\ \A p \in Products : RepairMachine(plan, week, m, w)[p] <= plan[p]
           /\ WeekLoad(RepairMachine(plan, week, m, w), m) <= TotalCapacity(m, w)
  <1>1. plan \in [Products -> Nat] /\ \A p \in Products : plan[p] <= week[p]
    BY DEF Within
  <1>2. PICK r : r = RepairMachine(plan, week, m, w)
    OBVIOUS
  <1>3. /\ r \in [Products -> Nat] /\ \A p \in Products : r[p] <= plan[p]
        /\ WeekLoad(r, m) <= TotalCapacity(m, w)
    BY <1>1, <1>2, MachineRepaired
  <1>4. \A p \in Products : r[p] <= week[p]
    <2> TAKE p \in Products
    <2>1. PICK a \in Nat, b \in Nat, c \in Nat : a = r[p] /\ b = plan[p] /\ c = week[p]
      BY <1>1, <1>3
    <2>2. a <= b /\ b <= c
      BY <1>1, <1>3, <2>1
    <2> QED BY <2>1, <2>2
  <1>5. r \in Within(week)
    BY <1>3, <1>4 DEF Within
  <1> QED BY <1>2, <1>3, <1>5

LEMMA WeekFold ==
    ASSUME Typed, NEW w \in Weeks, NEW week \in [Products -> Nat],
           NEW n \in Nat, MachineSeq \in [1..n -> Machines]
    PROVE  \E g : MachineSteps(g, n, week, w) /\ RepairWeek(week, w) = g[n]
  <1> DEFINE F == [pair \in Machines \X Within(week) |-> RepairMachine(pair[2], week, pair[1], w)]
             Own(h) == h = [s \in SUBSET (1..n) |->
                 IF s = {} THEN week ELSE RepairMachine(h[s \ {Max(s)}], week, MachineSeq[Max(s)], w)]
  <1>0. week \in Within(week)
    BY DEF Within
  <1>1. \A m \in Machines, plan \in Within(week) :
           /\ F[<<m, plan>>] = RepairMachine(plan, week, m, w)
           /\ RepairMachine(plan, week, m, w) \in Within(week)
    BY RepairWithin
  <1>2. F \in [Machines \X Within(week) -> Within(week)]
    BY <1>1
  <1>3. PICK h : FoldsLeft(h, F, week, MachineSeq, n) /\ \A s \in SUBSET (1..n) : h[s] \in Within(week)
    <2> HIDE DEF F
    <2> QED BY <1>0, <1>2, LeftFoldExists
  <1>4. Own(h)
    <2> HIDE DEF F
    <2>1. \A s \in SUBSET (1..n) : s # {} => /\ MachineSeq[Max(s)] \in Machines /\ s \ {Max(s)} \in SUBSET (1..n)
      BY Greatest
    <2>2. \A s \in SUBSET (1..n) : s # {} =>
             F[<<MachineSeq[Max(s)], h[s \ {Max(s)}]>>]
               = RepairMachine(h[s \ {Max(s)}], week, MachineSeq[Max(s)], w)
      BY <1>1, <1>3, <2>1
    <2>3. \A s \in SUBSET (1..n) : h[s] = IF s = {} THEN week ELSE F[<<MachineSeq[Max(s)], h[s \ {Max(s)}]>>]
      BY <1>3 DEF FoldsLeft
    <2>4. h = [s \in SUBSET (1..n) |-> h[s]]
      BY <1>3 DEF FoldsLeft
    <2> QED BY <2>2, <2>3, <2>4
  <1>5. PICK i : i = CHOOSE k : Own(k)
    OBVIOUS
  <1>6. Own(i)
    <2> HIDE DEF Own
    <2> QED BY <1>4, <1>5
  <1>7. RepairWeek(week, w) = i[1..n]
    <2>1. DOMAIN MachineSeq = 1..n
      OBVIOUS
    <2>2. RepairWeek(week, w)
            = (CHOOSE k : k = [s \in SUBSET DOMAIN MachineSeq |->
                 IF s = {} THEN week
                 ELSE RepairMachine(k[s \ {Max(s)}], week, MachineSeq[Max(s)], w)])[DOMAIN MachineSeq]
      BY DEF RepairWeek, FoldLeft, MapThenFoldSet
    <2>3. RepairWeek(week, w) = (CHOOSE k : Own(k))[1..n]
      BY <2>1, <2>2
    <2> HIDE DEF Own
    <2> QED BY <1>5, <2>3
  <1>8. \A s \in SUBSET (1..n) :
           i[s] = IF s = {} THEN week ELSE RepairMachine(i[s \ {Max(s)}], week, MachineSeq[Max(s)], w)
    BY <1>6
  <1> DEFINE g == [k \in 0..n |-> i[1..k]]
  <1>9. MachineSteps(g, n, week, w)
    <2>1. i[1..0] = week
      <3>1. 1..0 = {}
        OBVIOUS
      <3> QED BY <1>8, <3>1
    <2>2. \A k \in 1..n : i[1..k] = RepairMachine(i[1..(k - 1)], week, MachineSeq[k], w)
      BY <1>8, Prefix
    <2>3. \A k \in 0..n : g[k] = i[1..k]
      OBVIOUS
    <2> HIDE DEF g
    <2>4. ASSUME NEW k \in 0..(n - 1) PROVE g[k + 1] = RepairMachine(g[k], week, MachineSeq[k + 1], w)
      <3>1. PICK j \in 1..n : j = k + 1 /\ j - 1 = k
        OBVIOUS
      <3>2. g[j] = i[1..j] /\ g[k] = i[1..k]
        BY <2>3, <3>1
      <3> QED BY <2>2, <3>1, <3>2
    <2>5. g[0] = week
      BY <2>1, <2>3
    <2> QED BY <2>4, <2>5 DEF MachineSteps
  <1>10. g[n] = i[1..n]
    OBVIOUS
  <1> QED BY <1>7, <1>9, <1>10

Fitted(plan, k, week, w) ==
    plan \in Within(week) /\ \A i \in 1..k : WeekLoad(plan, MachineSeq[i]) <= TotalCapacity(MachineSeq[i], w)

LEMMA WeekRepaired ==
    ASSUME Typed, NEW w \in Weeks, NEW week \in [Products -> Nat]
    PROVE  /\ RepairWeek(week, w) \in [Products -> Nat]
           /\ \A m \in Machines : WeekLoad(RepairWeek(week, w), m) <= TotalCapacity(m, w)
  <1>1. PICK n \in Nat : /\ MachineSeq \in [1..n -> Machines]
                         /\ \A m \in Machines : \E i \in 1..n : MachineSeq[i] = m
    BY MachinesInOrder
  <1>2. PICK g : MachineSteps(g, n, week, w) /\ RepairWeek(week, w) = g[n]
    BY <1>1, WeekFold
  <1>3. Fitted(g[0], 0, week, w)
    BY <1>2 DEF MachineSteps, Fitted, Within
  <1>4. ASSUME NEW k \in 0..(n - 1), Fitted(g[k], k, week, w)
        PROVE  Fitted(g[k + 1], k + 1, week, w)
    <2>1. PICK m \in Machines : m = MachineSeq[k + 1]
      BY <1>1
    <2>2. PICK old : old = g[k]
      OBVIOUS
    <2>3. PICK new : new = RepairMachine(old, week, m, w)
      OBVIOUS
    <2>4. /\ old \in Within(week) /\ old \in [Products -> Nat]
          /\ \A i \in 1..k : WeekLoad(old, MachineSeq[i]) <= TotalCapacity(MachineSeq[i], w)
      BY <1>4, <2>2 DEF Fitted, Within
    <2>5. /\ new \in Within(week) /\ new \in [Products -> Nat]
          /\ \A p \in Products : new[p] <= old[p]
          /\ WeekLoad(new, m) <= TotalCapacity(m, w)
      BY <2>3, <2>4, RepairWithin DEF Within
    <2>6. ASSUME NEW i \in 1..(k + 1)
          PROVE  WeekLoad(new, MachineSeq[i]) <= TotalCapacity(MachineSeq[i], w)
      <3>1. PICK j \in Machines : j = MachineSeq[i]
        BY <1>1
      <3>2. CASE i = k + 1
        BY <2>1, <2>5, <3>2
      <3>3. CASE i # k + 1
        <4>1. i \in 1..k
          BY <3>3
        <4>2. WeekLoad(new, j) \in Nat /\ WeekLoad(old, j) \in Nat /\ WeekLoad(new, j) <= WeekLoad(old, j)
          BY <2>4, <2>5, LoadMonotone
        <4>3. WeekLoad(old, j) <= TotalCapacity(j, w)
          BY <2>4, <3>1, <4>1
        <4>4. TotalCapacity(j, w) \in Int
          BY PlanAssumption DEF TotalCapacity, Typed, OvertimeTyped
        <4> QED BY <3>1, <4>2, <4>3, <4>4
      <3> QED BY <3>2, <3>3
    <2>7. g[k + 1] = new
      BY <1>2, <2>1, <2>2, <2>3 DEF MachineSteps
    <2> QED BY <2>5, <2>6, <2>7 DEF Fitted
  <1>5. Fitted(g[n], n, week, w)
    <2> DEFINE T == {k \in 0..n : Fitted(g[k], k, week, w)}
    <2>1. 0 \in T
      BY <1>3
    <2>2. ASSUME NEW k \in 0..(n - 1), k \in T PROVE k + 1 \in T
      BY <1>4, <2>2
    <2> HIDE DEF T
    <2>3. \A k \in 0..n : k \in T
      BY <2>1, <2>2, CountUp
    <2>4. n \in T
      BY <2>3
    <2> QED BY <2>4 DEF T
  <1> QED BY <1>1, <1>2, <1>5 DEF Fitted, Within
-----------------------------------------------------------------------------
(* Week after week: recursion and sums over the weeks. *)

SumTo(g, w) == SumFunction([v \in 1..w |-> g[v]])

LEMMA SumWeekByWeek ==
    ASSUME NEW w \in Nat, NEW g, \A v \in 1..(w + 1) : g[v] \in Int
    PROVE  /\ SumTo(g, 0) = 0 /\ SumTo(g, w) \in Int /\ SumTo(g, w + 1) = SumTo(g, w) + g[w + 1]
  <1>1. \A n \in Nat : IsFiniteSet(1..n)
    <2> TAKE n \in Nat
    <2>1. 1 \in Int /\ n \in Int
      OBVIOUS
    <2> QED BY <2>1, FS_Interval
  <1>2. ASSUME NEW n \in Nat, n <= w + 1 PROVE SumTo(g, n) = Total(g, 1..n) /\ SumTo(g, n) \in Int
    <2>1. PICK h : h = [v \in 1..n |-> g[v]]
      OBVIOUS
    <2>2. DOMAIN h = 1..n /\ \A v \in 1..n : h[v] = g[v] /\ g[v] \in Int
      BY <1>2, <2>1
    <2>3. SumFunction(h) = Total(h, 1..n)
      BY <1>1, <2>2, SumIsTotal
    <2>4. AgreeOn(h, g, 1..n) /\ IntegersOn(g, 1..n)
      BY <2>2 DEF AgreeOn, IntegersOn
    <2>5. Total(h, 1..n) = Total(g, 1..n)
      BY <1>1, <2>4, TotalSame
    <2>6. Total(g, 1..n) \in Int
      BY <1>1, <2>2, TotalStep
    <2> QED BY <2>1, <2>3, <2>5, <2>6 DEF SumTo
  <1>3. SumTo(g, 0) = 0
    <2>1. SumTo(g, 0) = Total(g, 1..0) /\ 1..0 = {}
      BY <1>2
    <2>2. Total(g, {}) = 0
      BY FS_EmptySet, TotalStep
    <2> QED BY <2>1, <2>2
  <1>4. SumTo(g, w) = Total(g, 1..w) /\ SumTo(g, w) \in Int
    BY <1>2
  <1>5. SumTo(g, w + 1) = Total(g, 1..(w + 1))
    BY <1>2
  <1>6. Total(g, 1..(w + 1)) = Total(g, 1..w) + g[w + 1]
    <2>1. PICK n \in Nat : n = w + 1
      OBVIOUS
    <2>2. n \notin 1..w /\ 1..n = (1..w) \cup {n}
      BY <2>1
    <2>3. \A v \in (1..w) \cup {n} : g[v] \in Int
      BY <2>1, <2>2
    <2>4. Total(g, (1..w) \cup {n}) = Total(g, 1..w) + g[n]
      BY <1>1, <2>2, <2>3, TotalGrows
    <2> QED BY <2>1, <2>2, <2>4
  <1> QED BY <1>3, <1>4, <1>5, <1>6

Chained(h, n, base, F) == h = [w \in 0..n |-> IF w = 0 THEN base ELSE F[<<w, h[w - 1]>>]]

LEMMA ChainExists ==
    ASSUME NEW n \in Nat, NEW S, NEW base \in S, NEW F \in [(1..n) \X S -> S]
    PROVE  \E h : Chained(h, n, base, F) /\ \A w \in 0..n : h[w] \in S
  <1> DEFINE D == 0..n
             id == [w \in D |-> w]
             pred == [w \in D |-> w - 1]
             B == [w \in D |-> base]
  <1>1. PICK h : Recursive(h, D, id, pred, id, B, F)
    <2>1. \A d \in D : id[d] \in 0..n
      OBVIOUS
    <2>2. \A d \in D : id[d] # 0 => pred[d] \in D /\ id[pred[d]] < id[d]
      OBVIOUS
    <2> HIDE DEF D, id, pred, B
    <2> QED BY <2>1, <2>2, RecursionExists
  <1>2. h = [w \in 0..n |-> IF id[w] = 0 THEN B[w] ELSE F[<<id[w], h[pred[w]]>>]]
    <2> HIDE DEF id, pred, B
    <2> QED BY <1>1 DEF Recursive
  <1>3. Chained(h, n, base, F)
    <2>1. \A w \in 0..n : id[w] = w /\ B[w] = base /\ pred[w] = w - 1
      OBVIOUS
    <2> HIDE DEF id, pred, B
    <2> QED BY <1>2, <2>1 DEF Chained
  <1>4. \A w \in 0..n : h[w] \in S
    <2> DEFINE T == {w \in 0..n : h[w] \in S}
    <2>1. 0 \in T
      BY <1>3 DEF Chained
    <2>2. ASSUME NEW k \in 0..(n - 1), k \in T PROVE k + 1 \in T
      <3>1. PICK j \in 1..n : j = k + 1 /\ j - 1 = k /\ j # 0 /\ j \in 0..n
        OBVIOUS
      <3>2. h[j] = F[<<j, h[k]>>]
        BY <1>3, <3>1 DEF Chained
      <3>3. PICK s \in S : s = h[k]
        BY <2>2
      <3>4. F[<<j, s>>] \in S
        OBVIOUS
      <3> QED BY <3>1, <3>2, <3>3, <3>4
    <2> HIDE DEF T
    <2>3. \A w \in 0..n : w \in T
      BY <2>1, <2>2, CountUp
    <2> QED BY <2>3 DEF T
  <1> QED BY <1>3, <1>4
-----------------------------------------------------------------------------
(* The book of a family. *)

PlanTyped(plan) == plan \in [Products -> [Weeks -> Nat]]
Entry == [inventory : Nat, backlog : Nat]

LEMMA FamilySums ==
    ASSUME ForecastTyped, NEW plan, PlanTyped(plan), NEW f \in Families, NEW w \in Weeks
    PROVE  FamilyBatches(plan, f, w) \in Nat /\ DemandTenths(f, w) \in Nat
  <1>0. IsFiniteSet(Members(f)) /\ Members(f) \in SUBSET Products
    BY Finite
  <1>1. FamilyBatches(plan, f, w) \in Nat
    <2>1. PICK g : g = [p \in Members(f) |-> plan[p][w]]
      OBVIOUS
    <2>2. DOMAIN g = Members(f) /\ \A p \in Members(f) : g[p] \in Nat
      BY <1>0, <2>1 DEF PlanTyped
    <2>3. SumFunction(g) = Total(g, Members(f))
      <3>1. \A p \in DOMAIN g : g[p] \in Int
        BY <2>2
      <3> QED BY <1>0, <2>2, <3>1, SumIsTotal
    <2>4. Total(g, Members(f)) \in Nat
      BY <1>0, <2>2, TotalNatural
    <2> QED BY <2>1, <2>3, <2>4 DEF FamilyBatches
  <1>2. FamilyUnits(f, w) \in Nat
    <2>1. PICK g : g = [p \in Members(f) |-> forecast[p][w]]
      OBVIOUS
    <2>2. DOMAIN g = Members(f) /\ \A p \in Members(f) : g[p] \in Nat
      BY <1>0, <2>1 DEF ForecastTyped
    <2>3. SumFunction(g) = Total(g, Members(f))
      <3>1. \A p \in DOMAIN g : g[p] \in Int
        BY <2>2
      <3> QED BY <1>0, <2>2, <3>1, SumIsTotal
    <2>4. Total(g, Members(f)) \in Nat
      BY <1>0, <2>2, TotalNatural
    <2> QED BY <2>1, <2>3, <2>4 DEF FamilyUnits
  <1>3. DemandTenths(f, w) \in Nat
    <2>1. PICK u \in Nat, d \in Nat \ {0} : u = 10 * FamilyUnits(f, w) /\ d = UnitsPerBatch
      BY <1>2, PlanAssumption
    <2> QED BY <2>1, RoundedBounds DEF DemandTenths
  <1> QED BY <1>1, <1>3

LEMMA NettedStep ==
    ASSUME NEW before \in Entry, NEW made \in Nat, NEW demand \in Nat
    PROVE  /\ Netted(before, made, demand) \in Entry
           /\ Netted(before, made, demand).inventory - Netted(before, made, demand).backlog
                = before.inventory - before.backlog + (10 * made - demand)
           /\ Netted(before, made, demand).inventory = 0 \/ Netted(before, made, demand).backlog = 0
  <1>1. PICK i \in Nat, b \in Nat : i = before.inventory /\ b = before.backlog
    BY DEF Entry
  <1>2. PICK net \in Int : net = i + 10 * made - demand - b
    OBVIOUS
  <1>3. Netted(before, made, demand) = IF net >= 0 THEN [inventory |-> net, backlog |-> 0]
                                       ELSE [inventory |-> 0, backlog |-> -net]
    BY <1>1, <1>2 DEF Netted
  <1>4. CASE net >= 0
    BY <1>1, <1>2, <1>3, <1>4 DEF Entry
  <1>5. CASE ~(net >= 0)
    BY <1>1, <1>2, <1>3, <1>5 DEF Entry
  <1> QED BY <1>4, <1>5

Flow(g, plan, f) ==
    /\ g[0] = [inventory |-> 10 * InitialInventory[f], backlog |-> 0]
    /\ \A w \in Weeks : g[w] = Netted(g[w - 1], FamilyBatches(plan, f, w), DemandTenths(f, w))

LEMMA BookIsFlow ==
    ASSUME ForecastTyped, NEW plan, PlanTyped(plan), NEW f \in Families
    PROVE  \E g : Flow(g, plan, f) /\ \A w \in Weeks : Book(plan, f)[w] = g[w]
  <1> DEFINE base == [inventory |-> 10 * InitialInventory[f], backlog |-> 0]
             F == [pair \in (1..LastWeek) \X Entry |->
                     Netted(pair[2], FamilyBatches(plan, f, pair[1]), DemandTenths(f, pair[1]))]
             Own(h) == h = [w \in 0..LastWeek |-> IF w = 0 THEN base
                             ELSE Netted(h[w - 1], FamilyBatches(plan, f, w), DemandTenths(f, w))]
  <1>0. LastWeek \in Nat /\ Weeks = 1..LastWeek
    BY PlanAssumption DEF Weeks
  <1>1. base \in Entry
    <2>1. InitialInventory[f] \in Nat
      BY PlanAssumption
    <2> QED BY <2>1 DEF Entry
  <1>2. \A w \in 1..LastWeek, e \in Entry :
           /\ F[<<w, e>>] = Netted(e, FamilyBatches(plan, f, w), DemandTenths(f, w))
           /\ Netted(e, FamilyBatches(plan, f, w), DemandTenths(f, w)) \in Entry
    <2>1. \A w \in 1..LastWeek : FamilyBatches(plan, f, w) \in Nat /\ DemandTenths(f, w) \in Nat
      BY <1>0, FamilySums
    <2> QED BY <2>1, NettedStep
  <1>3. F \in [(1..LastWeek) \X Entry -> Entry]
    BY <1>2
  <1>4. PICK h : Chained(h, LastWeek, base, F) /\ \A w \in 0..LastWeek : h[w] \in Entry
    <2> HIDE DEF base, F
    <2> QED BY <1>0, <1>1, <1>3, ChainExists
  <1>5. Own(h)
    <2> HIDE DEF base, F
    <2>1. \A w \in 0..LastWeek : w # 0 => w \in 1..LastWeek /\ w - 1 \in 0..LastWeek
      BY <1>0
    <2>2. \A w \in 0..LastWeek : w # 0 =>
             F[<<w, h[w - 1]>>] = Netted(h[w - 1], FamilyBatches(plan, f, w), DemandTenths(f, w))
      BY <1>2, <1>4, <2>1
    <2> QED BY <1>4, <2>2 DEF Chained
  <1>6. PICK g : g = CHOOSE k : Own(k)
    OBVIOUS
  <1>7. Own(g)
    <2> HIDE DEF Own
    <2> QED BY <1>5, <1>6
  <1>8. Book(plan, f) = [w \in Weeks |-> g[w]]
    <2>1. Book(plan, f) = [w \in Weeks |-> (CHOOSE k : Own(k))[w]]
      BY DEF Book
    <2> HIDE DEF Own
    <2> QED BY <1>6, <2>1
  <1>9. Flow(g, plan, f)
    <2>1. \A w \in Weeks : w \in 0..LastWeek /\ w # 0
      BY <1>0
    <2>2. 0 \in 0..LastWeek
      BY <1>0
    <2>3. \A w \in 0..LastWeek :
             g[w] = IF w = 0 THEN base ELSE Netted(g[w - 1], FamilyBatches(plan, f, w), DemandTenths(f, w))
      BY <1>7
    <2> QED BY <2>1, <2>2, <2>3 DEF Flow
  <1> QED BY <1>8, <1>9

LEMMA BookBalances ==
    ASSUME ForecastTyped, NEW plan, PlanTyped(plan), NEW f \in Families, NEW w \in Weeks
    PROVE  /\ Book(plan, f)[w].inventory - Book(plan, f)[w].backlog
                = 10 * InitialInventory[f]
                  + SumFunction([v \in 1..w |-> 10 * FamilyBatches(plan, f, v) - DemandTenths(f, v)])
           /\ Book(plan, f)[w].inventory = 0 \/ Book(plan, f)[w].backlog = 0
  <1>0. /\ LastWeek \in Nat /\ Weeks = 1..LastWeek /\ InitialInventory[f] \in Nat
    BY PlanAssumption DEF Weeks
  <1>1. PICK g : Flow(g, plan, f) /\ \A v \in Weeks : Book(plan, f)[v] = g[v]
    BY BookIsFlow
  <1>2. PICK d : d = [v \in Weeks |-> 10 * FamilyBatches(plan, f, v) - DemandTenths(f, v)]
    OBVIOUS
  <1>3. \A v \in Weeks : /\ FamilyBatches(plan, f, v) \in Nat /\ DemandTenths(f, v) \in Nat
                         /\ d[v] = 10 * FamilyBatches(plan, f, v) - DemandTenths(f, v) /\ d[v] \in Int
    BY <1>2, FamilySums
  <1> DEFINE Good(v) == /\ g[v] \in Entry
                        /\ g[v].inventory - g[v].backlog = 10 * InitialInventory[f] + SumTo(d, v)
                        /\ g[v].inventory = 0 \/ g[v].backlog = 0
             T == {v \in 0..LastWeek : Good(v)}
  <1>4. 0 \in T
    <2>1. SumTo(d, 0) = 0
      <3>1. \A v \in 1..(0 + 1) : d[v] \in Int
        BY <1>0, <1>3, PlanAssumption
      <3> QED BY <3>1, SumWeekByWeek
    <2>2. g[0] = [inventory |-> 10 * InitialInventory[f], backlog |-> 0]
      BY <1>1 DEF Flow
    <2> QED BY <1>0, <2>1, <2>2 DEF Entry
  <1>5. ASSUME NEW k \in 0..(LastWeek - 1), k \in T PROVE k + 1 \in T
    <2>1. PICK v \in Weeks : v = k + 1 /\ v - 1 = k /\ v \in 0..LastWeek
      BY <1>0
    <2>2. PICK before \in Entry : before = g[k]
      BY <1>5
    <2>3. PICK made \in Nat, demand \in Nat : /\ made = FamilyBatches(plan, f, v) /\ demand = DemandTenths(f, v)
                                              /\ d[v] = 10 * made - demand
      BY <1>3
    <2>4. g[v] = Netted(before, made, demand)
      BY <1>1, <2>1, <2>2, <2>3 DEF Flow
    <2>5. /\ g[v] \in Entry /\ (g[v].inventory = 0 \/ g[v].backlog = 0)
          /\ g[v].inventory - g[v].backlog = before.inventory - before.backlog + d[v]
      <3>1. /\ g[v] \in Entry
            /\ g[v].inventory - g[v].backlog = before.inventory - before.backlog + (10 * made - demand)
            /\ g[v].inventory = 0 \/ g[v].backlog = 0
        <4>1. PICK after : after = Netted(before, made, demand)
          OBVIOUS
        <4>2. /\ after \in Entry
              /\ after.inventory - after.backlog = before.inventory - before.backlog + (10 * made - demand)
              /\ after.inventory = 0 \/ after.backlog = 0
          BY <4>1, NettedStep
        <4>3. g[v] = after
          BY <2>4, <4>1
        <4> QED BY <4>2, <4>3
      <3> QED BY <2>3, <3>1
    <2>6. SumTo(d, v) = SumTo(d, k) + d[v] /\ SumTo(d, k) \in Int
      <3>1. \A u \in 1..(k + 1) : d[u] \in Int
        BY <1>0, <1>3
      <3> QED BY <2>1, <3>1, SumWeekByWeek
    <2>7. before.inventory - before.backlog = 10 * InitialInventory[f] + SumTo(d, k)
      BY <1>5, <2>2
    <2>8. g[v].inventory - g[v].backlog = 10 * InitialInventory[f] + SumTo(d, v)
      <3>1. PICK s \in Int, i \in Nat, c \in Int : s = SumTo(d, k) /\ i = InitialInventory[f] /\ c = d[v]
        BY <1>0, <1>3, <2>6
      <3>2. (10 * i + s) + c = 10 * i + (s + c)
        OBVIOUS
      <3> QED BY <2>5, <2>6, <2>7, <3>1, <3>2
    <2>9. Good(v)
      <3>1. g[v].inventory - g[v].backlog = 10 * InitialInventory[f] + SumTo(d, v)
        BY <2>8
      <3>2. g[v] \in Entry /\ (g[v].inventory = 0 \/ g[v].backlog = 0)
        BY <2>5
      <3> QED BY <3>1, <3>2
    <2> HIDE DEF Good
    <2> QED BY <2>1, <2>9
  <1>6. w \in T
    <2> HIDE DEF T
    <2>1. \A v \in 0..LastWeek : v \in T
      BY <1>0, <1>4, <1>5, CountUp
    <2>2. w \in 0..LastWeek
      BY <1>0
    <2> QED BY <2>1, <2>2
  <1>7. SumTo(d, w) = SumFunction([v \in 1..w |-> 10 * FamilyBatches(plan, f, v) - DemandTenths(f, v)])
    <2>1. \A v \in 1..w : v \in Weeks
      BY <1>0
    <2>2. [v \in 1..w |-> d[v]] = [v \in 1..w |-> 10 * FamilyBatches(plan, f, v) - DemandTenths(f, v)]
      BY <1>3, <2>1
    <2> QED BY <2>2 DEF SumTo
  <1> QED BY <1>1, <1>6, <1>7
-----------------------------------------------------------------------------
(* Material orders. *)

Row == [net : Nat, receipt : Nat, available : Int, release : Int,
        action : {"NONE", "EXPEDITE", "RELEASE"}]

LEMMA Multiple ==
    ASSUME NEW k \in Nat, NEW d \in Nat \ {0}
    PROVE  (k * d) % d = 0
  <1>1. PICK n \in Nat : n = k * d
    OBVIOUS
  <1>2. PICK q \in Int, r \in 0..(d - 1) : r = n % d /\ n = d * q + r
    BY <1>1, Division
  <1>3. r = d * (k - q)
    <2>1. PICK b \in Int : b = d * q
      OBVIOUS
    <2>2. d * (k - q) = k * d - b
      BY <2>1
    <2>3. n = b + r
      BY <1>2, <2>1
    <2>4. d * (k - q) = n - b
      BY <1>1, <2>2
    <2> QED BY <2>3, <2>4
  <1>4. PICK j \in Int : j = k - q
    OBVIOUS
  <1>5. CASE j <= 0
    <2>1. d * j <= 0
      BY <1>5
    <2> QED BY <1>1, <1>2, <1>3, <1>4, <2>1
  <1>6. CASE j >= 1
    <2>1. d * j >= d
      BY <1>6
    <2> QED BY <1>2, <1>3, <1>4, <2>1
  <1> QED BY <1>5, <1>6

LEMMA LeadAtLeastOne ==
    ASSUME NEW x \in Materials
    PROVE  LeadWeeks(x) \in Nat /\ LeadWeeks(x) >= 1
  <1>1. PICK r \in Nat : r = Rounded(LeadDays[x], 7)
    <2>1. LeadDays[x] \in Nat /\ 7 \in Nat \ {0}
      BY MaterialAssumption
    <2> QED BY <2>1, RoundedBounds
  <1>2. Max({1, r}) = IF 1 >= r THEN 1 ELSE r
    <2>1. 1 \in Int /\ r \in Int
      OBVIOUS
    <2> QED BY <2>1, Larger
  <1> QED BY <1>1, <1>2 DEF LeadWeeks

\* One week of a material.
LEMMA OrderRowFits ==
    ASSUME NEW x \in Materials, NEW w \in Weeks, NEW left \in Int, NEW stock \in Nat,
           NEW r, r = OrderRow(x, w, left, stock)
    PROVE  /\ r \in Row
           /\ r.available = left + r.receipt /\ r.available >= stock
           /\ r.receipt % OrderLot[x] = 0
           /\ r.receipt > 0 => r.available < stock + OrderLot[x]
           /\ r.release = w - LeadWeeks(x)
           /\ w = 1 /\ left < stock => r.action = "EXPEDITE"
  <1>1. PICK L \in Nat \ {0} : L = OrderLot[x]
    BY MaterialAssumption
  <1>2. PICK net \in Nat : net = Max0(stock - left) /\ net = (IF stock - left > 0 THEN stock - left ELSE 0)
    <2>1. stock - left \in Int
      OBVIOUS
    <2> QED BY <2>1, NotNegative
  <1>3. PICK n \in Nat : /\ n = RoundedUp(net, L) /\ net <= n * L /\ n * L < net + L
                         /\ (n = 0 <=> net = 0)
    BY RoundedUpBounds
  <1>4. PICK receipt \in Nat : receipt = n * L
    OBVIOUS
  <1>5. receipt % L = 0 /\ net <= receipt /\ receipt < net + L /\ (net = 0 => receipt = 0)
    <2>1. (n * L) % L = 0
      BY Multiple
    <2>2. n = 0 => n * L = 0
      OBVIOUS
    <2> QED BY <1>3, <1>4, <2>1, <2>2
  <1>6. PICK lead \in Nat, week \in Nat : lead = LeadWeeks(x) /\ lead >= 1 /\ week = w
    BY LeadAtLeastOne, PlanAssumption DEF Weeks
  <1>7. PICK act \in {"NONE", "EXPEDITE", "RELEASE"} :
          act = CASE receipt = 0 -> "NONE"
                  [] receipt > 0 /\ week - lead <= 0 -> "EXPEDITE"
                  [] OTHER -> "RELEASE"
    <2>1. CASE receipt = 0
      BY <2>1
    <2>2. CASE receipt # 0
      BY <2>2
    <2> QED BY <2>1, <2>2
  <1>8. r = [net |-> net, receipt |-> receipt, available |-> left + receipt, release |-> week - lead,
             action |-> act]
    BY <1>1, <1>2, <1>3, <1>4, <1>6, <1>7 DEF OrderRow
  <1>9. r \in Row
    BY <1>8 DEF Row
  <1>10. /\ r.available = left + receipt /\ r.receipt = receipt /\ r.release = week - lead
         /\ r.action = act
    BY <1>8
  <1>11. r.available >= stock
    BY <1>2, <1>5, <1>10
  <1>12. receipt > 0 => left + receipt < stock + L
    BY <1>2, <1>5
  <1>13. week = 1 /\ left < stock => act = "EXPEDITE"
    <2>1. SUFFICES ASSUME week = 1, left < stock PROVE act = "EXPEDITE"
      OBVIOUS
    <2>2. receipt > 0 /\ receipt # 0 /\ week - lead <= 0
      BY <1>2, <1>5, <1>6, <2>1
    <2> QED BY <1>7, <2>2
  <1> QED BY <1>1, <1>5, <1>6, <1>9, <1>10, <1>11, <1>12, <1>13

LEMMA GrossTyped ==
    ASSUME PlanTyped(batches), NEW x \in Materials, NEW w \in Weeks
    PROVE  Gross(x, w) \in Nat
  <1>1. PICK g : g = [p \in Products |-> PlannedUnits(p, w) * Bom[p][x]]
    OBVIOUS
  <1>2. ASSUME NEW p \in Products PROVE g[p] \in Nat
    <2>1. PICK b \in Nat, u \in Nat, q \in Nat : b = batches[p][w] /\ u = UnitsPerBatch /\ q = Bom[p][x]
      BY PlanAssumption, MaterialAssumption DEF PlanTyped
    <2>2. (b * u) * q \in Nat
      <3>1. b * u \in Nat
        OBVIOUS
      <3> QED BY <3>1
    <2> QED BY <1>1, <2>1, <2>2 DEF PlannedUnits
  <1>3. DOMAIN g = Products
    BY <1>1
  <1>4. SumFunction(g) = Total(g, Products)
    <2>1. \A p \in DOMAIN g : g[p] \in Int
      BY <1>2, <1>3
    <2> QED BY <1>3, <2>1, Finite, SumIsTotal
  <1>5. Total(g, Products) \in Nat
    BY <1>2, Finite, TotalNatural
  <1> QED BY <1>1, <1>4, <1>5 DEF Gross

\* The rows of a material, week after week.
Rows(r, x, stock) ==
    /\ r \in [Weeks -> Row]
    /\ \A w \in Weeks :
         r[w] = OrderRow(x, w, (IF w = 1 THEN OnHand[x] ELSE r[w - 1].available) - Gross(x, w), stock)

LEMMA OrderRows ==
    ASSUME PlanTyped(batches), NEW x \in Materials, NEW stock \in Nat,
           NEW r, r = Orders(x, stock)
    PROVE  Rows(r, x, stock)
  <1> DEFINE Own(h) == h = [w \in Weeks |->
                OrderRow(x, w, (IF w = 1 THEN OnHand[x] ELSE h[w - 1].available) - Gross(x, w), stock)]
             F == [pair \in Weeks \X Row |-> OrderRow(x, pair[1], pair[2].available - Gross(x, pair[1]), stock)]
             m == [w \in Weeks |-> w - 1]
             key == [w \in Weeks |-> w]
             B == [w \in Weeks |-> OrderRow(x, w, OnHand[x] - Gross(x, w), stock)]
  <1>0. /\ LastWeek \in Nat \ {0} /\ Weeks = 1..LastWeek /\ OnHand[x] \in Nat
        /\ \A w \in Weeks : Gross(x, w) \in Nat
    BY GrossTyped, PlanAssumption, MaterialAssumption DEF Weeks
  <1>1. PICK N \in Nat : N = LastWeek - 1
    BY <1>0
  <1>2. PICK h : Recursive(h, Weeks, m, m, key, B, F)
    <2>1. \A w \in Weeks : m[w] \in 0..N
      BY <1>0, <1>1
    <2>2. \A w \in Weeks : m[w] # 0 => m[w] \in Weeks /\ m[m[w]] < m[w]
      BY <1>0, <1>1
    <2> HIDE DEF m, key, B, F
    <2> QED BY <2>1, <2>2, RecursionExists
  <1>3. \A w \in Weeks : h[w] = IF w = 1 THEN B[w] ELSE F[<<w, h[w - 1]>>]
    <2>1. \A w \in Weeks : m[w] = w - 1 /\ key[w] = w /\ (w - 1 = 0 <=> w = 1)
      BY <1>0
    <2> HIDE DEF m, key, B, F
    <2>2. \A w \in Weeks : h[w] = IF m[w] = 0 THEN B[w] ELSE F[<<key[w], h[m[w]]>>]
      BY <1>2 DEF Recursive
    <2> TAKE w \in Weeks
    <2>3. m[w] = w - 1 /\ key[w] = w /\ (m[w] = 0 <=> w = 1)
      BY <2>1
    <2>4. h[w] = IF m[w] = 0 THEN B[w] ELSE F[<<key[w], h[m[w]]>>]
      BY <2>2
    <2> QED BY <2>3, <2>4
  <1>4. \A w \in Weeks : B[w] = OrderRow(x, w, OnHand[x] - Gross(x, w), stock) /\ B[w] \in Row
    <2> TAKE w \in Weeks
    <2>1. OnHand[x] - Gross(x, w) \in Int
      BY <1>0
    <2> QED BY <2>1, OrderRowFits
  <1>5. \A w \in Weeks, e \in Row : /\ F[<<w, e>>] = OrderRow(x, w, e.available - Gross(x, w), stock)
                                    /\ F[<<w, e>>] \in Row
    <2> TAKE w \in Weeks, e \in Row
    <2>1. e.available - Gross(x, w) \in Int
      BY <1>0 DEF Row
    <2>2. OrderRow(x, w, e.available - Gross(x, w), stock) \in Row
      BY <2>1, OrderRowFits
    <2> QED BY <2>2
  <1>6. \A w \in Weeks : h[w] \in Row
    <2> DEFINE T == {k \in 0..N : h[k + 1] \in Row}
    <2>1. 0 \in T
      <3>1. 1 \in Weeks
        BY <1>0
      <3>2. h[1] = B[1]
        BY <1>3, <3>1
      <3> QED BY <1>4, <3>1, <3>2
    <2>2. ASSUME NEW k \in 0..(N - 1), k \in T PROVE k + 1 \in T
      <3>1. PICK w \in Weeks : w = (k + 1) + 1 /\ w - 1 = k + 1 /\ w # 1
        BY <1>0, <1>1
      <3>2. PICK e \in Row : e = h[k + 1]
        BY <2>2
      <3> HIDE DEF F, B
      <3>3. h[w] = F[<<w, e>>]
        BY <1>3, <3>1, <3>2
      <3>4. h[w] \in Row
        BY <1>5, <3>3
      <3> QED BY <3>1, <3>4
    <2> HIDE DEF T, F, B
    <2>3. \A k \in 0..N : k \in T
      BY <2>1, <2>2, CountUp
    <2>4. \A k \in 0..N : h[k + 1] \in Row
      BY <2>3 DEF T
    <2> TAKE w \in Weeks
    <2>5. PICK k \in 0..N : w = k + 1
      BY <1>0, <1>1
    <2> QED BY <2>4, <2>5
  <1>7. Own(h)
    <2> HIDE DEF F, B
    <2>1. \A w \in Weeks : w # 1 => w - 1 \in Weeks
      BY <1>0
    <2>2. \A w \in Weeks :
             h[w] = OrderRow(x, w, (IF w = 1 THEN OnHand[x] ELSE h[w - 1].available) - Gross(x, w), stock)
      <3> TAKE w \in Weeks
      <3>1. CASE w = 1
        BY <1>3, <1>4, <3>1
      <3>2. CASE w # 1
        <4>1. PICK e \in Row : e = h[w - 1]
          BY <1>6, <2>1, <3>2
        <4>2. h[w] = F[<<w, e>>]
          BY <1>3, <3>2, <4>1
        <4> QED BY <1>5, <3>2, <4>1, <4>2
      <3> QED BY <3>1, <3>2
    <2>3. h = [w \in Weeks |-> h[w]]
      <3> HIDE DEF m, key
      <3> QED BY <1>2 DEF Recursive
    <2> QED BY <2>2, <2>3
  <1>8. Own(r)
    <2>1. r = CHOOSE k : Own(k)
      BY DEF Orders
    <2> HIDE DEF Own
    <2> QED BY <1>7, <2>1
  <1>9. \A w \in Weeks :
           r[w] = OrderRow(x, w, (IF w = 1 THEN OnHand[x] ELSE r[w - 1].available) - Gross(x, w), stock)
    BY <1>8
  <1>10. \A w \in Weeks : r[w] \in Row
    <2> DEFINE T == {k \in 0..N : r[k + 1] \in Row}
    <2>1. 0 \in T
      <3>1. 1 \in Weeks /\ OnHand[x] - Gross(x, 1) \in Int
        BY <1>0
      <3>2. r[1] = OrderRow(x, 1, OnHand[x] - Gross(x, 1), stock)
        BY <1>9, <3>1
      <3> QED BY <3>1, <3>2, OrderRowFits
    <2>2. ASSUME NEW k \in 0..(N - 1), k \in T PROVE k + 1 \in T
      <3>1. PICK w \in Weeks : w = (k + 1) + 1 /\ w - 1 = k + 1 /\ w # 1
        BY <1>0, <1>1
      <3>2. PICK e \in Row : e = r[k + 1]
        BY <2>2
      <3>3. r[w] = OrderRow(x, w, e.available - Gross(x, w), stock)
        BY <1>9, <3>1, <3>2
      <3>4. e.available - Gross(x, w) \in Int
        BY <1>0 DEF Row
      <3>5. r[w] \in Row
        BY <3>3, <3>4, OrderRowFits
      <3> QED BY <3>1, <3>5
    <2> HIDE DEF T
    <2>3. \A k \in 0..N : k \in T
      BY <2>1, <2>2, CountUp
    <2>4. \A k \in 0..N : r[k + 1] \in Row
      BY <2>3 DEF T
    <2> TAKE w \in Weeks
    <2>5. PICK k \in 0..N : w = k + 1
      BY <1>0, <1>1
    <2> QED BY <2>4, <2>5
  <1>11. r \in [Weeks -> Row]
    <2>1. r = [w \in Weeks |-> r[w]]
      BY <1>8
    <2> QED BY <1>10, <2>1
  <1> QED BY <1>9, <1>11 DEF Rows

\* What is left after a week is the stock and all receipts less all consumption.
LEMMA OrdersBalance ==
    ASSUME PlanTyped(batches), NEW x \in Materials, NEW stock \in Nat,
           NEW r, Rows(r, x, stock), NEW w \in Weeks
    PROVE  OnHand[x] + SumFunction([v \in 1..w |-> r[v].receipt])
             - SumFunction([v \in 1..w |-> Gross(x, v)]) = r[w].available
  <1>0. /\ LastWeek \in Nat \ {0} /\ Weeks = 1..LastWeek /\ OnHand[x] \in Nat
        /\ \A v \in Weeks : Gross(x, v) \in Nat
    BY GrossTyped, PlanAssumption, MaterialAssumption DEF Weeks
  <1>1. /\ r \in [Weeks -> Row]
        /\ \A v \in Weeks :
             r[v] = OrderRow(x, v, (IF v = 1 THEN OnHand[x] ELSE r[v - 1].available) - Gross(x, v), stock)
    BY DEF Rows
  <1>2. PICK a : a = [v \in Weeks |-> r[v].receipt]
    OBVIOUS
  <1>3. PICK b : b = [v \in Weeks |-> Gross(x, v)]
    OBVIOUS
  <1>4. \A v \in Weeks : a[v] = r[v].receipt /\ a[v] \in Int /\ b[v] = Gross(x, v) /\ b[v] \in Int
    BY <1>0, <1>1, <1>2, <1>3 DEF Row
  <1> DEFINE T == {k \in 0..LastWeek :
                     k # 0 => OnHand[x] + SumTo(a, k) - SumTo(b, k) = r[k].available}
  <1>5. 0 \in T
    BY <1>0
  <1>6. ASSUME NEW k \in 0..(LastWeek - 1), k \in T PROVE k + 1 \in T
    <2>1. PICK v \in Weeks : v = k + 1 /\ v - 1 = k /\ v \in 0..LastWeek
      BY <1>0
    <2>2. /\ SumTo(a, v) = SumTo(a, k) + a[v] /\ SumTo(a, k) \in Int /\ SumTo(a, 0) = 0
          /\ SumTo(b, v) = SumTo(b, k) + b[v] /\ SumTo(b, k) \in Int /\ SumTo(b, 0) = 0
      <3>1. \A u \in 1..(k + 1) : a[u] \in Int /\ b[u] \in Int
        BY <1>0, <1>4
      <3> QED BY <2>1, <3>1, SumWeekByWeek
    <2>3. PICK before \in Int : /\ before = (IF v = 1 THEN OnHand[x] ELSE r[v - 1].available)
                                /\ before = OnHand[x] + SumTo(a, k) - SumTo(b, k)
      <3>1. CASE k = 0
        <4>1. v = 1 /\ SumTo(a, k) = 0 /\ SumTo(b, k) = 0
          BY <2>1, <2>2, <3>1
        <4> QED BY <1>0, <4>1
      <3>2. CASE k # 0
        <4>1. v # 1 /\ OnHand[x] + SumTo(a, k) - SumTo(b, k) = r[k].available
          BY <1>6, <2>1, <3>2
        <4>2. OnHand[x] + SumTo(a, k) - SumTo(b, k) \in Int
          BY <1>0, <2>2
        <4> QED BY <2>1, <4>1, <4>2
      <3> QED BY <3>1, <3>2
    <2>4. PICK left \in Int : left = before - Gross(x, v)
      BY <1>0
    <2>5. r[v].available = left + r[v].receipt
      <3>1. r[v] = OrderRow(x, v, left, stock)
        BY <1>1, <2>3, <2>4
      <3>2. PICK row : row = OrderRow(x, v, left, stock)
        OBVIOUS
      <3>3. row.available = left + row.receipt
        BY <3>2, OrderRowFits
      <3> QED BY <3>1, <3>2, <3>3
    <2>6. r[v].available = OnHand[x] + SumTo(a, v) - SumTo(b, v)
      <3>1. PICK s \in Int, t \in Int, rec \in Int, gr \in Int, hand \in Int :
               s = SumTo(a, k) /\ t = SumTo(b, k) /\ rec = a[v] /\ gr = b[v] /\ hand = OnHand[x]
        <4>1. SumTo(a, k) \in Int /\ SumTo(b, k) \in Int
          BY <2>2
        <4>2. a[v] \in Int /\ b[v] \in Int
          BY <1>4
        <4>3. OnHand[x] \in Int
          BY <1>0
        <4> QED BY <4>1, <4>2, <4>3
      <3>2. r[v].available = (hand + s - t) - gr + rec
        BY <1>4, <2>3, <2>4, <2>5, <3>1
      <3>3. OnHand[x] + SumTo(a, v) - SumTo(b, v) = hand + (s + rec) - (t + gr)
        BY <2>2, <3>1
      <3>4. (hand + s - t) - gr + rec = hand + (s + rec) - (t + gr)
        OBVIOUS
      <3> QED BY <3>2, <3>3, <3>4
    <2> QED BY <2>1, <2>6
  <1>7. OnHand[x] + SumTo(a, w) - SumTo(b, w) = r[w].available
    <2> HIDE DEF T
    <2>1. \A k \in 0..LastWeek : k \in T
      BY <1>0, <1>5, <1>6, CountUp
    <2>2. w \in 0..LastWeek /\ w # 0
      BY <1>0
    <2>3. w \in T
      BY <2>1, <2>2
    <2> QED BY <2>2, <2>3 DEF T
  <1>8. \A v \in 1..w : v \in Weeks
    BY <1>0
  <1>9. /\ SumTo(a, w) = SumFunction([v \in 1..w |-> r[v].receipt])
        /\ SumTo(b, w) = SumFunction([v \in 1..w |-> Gross(x, v)])
    <2>1. /\ [v \in 1..w |-> a[v]] = [v \in 1..w |-> r[v].receipt]
          /\ [v \in 1..w |-> b[v]] = [v \in 1..w |-> Gross(x, v)]
      BY <1>4, <1>8
    <2> QED BY <2>1 DEF SumTo
  <1> QED BY <1>7, <1>9

LEMMA OrdersCover ==
    ASSUME PlanTyped(batches), NEW x \in Materials, NEW stock \in Nat,
           NEW r, Rows(r, x, stock), NEW w \in Weeks
    PROVE  /\ r[w].available >= stock /\ r[w].receipt % OrderLot[x] = 0
           /\ r[w].receipt > 0 => r[w].available < stock + OrderLot[x]
           /\ w = 1 /\ OnHand[x] < Gross(x, 1) =>
                r[1].action = "EXPEDITE" /\ r[1].release = 1 - LeadWeeks(x)
  <1>0. /\ LastWeek \in Nat \ {0} /\ Weeks = 1..LastWeek /\ OnHand[x] \in Nat
        /\ \A v \in Weeks : Gross(x, v) \in Nat
    BY GrossTyped, PlanAssumption, MaterialAssumption DEF Weeks
  <1>1. /\ r \in [Weeks -> Row]
        /\ \A v \in Weeks :
             r[v] = OrderRow(x, v, (IF v = 1 THEN OnHand[x] ELSE r[v - 1].available) - Gross(x, v), stock)
    BY DEF Rows
  <1>2. PICK left \in Int : left = (IF w = 1 THEN OnHand[x] ELSE r[w - 1].available) - Gross(x, w)
    <2>1. w # 1 => w - 1 \in Weeks
      BY <1>0
    <2>2. (IF w = 1 THEN OnHand[x] ELSE r[w - 1].available) \in Int
      BY <1>0, <1>1, <2>1 DEF Row
    <2> QED BY <1>0, <2>2
  <1>3. PICK row : row = r[w] /\ row = OrderRow(x, w, left, stock)
    BY <1>1, <1>2
  <1>4. /\ row.available >= stock /\ row.receipt % OrderLot[x] = 0
        /\ row.receipt > 0 => row.available < stock + OrderLot[x]
        /\ row.release = w - LeadWeeks(x)
        /\ w = 1 /\ left < stock => row.action = "EXPEDITE"
    BY <1>3, OrderRowFits
  <1>5. w = 1 /\ OnHand[x] < Gross(x, 1) => left < stock
    BY <1>0, <1>2
  <1> QED BY <1>3, <1>4, <1>5
-----------------------------------------------------------------------------
(* Release times. *)

LEMMA ConsumedFinite ==
    \A p \in Products : Consumed[p] \in SUBSET Materials /\ IsFiniteSet(Consumed[p])
  <1> TAKE p \in Products
  <1>1. Consumed[p] \in SUBSET Materials
    BY DEF Consumed
  <1> QED BY <1>1, FS_Subset, MaterialAssumption

OrdersTyped == orders \in [Materials -> [Weeks -> Row]]

LEMMA AvailableTyped ==
    ASSUME OrdersTyped, NEW x \in Materials
    PROVE  /\ AvailableAt(x) \in Nat
           /\ orders[x][1].action = "EXPEDITE" =>
                /\ AvailableAt(x) = ExpediteMin + Max0(-orders[x][1].release) * ExtraWeekMin
  <1>1. 1 \in Weeks
    BY PlanAssumption DEF Weeks
  <1>2. PICK k \in Int : k = -orders[x][1].release
    BY <1>1 DEF OrdersTyped, Row
  <1>3. PICK n \in Nat : n = Max0(k)
    BY NotNegative
  <1>4. 480 + n * 480 \in Nat
    OBVIOUS
  <1> QED BY <1>2, <1>3, <1>4 DEF AvailableAt, ExpediteMin, ExtraWeekMin

LEMMA ReleaseAfterMaterials ==
    ASSUME OrdersTyped, NEW p \in Products, NEW wait \in Nat
    PROVE  /\ ReleaseTime(p, wait) \in Nat
           /\ \A x \in Consumed[p] : ReleaseTime(p, wait) >= AvailableAt(x) + wait
           /\ Consumed[p] # {} => \E x \in Consumed[p] : ReleaseTime(p, wait) = AvailableAt(x) + wait
           /\ Consumed[p] = {} => ReleaseTime(p, wait) = wait
  <1>1. Consumed[p] \in SUBSET Materials /\ IsFiniteSet(Consumed[p])
    BY ConsumedFinite
  <1> DEFINE A == {AvailableAt(x) : x \in Consumed[p]}
  <1>2. IsFiniteSet(A) /\ A \subseteq Nat
    <2>1. IsFiniteSet(A)
      <3>1. PICK g : g = [x \in Consumed[p] |-> AvailableAt(x)]
        OBVIOUS
      <3>2. g \in Surjection(Consumed[p], A)
        BY <3>1 DEF Surjection
      <3> QED BY <1>1, <3>2, FS_Surjection
    <2>2. A \subseteq Nat
      BY <1>1, AvailableTyped
    <2> QED BY <2>1, <2>2
  <1>3. IsFiniteSet({0} \cup A) /\ {0} \cup A \subseteq Int /\ {0} \cup A # {}
    <2>1. IsFiniteSet(A \cup {0})
      BY <1>2, FS_AddElement
    <2>2. A \cup {0} = {0} \cup A
      OBVIOUS
    <2> QED BY <1>2, <2>1, <2>2
  <1>4. PICK max : max = Max({0} \cup A) /\ max \in {0} \cup A /\ \A y \in {0} \cup A : max >= y
    <2> HIDE DEF A
    <2> QED BY <1>3, MaxOfFinite
  <1>5. max \in Nat /\ \A x \in Consumed[p] : max >= AvailableAt(x) /\ AvailableAt(x) \in Nat
    BY <1>2, <1>4
  <1>6. ReleaseTime(p, wait) = max + wait
    BY <1>4 DEF ReleaseTime
  <1>7. Consumed[p] # {} => \E x \in Consumed[p] : max = AvailableAt(x)
    <2>1. SUFFICES ASSUME NEW z \in Consumed[p] PROVE \E x \in Consumed[p] : max = AvailableAt(x)
      OBVIOUS
    <2>2. CASE max \in A
      BY <2>2
    <2>3. CASE max \notin A
      <3>1. max = 0 /\ max >= AvailableAt(z) /\ AvailableAt(z) \in Nat
        BY <1>4, <1>5, <2>3
      <3>2. max = AvailableAt(z)
        BY <3>1
      <3> QED BY <3>2
    <2> QED BY <2>2, <2>3
  <1>8. Consumed[p] = {} => max = 0
    BY <1>4
  <1>9. \A x \in Consumed[p] : max + wait >= AvailableAt(x) + wait
    BY <1>5
  <1> HIDE DEF A
  <1>10. max + wait \in Nat /\ 0 + wait = wait
    BY <1>5
  <1> QED BY <1>6, <1>7, <1>8, <1>9, <1>10
-----------------------------------------------------------------------------
(* Transfer lots. *)

Made(total, limit, i) == IF i * limit <= total THEN i * limit ELSE total

Streamed(total, limit, sizes, n) ==
    /\ DOMAIN sizes = 1..n /\ (n = 0 <=> total = 0)
    /\ Made(total, limit, 0) = 0 /\ Made(total, limit, n) = total
    /\ \A i \in 1..n : /\ sizes[i] \in 1..limit
                       /\ Made(total, limit, i) = Made(total, limit, i - 1) + sizes[i]
                       /\ Made(total, limit, i - 1) \in Nat

LEMMA SubLotsStream ==
    ASSUME NEW total \in Nat, NEW limit \in Nat \ {0}, NEW sizes, sizes = SubLotSizes(total, limit)
    PROVE  \E n \in Nat : Streamed(total, limit, sizes, n)
  <1>1. CASE total = 0
    <2>1. sizes = <<>> /\ DOMAIN sizes = 1..0
      BY <1>1 DEF SubLotSizes
    <2>2. 0 * limit = 0
      OBVIOUS
    <2>3. Made(total, limit, 0) = 0
      BY <1>1, <2>2 DEF Made
    <2>4. 1..0 = {}
      OBVIOUS
    <2> QED BY <1>1, <2>1, <2>3, <2>4 DEF Streamed
  <1>2. CASE total # 0
    <2>1. PICK n \in Nat : /\ n = RoundedUp(total, limit) /\ total <= n * limit
                           /\ n * limit < total + limit /\ (n = 0 <=> total = 0)
      BY RoundedUpBounds
    <2>2. sizes = [i \in 1..n |-> Min({limit, total - (i - 1) * limit})]
      BY <1>2, <2>1 DEF SubLotSizes
    <2>3. Made(total, limit, 0) = 0
      <3>1. 0 * limit = 0
        OBVIOUS
      <3> QED BY <3>1 DEF Made
    <2>4. Made(total, limit, n) = total
      <3>1. PICK a \in Nat : a = n * limit
        OBVIOUS
      <3> QED BY <2>1, <3>1 DEF Made
    <2>5. ASSUME NEW i \in 1..n
          PROVE  /\ sizes[i] \in 1..limit
                 /\ Made(total, limit, i) = Made(total, limit, i - 1) + sizes[i]
                 /\ Made(total, limit, i - 1) \in Nat
      <3>1. PICK a \in Nat : a = (i - 1) * limit
        OBVIOUS
      <3>2. i * limit = a + limit
        BY <3>1
      <3>3. a < total
        <4>1. (i - 1) * limit <= (n - 1) * limit
          OBVIOUS
        <4>2. PICK b \in Nat : b = n * limit
          OBVIOUS
        <4>3. (n - 1) * limit = b - limit
          BY <4>2
        <4>4. a <= b - limit /\ b < total + limit
          BY <2>1, <3>1, <4>1, <4>2, <4>3
        <4> QED BY <4>4
      <3>4. Made(total, limit, i - 1) = a
        BY <3>1, <3>3 DEF Made
      <3>5. Made(total, limit, i) = IF a + limit <= total THEN a + limit ELSE total
        BY <3>2 DEF Made
      <3>6. sizes[i] = IF limit <= total - a THEN limit ELSE total - a
        <4>1. sizes[i] = Min({limit, total - a})
          BY <2>2, <3>1
        <4>2. limit \in Int /\ total - a \in Int
          OBVIOUS
        <4> QED BY <4>1, <4>2, Larger
      <3> QED BY <3>3, <3>4, <3>5, <3>6
    <2>6. DOMAIN sizes = 1..n
      BY <2>2
    <2> QED BY <2>1, <2>3, <2>4, <2>5, <2>6 DEF Streamed
  <1> QED BY <1>1, <1>2

LEMMA Limits ==
    ASSUME NEW p \in Products
    PROVE  /\ SubBatchLimit[p] \in Nat \ {0}
           /\ \A m \in Route[p] : /\ m \in Machines /\ Cycle[p][m] \in Nat \ {0} /\ DailyTime[m] \in Nat
                                  /\ \/ SubBatchLimit[p] * Cycle[p][m] <= DailyTime[m]
                                     \/ SubBatchLimit[p] = 1
  <1>1. \A m \in Route[p] : m \in Machines /\ Cycle[p][m] \in Nat \ {0} /\ DailyTime[m] \in Nat
    <2>1. \A m \in Machines : Cycle[p][m] \in Nat /\ DailyTime[m] \in Nat
      BY RoutedTime, MaterialAssumption
    <2> QED BY <2>1 DEF Route
  <1> DEFINE S == {Max({1, DailyTime[m] \div Cycle[p][m]}) : m \in Route[p]}
  <1>2. ASSUME NEW m \in Route[p]
        PROVE  \E q \in Nat : /\ q = DailyTime[m] \div Cycle[p][m] /\ q * Cycle[p][m] <= DailyTime[m]
                              /\ Max({1, DailyTime[m] \div Cycle[p][m]}) = IF 1 >= q THEN 1 ELSE q
    <2>1. PICK d \in Nat, c \in Nat \ {0} : d = DailyTime[m] /\ c = Cycle[p][m]
      BY <1>1
    <2>2. PICK q \in Nat, r \in 0..(c - 1) : q = d \div c /\ r = d % c /\ d = c * q + r
      <3>1. /\ d \div c \in Int /\ d % c \in 0..(c - 1)
            /\ d = c * (d \div c) + (d % c)
        BY Division
      <3>2. d >= 0 => d \div c >= 0
        BY Division
      <3>3. d \div c \in Nat
        BY <3>1, <3>2
      <3> QED BY <3>1, <3>3
    <2>3. PICK a \in Nat : a = q * c /\ a = c * q
      OBVIOUS
    <2>4. q * c <= d
      BY <2>2, <2>3
    <2>5. Max({1, q}) = IF 1 >= q THEN 1 ELSE q
      <3>1. 1 \in Int /\ q \in Int
        OBVIOUS
      <3> QED BY <3>1, Larger
    <2> QED BY <2>1, <2>2, <2>4, <2>5
  <1>3. {MaxSubBatches} \cup S \subseteq Nat \ {0}
    <2>1. \A m \in Route[p] : Max({1, DailyTime[m] \div Cycle[p][m]}) \in Nat \ {0}
      <3> TAKE m \in Route[p]
      <3>1. PICK q \in Nat : Max({1, DailyTime[m] \div Cycle[p][m]}) = IF 1 >= q THEN 1 ELSE q
        BY <1>2
      <3> QED BY <3>1
    <2> QED BY <2>1, MaterialAssumption
  <1>4. PICK limit : limit = Min({MaxSubBatches} \cup S) /\ SubBatchLimit[p] = limit
    BY DEF SubBatchLimit
  <1>5. limit \in {MaxSubBatches} \cup S /\ \A y \in {MaxSubBatches} \cup S : limit <= y
    <2> HIDE DEF S
    <2>1. {MaxSubBatches} \cup S \subseteq Nat /\ {MaxSubBatches} \cup S # {}
      BY <1>3
    <2> QED BY <1>4, <2>1, SmallestOf
  <1>6. limit \in Nat \ {0}
    <2> HIDE DEF S
    <2> QED BY <1>3, <1>5
  <1>7. ASSUME NEW m \in Route[p] PROVE limit * Cycle[p][m] <= DailyTime[m] \/ limit = 1
    <2>1. PICK q \in Nat : /\ q * Cycle[p][m] <= DailyTime[m]
                           /\ Max({1, DailyTime[m] \div Cycle[p][m]}) = IF 1 >= q THEN 1 ELSE q
      BY <1>2
    <2>2. limit <= IF 1 >= q THEN 1 ELSE q
      BY <1>5, <2>1
    <2>3. CASE 1 >= q
      BY <1>6, <2>2, <2>3
    <2>4. CASE ~(1 >= q)
      <3>1. PICK c \in Nat, d \in Nat : c = Cycle[p][m] /\ d = DailyTime[m]
        BY <1>1
      <3>2. limit <= q
        BY <2>2, <2>4
      <3>3. limit * c <= q * c
        BY <1>6, <3>2
      <3>4. limit * c \in Int /\ q * c \in Int
        BY <1>6
      <3> QED BY <2>1, <3>1, <3>3, <3>4
    <2> QED BY <2>3, <2>4
  <1> QED BY <1>1, <1>4, <1>6, <1>7

\* An operation of a lot fits a shift whenever one batch does.
LEMMA OperationFits ==
    ASSUME NEW p \in Products, NEW m \in Route[p], NEW size \in 1..SubBatchLimit[p]
    PROVE  Minutes(size, p, m) * TimeScale <= DailyTime[m] \/ size = 1
  <1>1. PICK limit \in Nat \ {0}, c \in Nat \ {0}, d \in Nat :
           /\ limit = SubBatchLimit[p] /\ c = Cycle[p][m] /\ d = DailyTime[m]
           /\ limit * c <= d \/ limit = 1
    BY Limits
  <1>2. CASE limit = 1
    BY <1>1, <1>2
  <1>3. CASE limit * c <= d
    <2>1. PICK s \in Nat \ {0}, ts \in Nat \ {0} : s = size /\ ts = TimeScale /\ s <= limit
      BY <1>1, PlanAssumption
    <2>2. s * c <= limit * c
      BY <2>1
    <2>3. PICK n \in Nat : n = s * c
      OBVIOUS
    <2>4. n <= d
      <3>1. PICK b \in Nat : b = limit * c
        OBVIOUS
      <3> QED BY <1>3, <2>2, <2>3, <3>1
    <2>5. PICK q \in Nat : d = ts * q /\ d = q * ts
      <3>1. d % ts = 0
        <4>1. m \in Machines
          BY Limits
        <4> QED BY <1>1, <2>1, <4>1, MaterialAssumption
      <3>2. PICK q \in Int, r \in 0..(ts - 1) : q = d \div ts /\ r = d % ts /\ d = ts * q + r /\ q >= 0
        <4>1. d \div ts \in Int /\ d % ts \in 0..(ts - 1) /\ d = ts * (d \div ts) + (d % ts)
          BY Division, SMTT(30)
        <4>2. \A j \in Int, k \in Nat \ {0} : j >= 0 => j \div k >= 0
          BY Division
        <4>3. d \div ts >= 0
          BY <4>2
        <4> QED BY <4>1, <4>3
      <3>3. PICK a \in Int : a = ts * q /\ a = q * ts
        OBVIOUS
      <3>4. d = a
        BY <3>1, <3>2, <3>3
      <3>5. q \in Nat
        BY <3>2
      <3> QED BY <3>3, <3>4, <3>5
    <2>6. PICK k \in Nat : k = Rounded(n, ts) /\ k <= q
      BY <2>4, <2>5, RoundedBounds
    <2>7. k * ts <= q * ts
      BY <2>6
    <2>8. Minutes(size, p, m) = k
      BY <1>1, <2>1, <2>3, <2>6 DEF Minutes
    <2> QED BY <1>1, <2>1, <2>5, <2>7, <2>8
  <1> QED BY <1>1, <1>2, <1>3

LEMMA LotFields ==
    ASSUME NEW parent, NEW p, NEW i, NEW size, NEW wait, NEW l, l = Lot(parent, p, i, size, wait)
    PROVE  /\ l.parent = parent /\ l.product = p /\ l.index = i /\ l.batches = size
           /\ l.units = size * UnitsPerBatch /\ l.release = ReleaseTime(p, wait)
           /\ l.minutes = [m \in Route[p] |-> Minutes(size, p, m)]
  BY DEF Lot

LotsUpTo(parent, p, sizes, wait, k) == {Lot(parent, p, i, sizes[i], wait) : i \in 1..k}

LEMMA LotsSum ==
    ASSUME NEW parent, NEW p \in Products, NEW total \in Nat, NEW wait,
           NEW S, S = LotsOf(parent, p, total, wait)
    PROVE  /\ IsFiniteSet(S) /\ (S = {} <=> total = 0)
           /\ \A l \in S : /\ l.parent = parent /\ l.product = p
                           /\ l.batches \in 1..SubBatchLimit[p]
                           /\ l.units = l.batches * UnitsPerBatch /\ l.units \in Nat
                           /\ l.release = ReleaseTime(p, wait)
                           /\ l.minutes = [m \in Route[p] |-> Minutes(l.batches, p, m)]
           /\ \A g : (\A l \in S : g[l] = l.units) => Total(g, S) = total * UnitsPerBatch
  <1>1. PICK limit \in Nat \ {0}, U \in Nat \ {0} : limit = SubBatchLimit[p] /\ U = UnitsPerBatch
    BY Limits, PlanAssumption
  <1>2. PICK sizes : sizes = SubLotSizes(total, limit)
    OBVIOUS
  <1>30. PICK n \in Nat : Streamed(total, limit, sizes, n)
    BY <1>2, SubLotsStream
  <1>3. /\ DOMAIN sizes = 1..n /\ (n = 0 <=> total = 0)
        /\ Made(total, limit, 0) = 0 /\ Made(total, limit, n) = total
        /\ \A i \in 1..n : /\ sizes[i] \in 1..limit
                           /\ Made(total, limit, i) = Made(total, limit, i - 1) + sizes[i]
                           /\ Made(total, limit, i - 1) \in Nat
    BY <1>30 DEF Streamed
  <1>4. S = LotsUpTo(parent, p, sizes, wait, n)
    BY <1>1, <1>2, <1>3 DEF LotsOf, LotsUpTo
  <1>5. \A i \in 1..n : sizes[i] * U \in Nat
    <2> TAKE i \in 1..n
    <2>1. PICK s \in Nat : s = sizes[i]
      BY <1>3
    <2>2. s * U \in Nat
      OBVIOUS
    <2> QED BY <2>1, <2>2
  <1>6. \A l \in S : \E i \in 1..n :
           /\ l = Lot(parent, p, i, sizes[i], wait) /\ l.index = i
           /\ l.parent = parent /\ l.product = p
           /\ l.batches = sizes[i] /\ sizes[i] \in 1..limit
           /\ l.units = sizes[i] * U /\ l.units \in Nat
           /\ l.release = ReleaseTime(p, wait)
           /\ l.minutes = [m \in Route[p] |-> Minutes(l.batches, p, m)]
    <2> TAKE l \in S
    <2>1. PICK i \in 1..n : l = Lot(parent, p, i, sizes[i], wait)
      BY <1>4 DEF LotsUpTo
    <2>2. /\ l.parent = parent /\ l.product = p /\ l.index = i /\ l.batches = sizes[i]
          /\ l.units = sizes[i] * UnitsPerBatch /\ l.release = ReleaseTime(p, wait)
          /\ l.minutes = [m \in Route[p] |-> Minutes(sizes[i], p, m)]
      BY <2>1, LotFields
    <2> QED BY <1>1, <1>3, <1>5, <2>1, <2>2
  <1>7. ASSUME NEW g, \A l \in S : g[l] = l.units
        PROVE  IsFiniteSet(S) /\ Total(g, S) = total * U
    <2> DEFINE T == {k \in 0..n : /\ IsFiniteSet(LotsUpTo(parent, p, sizes, wait, k))
                                  /\ Total(g, LotsUpTo(parent, p, sizes, wait, k)) = Made(total, limit, k) * U}
    <2>1. 0 \in T
      <3>1. LotsUpTo(parent, p, sizes, wait, 0) = {}
        BY DEF LotsUpTo
      <3>2. Total(g, {}) = 0 /\ IsFiniteSet({})
        BY FS_EmptySet, TotalStep
      <3>3. Made(total, limit, 0) * U = 0
        <4>1. 0 * U = 0
          OBVIOUS
        <4> QED BY <1>3, <4>1
      <3>4. Total(g, LotsUpTo(parent, p, sizes, wait, 0)) = Made(total, limit, 0) * U
        BY <3>1, <3>2, <3>3
      <3>5. IsFiniteSet(LotsUpTo(parent, p, sizes, wait, 0)) /\ 0 \in 0..n
        BY <3>1, <3>2
      <3> QED BY <3>4, <3>5
    <2>2. ASSUME NEW k \in 0..(n - 1), k \in T PROVE k + 1 \in T
      <3>1. PICK j \in 1..n : j = k + 1 /\ j - 1 = k /\ j \in 0..n
        OBVIOUS
      <3>2. PICK x : x = Lot(parent, p, j, sizes[j], wait)
        OBVIOUS
      <3>3. PICK R : R = LotsUpTo(parent, p, sizes, wait, k)
        OBVIOUS
      <3>4. LotsUpTo(parent, p, sizes, wait, j) = R \cup {x}
        <4>1. 1..j = (1..k) \cup {j}
          BY <3>1
        <4> QED BY <3>2, <3>3, <4>1 DEF LotsUpTo
      <3>5. R \cup {x} \subseteq S
        <4>1. 1..k \subseteq 1..n
          OBVIOUS
        <4> QED BY <1>4, <3>2, <3>3, <4>1 DEF LotsUpTo
      <3>6. x \notin R
        <4>1. SUFFICES ASSUME x \in R PROVE FALSE
          OBVIOUS
        <4>2. PICK i \in 1..k : x = Lot(parent, p, i, sizes[i], wait)
          BY <3>3, <4>1 DEF LotsUpTo
        <4>3. x.index = i /\ x.index = j
          BY <3>2, <4>2 DEF Lot
        <4> QED BY <3>1, <4>2, <4>3
      <3>7. \A y \in R \cup {x} : g[y] \in Int
        <4>1. \A y \in S : y.units \in Nat
          BY <1>6
        <4> QED BY <1>7, <3>5, <4>1
      <3>8. Total(g, R \cup {x}) = Total(g, R) + g[x] /\ IsFiniteSet(R \cup {x})
        <4>1. IsFiniteSet(R)
          BY <2>2, <3>3
        <4>2. Total(g, R \cup {x}) = Total(g, R) + g[x]
          BY <3>6, <3>7, <4>1, TotalGrows
        <4> QED BY <4>1, <4>2, FS_AddElement
      <3>9. g[x] = sizes[j] * U
        <4>1. x.units = sizes[j] * U
          BY <1>1, <3>2 DEF Lot
        <4> QED BY <1>7, <3>5, <4>1
      <3>10. Total(g, R) + sizes[j] * U = Made(total, limit, j) * U
        <4>0. Made(total, limit, j - 1) \in Nat /\ sizes[j] \in 1..limit /\ j - 1 = k
          BY <1>3, <3>1
        <4>1. PICK a \in Nat, s \in Nat : a = Made(total, limit, k) /\ s = sizes[j]
          BY <4>0
        <4>2. Made(total, limit, j) = a + s
          BY <1>3, <3>1, <4>1
        <4>3. Total(g, R) = a * U
          BY <2>2, <3>3, <4>1
        <4>4. a * U + s * U = (a + s) * U
          OBVIOUS
        <4> QED BY <4>1, <4>2, <4>3, <4>4
      <3> QED BY <3>1, <3>4, <3>8, <3>9, <3>10
    <2> HIDE DEF T
    <2>3. \A k \in 0..n : k \in T
      BY <2>1, <2>2, CountUp
    <2>4. n \in T
      BY <2>3
    <2> QED BY <1>3, <1>4, <2>4 DEF T
  <1>8. IsFiniteSet(S)
    <2>1. PICK g : g = [l \in S |-> l.units]
      OBVIOUS
    <2>2. \A l \in S : g[l] = l.units
      BY <2>1
    <2> QED BY <1>7, <2>2
  <1>9. S = {} <=> total = 0
    <2>1. n = 0 => S = {}
      BY <1>4 DEF LotsUpTo
    <2>2. ASSUME n # 0 PROVE S # {}
      <3>1. 1 \in 1..n
        BY <2>2
      <3>2. Lot(parent, p, 1, sizes[1], wait) \in S
        BY <1>4, <3>1 DEF LotsUpTo
      <3> QED BY <3>2
    <2> QED BY <1>3, <2>1, <2>2
  <1>10. \A l \in S : /\ l.parent = parent /\ l.product = p
                      /\ l.batches \in 1..SubBatchLimit[p]
                      /\ l.units = l.batches * UnitsPerBatch /\ l.units \in Nat
                      /\ l.release = ReleaseTime(p, wait)
                      /\ l.minutes = [m \in Route[p] |-> Minutes(l.batches, p, m)]
    BY <1>1, <1>6
  <1> QED BY <1>1, <1>7, <1>8, <1>9, <1>10

LEMMA FiniteUnion ==
    ASSUME NEW P, IsFiniteSet(P), NEW f, \A p \in P : IsFiniteSet(f[p])
    PROVE  IsFiniteSet(UNION {f[p] : p \in P})
  <1> DEFINE T == {s \in SUBSET P : IsFiniteSet(UNION {f[p] : p \in s})}
  <1>1. {} \in T
    <2>1. UNION {f[p] : p \in {}} = {}
      OBVIOUS
    <2> QED BY <2>1, FS_EmptySet
  <1>2. ASSUME NEW s \in SUBSET P, NEW x \in P \ s, s \in T PROVE s \cup {x} \in T
    <2>1. UNION {f[p] : p \in s \cup {x}} = (UNION {f[p] : p \in s}) \cup f[x]
      OBVIOUS
    <2>2. IsFiniteSet((UNION {f[p] : p \in s}) \cup f[x])
      BY <1>2, FS_Union
    <2> QED BY <2>1, <2>2
  <1>3. P \in T
    <2> HIDE DEF T
    <2> QED BY <1>1, <1>2, GrowSet
  <1> QED BY <1>3
-----------------------------------------------------------------------------
(* The average mix of the programme and the batches of the split. *)

Column(w) == [f \in Families |-> target[f][w]]
Near1(d, i, j, bound) == Near(1, i, d, j, bound)

\* One product: its part of the average mix is off its batches by less than one
\* batch.
LEMMA ProductNear ==
    ASSUME NEW K \in Nat, NEW F \in Nat, NEW D \in Nat, D = K * F, NEW t \in Nat,
           NEW v \in Nat, NEW y \in Nat, NEW x \in Nat,
           x * F - t * v < F, -(x * F - t * v) < F
    PROVE  Near(t * K, v * y, D, x * y, y)
  <1>1. PICK z \in Nat : z = K * y
    OBVIOUS
  <1>2. PICK e \in Int : e = t * v - x * F /\ e <= F /\ -e <= F
    OBVIOUS
  <1>3. z * e <= z * F /\ z * (-e) <= z * F
    BY <1>1, <1>2
  <1>4. (t * K) * (v * y) - D * (x * y) = z * e
    <2>1. (t * K) * (v * y) = z * (t * v) /\ D * (x * y) = z * (x * F)
      BY <1>1
    <2>2. PICK i \in Nat, j \in Nat : i = t * v /\ j = x * F
      OBVIOUS
    <2>3. z * i - z * j = z * (i - j)
      OBVIOUS
    <2> QED BY <1>2, <2>1, <2>2, <2>3
  <1>5. D * y = z * F
    BY <1>1
  <1>6. PICK p \in Int, q \in Int : p = (t * K) * (v * y) /\ q = D * (x * y)
    OBVIOUS
  <1>7. z * (-e) = -(z * e)
    OBVIOUS
  <1> QED BY <1>3, <1>4, <1>5, <1>6, <1>7 DEF Near

LEMMA ScaleDivides ==
    ASSUME ForecastTyped, NEW f \in Families, NEW w \in Weeks
    PROVE  /\ Scale(w) \div FamilyWeight(f, w) \in Nat
           /\ Scale(w) = (Scale(w) \div FamilyWeight(f, w)) * FamilyWeight(f, w)
  <1>1. PICK weight : weight = [g \in Families |-> FamilyWeight(g, w)]
    OBVIOUS
  <1>2. DOMAIN weight = Families /\ \A g \in Families : weight[g] \in Nat \ {0}
    BY <1>1, Weights
  <1>3. Scale(w) = FoldFunction(LAMBDA x, y : x * y, 1, weight)
    BY <1>1 DEF Scale
  <1>4. PICK k \in Nat : Scale(w) = k * weight[f]
    BY <1>2, <1>3, ProductPositive, Finite
  <1>5. PICK d \in Nat \ {0} : d = FamilyWeight(f, w) /\ d = weight[f]
    BY <1>1, <1>2
  <1>6. (k * d) \div d = k
    <2>1. PICK q \in Int, r \in 0..(d - 1) : q = (k * d) \div d /\ k * d = d * q + r
      <3>1. k * d \in Int /\ k * d >= 0
        OBVIOUS
      <3> QED BY <3>1, Division
    <2>2. d * (k - q) = r
      BY <2>1
    <2>3. k - q >= 1 => d * (k - q) >= d
      OBVIOUS
    <2>4. k - q <= -1 => d * (k - q) <= -d
      OBVIOUS
    <2> QED BY <2>1, <2>2, <2>3, <2>4
  <1> QED BY <1>4, <1>5, <1>6

\* One family on one machine.
FamilyTerm(f, m, w) == Column(w)[f] * MixTime(f, m, w) * (Scale(w) \div FamilyWeight(f, w))
OfSplit(plan, w) ==
    \A f \in Families : \A p \in Members(f) :
      LET gap == plan[p][w] * FamilyWeight(f, w) - Share(p, w)
      IN gap < FamilyWeight(f, w) /\ -gap < FamilyWeight(f, w)

LEMMA FamilyNear ==
    ASSUME ForecastTyped, TargetTyped, NEW plan, PlanTyped(plan), NEW m \in Machines, NEW w \in Weeks,
           OfSplit(plan, w), NEW f \in Families,
           NEW b, b = [p \in Products |-> plan[p][w] * Cycle[p][m]],
           NEW c, c = [p \in Products |-> Cycle[p][m]]
    PROVE  /\ FamilyTerm(f, m, w) \in Int
           /\ Near1(Scale(w), FamilyTerm(f, m, w), Total(b, Members(f)), Total(c, Members(f)))
  <1>1. PICK K \in Nat, F \in Nat, D \in Nat, t \in Nat :
          /\ F = FamilyWeight(f, w) /\ K = Scale(w) \div F /\ D = Scale(w) /\ D = K * F
          /\ t = target[f][w] /\ t = Column(w)[f]
    <2>1. FamilyWeight(f, w) \in Nat /\ target[f][w] \in Nat
      BY Weights DEF TargetTyped
    <2>2. PICK F \in Nat, K \in Nat : F = FamilyWeight(f, w) /\ K = Scale(w) \div F /\ Scale(w) = K * F
      BY <2>1, ScaleDivides
    <2>3. K * F \in Nat
      OBVIOUS
    <2> QED BY <2>1, <2>2, <2>3 DEF Column
  <1>2. PICK a : a = [p \in Members(f) |-> Weight(p, w) * Cycle[p][m]]
    OBVIOUS
  <1>3. IsFiniteSet(Members(f)) /\ Members(f) \in SUBSET Products
    BY Finite
  <1>4. ASSUME NEW p \in Members(f)
        PROVE  /\ a[p] \in Int /\ b[p] \in Int /\ c[p] \in Int
               /\ Near(t * K, a[p], D, b[p], c[p])
    <2>1. PICK v \in Nat, y \in Nat, x \in Nat : v = Weight(p, w) /\ y = Cycle[p][m] /\ x = plan[p][w]
      BY <1>3, Weights, PlanAssumption DEF PlanTyped
    <2>2. a[p] = v * y /\ b[p] = x * y /\ c[p] = y
      BY <1>2, <1>3, <2>1
    <2>3. Share(p, w) = t * v
      BY <1>1, <2>1, SharesTyped
    <2>4. x * F - t * v < F /\ -(x * F - t * v) < F
      BY <1>1, <2>1, <2>3 DEF OfSplit
    <2>5. Near(t * K, v * y, D, x * y, y)
      BY <1>1, <2>4, ProductNear
    <2> QED BY <2>2, <2>5
  <1>5. IntegersOn(a, Members(f)) /\ IntegersOn(b, Members(f)) /\ IntegersOn(c, Members(f))
    BY <1>4 DEF IntegersOn
  <1>6. Near(t * K, Total(a, Members(f)), D, Total(b, Members(f)), Total(c, Members(f)))
    <2>1. t * K \in Int /\ D \in Int
      OBVIOUS
    <2> QED BY <1>3, <1>4, <1>5, <2>1, TotalNear
  <1>7. MixTime(f, m, w) = Total(a, Members(f)) /\ Total(a, Members(f)) \in Int
    <2>1. DOMAIN a = Members(f) /\ MixTime(f, m, w) = SumFunction(a) /\ \A p \in DOMAIN a : a[p] \in Int
      BY <1>2, <1>4 DEF MixTime
    <2>2. Total(a, Members(f)) \in Int
      BY <1>3, <1>4, TotalStep
    <2> QED BY <1>3, <2>1, <2>2, SumIsTotal
  <1>8. PICK s \in Int : s = Total(a, Members(f))
    BY <1>7
  <1>9. FamilyTerm(f, m, w) = t * s * K
    BY <1>1, <1>7, <1>8 DEF FamilyTerm
  <1>10. t * s * K = 1 * ((t * K) * s) /\ t * s * K \in Int
    OBVIOUS
  <1>11. PICK i \in Int : i = t * s * K /\ i = (t * K) * s
    BY <1>10
  <1>12. FamilyTerm(f, m, w) = i /\ 1 * i = i
    BY <1>9, <1>11
  <1> QED BY <1>1, <1>6, <1>8, <1>11, <1>12 DEF Near, Near1

\* All families: the hours of the average mix and those of the split differ by at
\* most one batch of every product.
LEMMA MixNear ==
    ASSUME ForecastTyped, TargetTyped, NEW plan, PlanTyped(plan), NEW m \in Machines, NEW w \in Weeks,
           OfSplit(plan, w)
    PROVE  /\ Load(plan, m, w) \in Nat /\ HoursOnMachine(m) \in Nat
           /\ Near1(Scale(w), LoadNum(Column(w), m, w), Load(plan, m, w), HoursOnMachine(m))
  <1>1. PICK b, c : b = [p \in Products |-> plan[p][w] * Cycle[p][m]] /\ c = [p \in Products |-> Cycle[p][m]]
    OBVIOUS
  <1>2. \A p \in Products : b[p] \in Nat /\ c[p] \in Nat
    <2> TAKE p \in Products
    <2>1. PICK x \in Nat, y \in Nat : x = plan[p][w] /\ y = Cycle[p][m]
      BY PlanAssumption DEF PlanTyped
    <2>2. x * y \in Nat
      OBVIOUS
    <2> QED BY <1>1, <2>1, <2>2
  <1>3. /\ Load(plan, m, w) = Total(b, Products) /\ Load(plan, m, w) \in Nat
        /\ HoursOnMachine(m) = Total(c, Products) /\ HoursOnMachine(m) \in Nat
    <2>1. DOMAIN b = Products /\ DOMAIN c = Products
          /\ (\A p \in Products : b[p] \in Int) /\ (\A p \in Products : c[p] \in Int)
      BY <1>1, <1>2
    <2>2. SumFunction(b) = Total(b, Products) /\ SumFunction(c) = Total(c, Products)
      BY <2>1, SumIsTotal, Finite
    <2>3. Total(b, Products) \in Nat /\ Total(c, Products) \in Nat
      BY <1>2, TotalNatural, Finite
    <2> QED BY <1>1, <2>2, <2>3 DEF Load, HoursOnMachine
  <1>4. PICK load : load = [f \in Families |-> FamilyTerm(f, m, w)]
    OBVIOUS
  <1>5. \A f \in Families :
          /\ load[f] \in Int
          /\ Near1(Scale(w), load[f], Total(b, Members(f)), Total(c, Members(f)))
    BY <1>1, <1>4, FamilyNear
  <1>6. LoadNum(Column(w), m, w) = Total(load, Families)
    <2>1. DOMAIN load = Families /\ \A f \in Families : load[f] \in Int
      BY <1>4, <1>5
    <2>2. LoadNum(Column(w), m, w) = SumFunction(load)
      BY <1>4 DEF LoadNum, FamilyTerm
    <2> QED BY <2>1, <2>2, SumIsTotal, Finite
  <1>7. PICK D \in Int : D = Scale(w)
    <2>1. \A f \in Families : FamilyWeight(f, w) \in Nat \ {0}
      BY Weights
    <2>2. PICK weight : weight = [f \in Families |-> FamilyWeight(f, w)]
      OBVIOUS
    <2>3. Scale(w) = FoldFunction(LAMBDA x, y : x * y, 1, weight)
      BY <2>2 DEF Scale
    <2>4. DOMAIN weight = Families /\ \A f \in Families : weight[f] \in Nat \ {0}
      BY <2>1, <2>2
    <2>5. Scale(w) \in Nat \ {0}
      BY <2>3, <2>4, ProductPositive, Finite
    <2> QED BY <2>5
  <1> DEFINE Of(S) == UNION {Members(f) : f \in S}
             T == {S \in SUBSET Families :
                     /\ IsFiniteSet(Of(S)) /\ Of(S) \in SUBSET Products
                     /\ Near1(D, Total(load, S), Total(b, Of(S)), Total(c, Of(S)))}
  <1>8. {} \in T
    <2>1. Of({}) = {} /\ IsFiniteSet({})
      BY FS_EmptySet
    <2>2. Total(load, {}) = 0 /\ Total(b, {}) = 0 /\ Total(c, {}) = 0
      BY <2>1, TotalStep
    <2>3. Near1(D, 0, 0, 0)
      BY DEF Near, Near1
    <2> QED BY <2>1, <2>2, <2>3
  <1>9. ASSUME NEW S \in SUBSET Families, NEW f \in Families \ S, S \in T PROVE S \cup {f} \in T
    <2>1. PICK P, M : P = Of(S) /\ M = Members(f)
      OBVIOUS
    <2>2. Of(S \cup {f}) = P \cup M
      BY <2>1
    <2>3. IsFiniteSet(P) /\ IsFiniteSet(M) /\ P \in SUBSET Products /\ M \in SUBSET Products
      BY <1>9, <2>1, Finite
    <2>4. P \cap M = {}
      BY <1>9, <2>1 DEF Members
    <2>5. IsFiniteSet(P \cup M) /\ IsFiniteSet(S)
      BY <2>3, FS_Union, FS_Subset, Finite
    <2>6. PICK i \in Int, j \in Int, x \in Int : i = Total(load, S) /\ j = Total(b, P) /\ x = Total(c, P)
      <3>1. \A p \in P : b[p] \in Int /\ c[p] \in Int
        BY <1>2, <2>3
      <3>2. \A g \in S : load[g] \in Int
        BY <1>5
      <3> QED BY <2>3, <2>5, <3>1, <3>2, TotalStep
    <2>7. PICK u \in Int, v \in Int, y \in Int : u = load[f] /\ v = Total(b, M) /\ y = Total(c, M)
      <3>1. \A p \in M : b[p] \in Int /\ c[p] \in Int
        BY <1>2, <2>3
      <3> QED BY <1>5, <2>3, <3>1, TotalStep
    <2>8. Near(1, i, D, j, x) /\ Near(1, u, D, v, y)
      BY <1>5, <1>7, <1>9, <2>1, <2>6, <2>7 DEF Near1
    <2>9. Near(1, i + u, D, j + v, x + y)
      <3>1. 1 \in Int
        OBVIOUS
      <3> QED BY <2>8, <3>1, NearAdds
    <2>10. Total(load, S \cup {f}) = i + u
      BY <1>5, <2>5, <2>6, <2>7, TotalGrows
    <2>11. Total(b, P \cup M) = j + v /\ Total(c, P \cup M) = x + y
      <3>1. \A p \in P \cup M : b[p] \in Int /\ c[p] \in Int
        BY <1>2, <2>3
      <3> QED BY <2>3, <2>4, <2>6, <2>7, <3>1, TotalOfParts
    <2> QED BY <2>2, <2>3, <2>5, <2>9, <2>10, <2>11 DEF Near1
  <1>10. Of(Families) = Products
    BY Finite, PlanAssumption DEF Members
  <1> HIDE DEF T
  <1>11. Families \in T
    BY <1>8, <1>9, GrowSet, Finite
  <1>12. Near1(D, Total(load, Families), Total(b, Products), Total(c, Products))
    BY <1>10, <1>11 DEF T
  <1> QED BY <1>3, <1>6, <1>7, <1>12

\* Rounded to tenths, the hours of the mix are near those of the split.
HoursNear(u, load, hours) ==
    LET gap == Tenth * u - load IN 2 * gap <= 2 * hours + Tenth /\ -2 * gap <= 2 * hours + Tenth
\* The hours as the programme's own.
HoursOfMix(u, num, scale) ==
    /\ 2 * ((scale * Tenth) * u) <= 2 * num + scale * Tenth
    /\ 2 * num <= 2 * ((scale * Tenth) * u) + scale * Tenth

LEMMA HoursRounded ==
    ASSUME NEW S \in Nat \ {0}, NEW n \in Nat
    PROVE  Tenth \in Nat \ {0} /\ Rounded(n, S * Tenth) \in Nat /\ HoursOfMix(Rounded(n, S * Tenth), n, S)
  <1>1. PICK t \in Nat \ {0} : t = Tenth
    BY PlanAssumption DEF Tenth
  <1>2. S * t \in Nat \ {0}
    OBVIOUS
  <1>3. /\ Rounded(n, S * t) \in Nat
        /\ 2 * ((S * t) * Rounded(n, S * t)) <= 2 * n + S * t
        /\ 2 * n <= 2 * ((S * t) * Rounded(n, S * t)) + S * t
    BY <1>2, RoundedBounds, RoundedNear
  <1> QED BY <1>1, <1>3 DEF HoursOfMix

LEMMA HoursOfSplit ==
    ASSUME NEW S \in Nat \ {0}, NEW n \in Nat, NEW u \in Nat, NEW load \in Nat, NEW hours \in Nat,
           HoursOfMix(u, n, S), Near1(S, n, load, hours)
    PROVE  HoursNear(u, load, hours)
  <1>1. PICK t \in Nat \ {0} : t = Tenth
    BY PlanAssumption DEF Tenth
  <1>2. PICK a \in Nat : a = t * u
    OBVIOUS
  <1>3. (S * t) * u = S * a
    BY <1>2
  <1>4. /\ 2 * (S * a) <= 2 * n + S * t /\ 2 * n <= 2 * (S * a) + S * t
        /\ n - S * load <= S * hours /\ S * load - n <= S * hours
    BY <1>1, <1>3 DEF HoursOfMix, Near, Near1
  <1>5. PICK g \in Int, h \in Int : g = 2 * (a - load) /\ h = 2 * hours + t
    OBVIOUS
  <1>6. S * g <= S * h /\ S * (-g) <= S * h
    <2>1. PICK sa \in Int, sl \in Int, sh \in Int, st \in Int :
            sa = S * a /\ sl = S * load /\ sh = S * hours /\ st = S * t
      OBVIOUS
    <2>2. S * g = 2 * sa - 2 * sl /\ S * (-g) = 2 * sl - 2 * sa /\ S * h = 2 * sh + st
      BY <1>5, <2>1
    <2> QED BY <1>4, <2>1, <2>2
  <1>7. g <= h /\ -g <= h
    BY <1>6
  <1> QED BY <1>1, <1>2, <1>5, <1>7 DEF HoursNear

LEMMA FlagsBound ==
    ASSUME NEW S \in Nat \ {0}, NEW n \in Nat, NEW u \in Nat, NEW free \in Nat,
           HoursOfMix(u, n, S), n >= free * S
    PROVE  2 * Tenth * u + Tenth >= 2 * free
  <1>1. PICK t \in Nat \ {0} : t = Tenth
    BY PlanAssumption DEF Tenth
  <1>2. PICK a \in Nat : a = t * u /\ 2 * t * u = 2 * a
    OBVIOUS
  <1>3. (S * t) * u = S * a
    BY <1>2
  <1>4. 2 * n <= 2 * (S * a) + S * t
    BY <1>1, <1>3 DEF HoursOfMix
  <1>5. S * (2 * a + t) = 2 * (S * a) + S * t /\ S * (2 * free) = 2 * (free * S)
    OBVIOUS
  <1>6. PICK x \in Int, y \in Int : x = 2 * a + t /\ y = 2 * free
    OBVIOUS
  <1>7. S * y <= S * x
    <2>1. PICK sa \in Int, st \in Int, fs \in Int : sa = S * a /\ st = S * t /\ fs = free * S
      OBVIOUS
    <2> QED BY <1>4, <1>5, <1>6, <2>1
  <1>8. y <= x
    BY <1>7
  <1> QED BY <1>1, <1>2, <1>6, <1>8
-----------------------------------------------------------------------------
(* What a step that leaves forecast, target, batches or orders alone leaves alone. *)

LEMMA SameForecast ==
    ASSUME forecast' = forecast, NEW f \in Families, NEW w \in Weeks
    PROVE  /\ FamilyUnits(f, w)' = FamilyUnits(f, w) /\ DemandTenths(f, w)' = DemandTenths(f, w)
           /\ \A p \in Members(f) : Weight(p, w)' = Weight(p, w)
           /\ FamilyWeight(f, w)' = FamilyWeight(f, w)
  <1>1. \A g \in Families : FamilyUnits(g, w)' = FamilyUnits(g, w)
    BY DEF FamilyUnits
  <1>2. DemandTenths(f, w)' = DemandTenths(f, w)
    BY <1>1 DEF DemandTenths
  <1>3. \A p \in Members(f) : Weight(p, w)' = Weight(p, w)
    BY <1>1 DEF Weight, Members
  <1>4. [p \in Members(f) |-> Weight(p, w)'] = [p \in Members(f) |-> Weight(p, w)]
    BY <1>3
  <1>5. FamilyWeight(f, w)' = FamilyWeight(f, w)
    BY <1>4 DEF FamilyWeight
  <1> QED BY <1>1, <1>2, <1>3, <1>5

LEMMA SameGross ==
    ASSUME batches' = batches, NEW x \in Materials, NEW w \in Weeks
    PROVE  Gross(x, w)' = Gross(x, w)
  <1>1. \A p \in Products : PlannedUnits(p, w)' = PlannedUnits(p, w)
    BY DEF PlannedUnits
  <1>2. [p \in Products |-> PlannedUnits(p, w)' * Bom[p][x]] = [p \in Products |-> PlannedUnits(p, w) * Bom[p][x]]
    BY <1>1
  <1> QED BY <1>2 DEF Gross

LEMMA SameRelease ==
    ASSUME orders' = orders, NEW p \in Products, NEW wait
    PROVE  ReleaseTime(p, wait)' = ReleaseTime(p, wait)
  <1>1. \A x \in Materials : AvailableAt(x)' = AvailableAt(x)
    BY DEF AvailableAt
  <1>2. {AvailableAt(x)' : x \in Consumed[p]} = {AvailableAt(x) : x \in Consumed[p]}
    BY <1>1, ConsumedFinite
  <1> QED BY <1>2 DEF ReleaseTime

LEMMA SameLots ==
    ASSUME orders' = orders, NEW p \in Products, NEW parent, NEW total, NEW wait
    PROVE  LotsOf(parent, p, total, wait)' = LotsOf(parent, p, total, wait)
  <1>1. ReleaseTime(p, wait)' = ReleaseTime(p, wait)
    BY SameRelease
  <1>2. \A i, size : Lot(parent, p, i, size, wait)' = Lot(parent, p, i, size, wait)
    BY <1>1 DEF Lot
  <1> DEFINE sizes == SubLotSizes(total, SubBatchLimit[p])
  <1>3. {Lot(parent, p, i, sizes[i], wait)' : i \in DOMAIN sizes}
          = {Lot(parent, p, i, sizes[i], wait) : i \in DOMAIN sizes}
    <2> HIDE DEF sizes
    <2> QED BY <1>2
  <1> QED BY <1>3 DEF LotsOf

LEMMA SamePlanLots ==
    ASSUME orders' = orders, batches' = batches, NEW wait
    PROVE  PlanLots(wait)' = PlanLots(wait)
  <1>1. \A p \in Products : ReleaseTime(p, wait)' = ReleaseTime(p, wait)
    BY SameRelease
  <1>2. \A p \in Products : LotsOf("LOT", p, batches[p][1], wait)' = LotsOf("LOT", p, batches[p][1], wait)
    <2> TAKE p \in Products
    <2>1. PICK total : total = batches[p][1] /\ total = batches'[p][1]
      OBVIOUS
    <2>2. LotsOf("LOT", p, batches[p][1], wait) = LotsOf("LOT", p, total, wait)
      BY <2>1
    <2>3. LotsOf("LOT", p, batches[p][1], wait)' = LotsOf("LOT", p, total, wait)'
      BY <2>1 DEF LotsOf, Lot
    <2> QED BY <2>2, <2>3, SameLots
  <1>3. {LotsOf("LOT", p, batches[p][1], wait)' : p \in Products}
          = {LotsOf("LOT", p, batches[p][1], wait) : p \in Products}
    BY <1>2
  <1> QED BY <1>3 DEF PlanLots
-----------------------------------------------------------------------------
(* The invariant of planning. *)

Stages == {"solve", "split", "check", "planned", "ordered", "scheduled", "simulated"}
Settled == stage \notin {"solve", "split", "check"}

TypesKept ==
    /\ stage \in Stages /\ ForecastTyped /\ TargetTyped /\ OvertimeTyped /\ CutsTyped
    /\ PlanTyped(batches)
SplitKept == SplitIsFair
LoadsKept ==
    Settled => \A m \in Machines, w \in Weeks : Load(batches, m, w) <= TotalCapacity(m, w)
BookKept ==
    stage \notin {"solve", "split"} =>
      \A f \in Families, w \in Weeks :
        /\ book[f][w].inventory - book[f][w].backlog
             = 10 * InitialInventory[f]
               + SumFunction([v \in 1..w |-> 10 * FamilyBatches(batches, f, v) - DemandTenths(f, v)])
        /\ book[f][w].inventory = 0 \/ book[f][w].backlog = 0
PricesKept ==
    stage \notin {"solve", "split"} /\ dualsValid =>
      \A f \in Families, w \in Weeks : FamilyBatches(batches, f, w) = target[f][w]
\* utilized_hours: those of the average mix until the split, near those of the
\* split after it, those of the batches after a repair.
HoursKept ==
    /\ utilized \in [Machines -> [Weeks -> Nat]]
    /\ stage \in {"split", "check"} => dualsValid
    /\ stage = "split" => \A m \in Machines, w \in Weeks :
         HoursOfMix(utilized[m][w], LoadNum(Column(w), m, w), Scale(w))
    /\ stage \notin {"solve", "split"} => \A m \in Machines, w \in Weeks :
         IF dualsValid THEN HoursNear(utilized[m][w], Load(batches, m, w), HoursOnMachine(m))
         ELSE utilized[m][w] = Rounded(Load(batches, m, w), Tenth)
\* is_bottleneck, as long as the duals are those of the plan.
FlagsKept ==
    stage # "solve" /\ dualsValid =>
      \A row \in bottleneck :
        2 * Tenth * utilized[row[1]][row[2]] + Tenth >= 2 * Available(row[1], row[2])
CapacityKept == HoursKept /\ FlagsKept
PlanInv == TypesKept /\ SplitKept /\ LoadsKept /\ BookKept /\ PricesKept /\ CapacityKept

LEMMA InitiallyPlanned ==
    ASSUME PlanInit
    PROVE  PlanInv
  <1>1. stage = "solve" /\ forecast \in Forecasts
        /\ cuts = [m \in Machines |-> [w \in Weeks |-> 0]]
        /\ target = NoTarget /\ overtime = NoOvertime /\ batches = NoBatches
        /\ utilized = NotUtilized
    BY DEF PlanInit
  <1>2. TypesKept
    <2>1. MaxOvertime \in Nat /\ forecast \in [Products -> [Weeks -> Nat]]
      BY <1>1, PlanAssumption
    <2> QED BY <1>1, <2>1 DEF TypesKept, Stages, ForecastTyped, TargetTyped, OvertimeTyped, CutsTyped,
                              PlanTyped, NoTarget, NoOvertime, NoBatches
  <1>3. CapacityKept
    BY <1>1 DEF CapacityKept, HoursKept, FlagsKept, NotUtilized
  <1> QED BY <1>1, <1>2, <1>3 DEF PlanInv, SplitKept, SplitIsFair, LoadsKept, BookKept, PricesKept, Settled

LEMMA BookStays ==
    ASSUME forecast' = forecast, batches' = batches, book' = book, BookKept,
           stage' \notin {"solve", "split"} => stage \notin {"solve", "split"}
    PROVE  BookKept'
  <1> SUFFICES ASSUME stage' \notin {"solve", "split"}, NEW f \in Families, NEW w \in Weeks
               PROVE  /\ book'[f][w].inventory - book'[f][w].backlog
                           = 10 * InitialInventory[f]
                             + SumFunction([v \in 1..w |-> 10 * FamilyBatches(batches, f, v)' - DemandTenths(f, v)'])
                      /\ book'[f][w].inventory = 0 \/ book'[f][w].backlog = 0
    BY DEF BookKept
  <1>1. \A v \in 1..w : FamilyBatches(batches, f, v)' = FamilyBatches(batches, f, v)
    BY DEF FamilyBatches
  <1>2. \A v \in 1..w : DemandTenths(f, v)' = DemandTenths(f, v)
    <2>1. \A v \in 1..w : v \in Weeks
      BY PlanAssumption DEF Weeks
    <2> QED BY <2>1, SameForecast
  <1>3. [v \in 1..w |-> 10 * FamilyBatches(batches, f, v)' - DemandTenths(f, v)']
          = [v \in 1..w |-> 10 * FamilyBatches(batches, f, v) - DemandTenths(f, v)]
    BY <1>1, <1>2
  <1>4. /\ book[f][w].inventory - book[f][w].backlog
             = 10 * InitialInventory[f]
               + SumFunction([v \in 1..w |-> 10 * FamilyBatches(batches, f, v) - DemandTenths(f, v)])
        /\ book[f][w].inventory = 0 \/ book[f][w].backlog = 0
    BY DEF BookKept
  <1> QED BY <1>3, <1>4

LEMMA LoadsStay ==
    ASSUME batches' = batches, overtime' = overtime, NEW m \in Machines, NEW w \in Weeks
    PROVE  Load(batches, m, w)' = Load(batches, m, w) /\ TotalCapacity(m, w)' = TotalCapacity(m, w)
  BY DEF Load, TotalCapacity

LEMMA BatchesStay ==
    ASSUME batches' = batches, NEW f \in Families, NEW w \in Weeks
    PROVE  FamilyBatches(batches, f, w)' = FamilyBatches(batches, f, w)
  BY DEF FamilyBatches

LEMMA SameScale ==
    ASSUME forecast' = forecast, NEW w \in Weeks
    PROVE  Scale(w)' = Scale(w)
  <1>1. \A f \in Families : FamilyWeight(f, w)' = FamilyWeight(f, w)
    BY SameForecast
  <1>2. PICK weight : weight = [f \in Families |-> FamilyWeight(f, w)]
    OBVIOUS
  <1>3. weight = [f \in Families |-> FamilyWeight(f, w)']
    BY <1>1, <1>2
  <1>4. Scale(w) = FoldFunction(LAMBDA x, y : x * y, 1, weight)
    BY <1>2 DEF Scale
  <1>5. Scale(w)' = FoldFunction(LAMBDA x, y : x * y, 1, weight)
    BY <1>3 DEF Scale, FoldFunction, FoldFunctionOnSet, MapThenFoldSet
  <1> QED BY <1>4, <1>5

LEMMA MixStays ==
    ASSUME forecast' = forecast, target' = target, NEW m \in Machines, NEW w \in Weeks
    PROVE  Scale(w)' = Scale(w) /\ LoadNum(Column(w), m, w)' = LoadNum(Column(w), m, w)
  <1>1. \A f \in Families : FamilyWeight(f, w)' = FamilyWeight(f, w)
    BY SameForecast
  <1>2. Scale(w)' = Scale(w)
    BY SameScale
  <1>3. \A f \in Families : MixTime(f, m, w)' = MixTime(f, m, w)
    <2> TAKE f \in Families
    <2>1. \A p \in Members(f) : Weight(p, w)' = Weight(p, w)
      BY SameForecast
    <2>2. [p \in Members(f) |-> Weight(p, w)' * Cycle[p][m]] = [p \in Members(f) |-> Weight(p, w) * Cycle[p][m]]
      BY <2>1
    <2> QED BY <2>2 DEF MixTime
  <1>4. Column(w)' = Column(w)
    BY DEF Column
  <1>5. [f \in Families |-> (Column(w)[f] * MixTime(f, m, w) * (Scale(w) \div FamilyWeight(f, w)))']
          = [f \in Families |-> Column(w)[f] * MixTime(f, m, w) * (Scale(w) \div FamilyWeight(f, w))]
    BY <1>1, <1>2, <1>3, <1>4
  <1> QED BY <1>2, <1>5 DEF LoadNum

LEMMA CapacityStays ==
    ASSUME CapacityKept, UNCHANGED <<forecast, cuts, target, batches, dualsValid, utilized, bottleneck>>,
           \/ stage' = stage
           \/ stage' \notin {"solve", "split", "check"} /\ stage \notin {"solve", "split"}
    PROVE  CapacityKept'
  <1>1. \A m \in Machines, w \in Weeks :
          /\ Scale(w)' = Scale(w) /\ LoadNum(Column(w), m, w)' = LoadNum(Column(w), m, w)
          /\ Load(batches, m, w)' = Load(batches, m, w)
    BY MixStays DEF Load
  <1>2. HoursKept'
    BY <1>1 DEF CapacityKept, HoursKept
  <1>3. \A m, w : Available(m, w)' = Available(m, w)
    BY DEF Available
  <1>4. FlagsKept'
    BY <1>3 DEF CapacityKept, FlagsKept
  <1> QED BY <1>2, <1>4 DEF CapacityKept

\* Steps that leave the tables alone.
LEMMA TablesStay ==
    ASSUME PlanInv, stage' \in Stages,
           stage' = stage \/ (Settled /\ Settled'),
           UNCHANGED <<forecast, cuts, target, overtime, batches, book, dualsValid, utilized, bottleneck>>
    PROVE  PlanInv'
  <1>1. TypesKept'
    BY DEF PlanInv, TypesKept, ForecastTyped, TargetTyped, OvertimeTyped, CutsTyped, PlanTyped
  <1>2. SplitKept'
    <2> SUFFICES ASSUME stage' = "check" PROVE SplitIsFair'
      BY DEF SplitKept, SplitIsFair
    <2>1. stage = "check" /\ SplitIsFair
      BY DEF PlanInv, SplitKept, Settled
    <2>2. \A w \in Weeks, f \in Families :
            /\ FamilyBatches(batches, f, w)' = FamilyBatches(batches, f, w)
            /\ FamilyWeight(f, w)' = FamilyWeight(f, w)
            /\ \A p \in Members(f) : Weight(p, w)' = Weight(p, w)
      BY BatchesStay, SameForecast
    <2>3. \A w \in Weeks, f \in Families : \A p \in Members(f) : Share(p, w)' = Share(p, w)
      BY <2>2 DEF Share
    <2> QED BY <2>1, <2>2, <2>3 DEF SplitIsFair
  <1>3. LoadsKept'
    <2> SUFFICES ASSUME Settled', NEW m \in Machines, NEW w \in Weeks
                 PROVE  Load(batches, m, w)' <= TotalCapacity(m, w)'
      BY DEF LoadsKept
    <2>1. Settled /\ LoadsKept
      BY DEF Settled, PlanInv
    <2>2. Load(batches, m, w)' = Load(batches, m, w) /\ TotalCapacity(m, w)' = TotalCapacity(m, w)
      BY LoadsStay
    <2> QED BY <2>1, <2>2 DEF LoadsKept
  <1>4. BookKept'
    <2>1. stage' \notin {"solve", "split"} => stage \notin {"solve", "split"}
      BY DEF Settled
    <2> QED BY <2>1, BookStays DEF PlanInv
  <1>5. PricesKept'
    <2>1. \A f \in Families, w \in Weeks : FamilyBatches(batches, f, w)' = FamilyBatches(batches, f, w)
      BY BatchesStay
    <2> QED BY <2>1 DEF PlanInv, PricesKept, Settled
  <1>6. CapacityKept'
    BY CapacityStays DEF PlanInv, Settled
  <1> QED BY <1>1, <1>2, <1>3, <1>4, <1>5, <1>6 DEF PlanInv

LEMMA SolveStep ==
    ASSUME PlanInv, SolveAggregateLp
    PROVE  PlanInv'
  <1>1. PICK choice \in [Weeks -> [Families -> 0..MaxBatches]] :
          /\ \A w \in Weeks : choice[w] \in FeasibleTargets(w)
          /\ target' = [f \in Families |-> [w \in Weeks |-> choice[w][f]]]
          /\ overtime' = [m \in Machines |-> [w \in Weeks |->
               OvertimeAsPlanned(OvertimeNum(choice[w], m, w), Scale(w))]]
          /\ utilized' = [m \in Machines |-> [w \in Weeks |->
               Rounded(LoadNum(choice[w], m, w), Scale(w) * Tenth)]]
          /\ bottleneck' \in Flaggings(choice)
    BY DEF SolveAggregateLp
  <1>2. /\ stage' = "split" /\ UNCHANGED <<forecast, cuts, batches, book>>
        /\ TypesKept
    BY DEF SolveAggregateLp, PlanInv
  <1>3. TargetTyped'
    <2>1. MaxBatches \in Nat
      BY PlanAssumption
    <2>2. \A w \in Weeks, f \in Families : choice[w][f] \in Nat
      BY <2>1
    <2> QED BY <1>1, <2>2 DEF TargetTyped
  <1>4. OvertimeTyped'
    <2>1. ASSUME NEW m \in Machines, NEW w \in Weeks
          PROVE  OvertimeAsPlanned(OvertimeNum(choice[w], m, w), Scale(w)) \in 0..MaxOvertime
      <3>1. PICK plan \in [Families -> 0..MaxBatches] : plan = choice[w] /\ plan \in FeasibleTargets(w)
        BY <1>1
      <3>2. plan \in [Families -> Nat]
        <4>1. MaxBatches \in Nat
          BY PlanAssumption
        <4> QED BY <4>1
      <3>3. Scale(w) \in Nat \ {0} /\ OvertimeNum(plan, m, w) \in Nat
        BY <1>2, <3>2, LoadsTyped DEF TypesKept
      <3>4. OvertimeNum(plan, m, w) <= MaxOvertime * Scale(w)
        BY <3>1 DEF FeasibleTargets
      <3> QED BY <3>1, <3>3, <3>4, OvertimeInCalendar
    <2> QED BY <1>1, <2>1 DEF OvertimeTyped
  <1>5. TypesKept'
    BY <1>2, <1>3, <1>4 DEF TypesKept, Stages, ForecastTyped, CutsTyped, PlanTyped
  <1>6. ASSUME NEW m \in Machines, NEW w \in Weeks
        PROVE  /\ utilized'[m][w] \in Nat /\ Scale(w) \in Nat \ {0}
               /\ LoadNum(choice[w], m, w) \in Nat /\ Available(m, w) \in Nat
               /\ HoursOfMix(utilized'[m][w], LoadNum(choice[w], m, w), Scale(w))
    <2>1. PICK plan : plan = choice[w] /\ plan \in [Families -> Nat]
      <3>1. MaxBatches \in Nat
        BY PlanAssumption
      <3> QED BY <3>1
    <2>2. PICK S \in Nat \ {0}, n \in Nat : S = Scale(w) /\ n = LoadNum(choice[w], m, w)
      BY <1>2, <2>1, LoadsTyped DEF TypesKept
    <2>3. Available(m, w) \in Nat
      BY <1>2, <2>1, LoadsTyped DEF TypesKept
    <2>4. utilized'[m][w] = Rounded(n, S * Tenth)
      BY <1>1, <2>2
    <2> QED BY <2>2, <2>3, <2>4, HoursRounded
  <1>7. HoursKept'
    <2>1. utilized' \in [Machines -> [Weeks -> Nat]]
      <3>1. \A m \in Machines, w \in Weeks : utilized'[m][w] \in Nat
        BY <1>6
      <3>2. utilized' = [m \in Machines |-> [w \in Weeks |-> utilized'[m][w]]]
        BY <1>1
      <3> QED BY <3>1, <3>2
    <2>2. ASSUME NEW m \in Machines, NEW w \in Weeks
          PROVE  HoursOfMix(utilized'[m][w], LoadNum(Column(w), m, w)', Scale(w)')
      <3>1. Column(w)' = choice[w]
        BY <1>1 DEF Column
      <3>2. \A f \in Families : FamilyWeight(f, w)' = FamilyWeight(f, w)
        BY <1>2, SameForecast
      <3>4. Scale(w)' = Scale(w)
        BY <1>2, SameScale
      <3>5. \A f \in Families : MixTime(f, m, w)' = MixTime(f, m, w)
        <4> TAKE f \in Families
        <4>1. \A p \in Members(f) : Weight(p, w)' = Weight(p, w)
          BY <1>2, SameForecast
        <4>2. [p \in Members(f) |-> Weight(p, w)' * Cycle[p][m]]
                = [p \in Members(f) |-> Weight(p, w) * Cycle[p][m]]
          BY <4>1
        <4> QED BY <4>2 DEF MixTime
      <3>6. [f \in Families |-> (Column(w)[f] * MixTime(f, m, w) * (Scale(w) \div FamilyWeight(f, w)))']
              = [f \in Families |-> choice[w][f] * MixTime(f, m, w) * (Scale(w) \div FamilyWeight(f, w))]
        BY <3>1, <3>2, <3>4, <3>5
      <3>7. LoadNum(Column(w), m, w)' = LoadNum(choice[w], m, w)
        BY <3>6 DEF LoadNum
      <3> QED BY <1>6, <3>4, <3>7
    <2>3. dualsValid' /\ stage' = "split"
      BY DEF SolveAggregateLp
    <2> QED BY <2>1, <2>2, <2>3 DEF HoursKept
  <1>8. FlagsKept'
    <2> SUFFICES ASSUME NEW row \in bottleneck'
                 PROVE  2 * Tenth * utilized'[row[1]][row[2]] + Tenth >= 2 * Available(row[1], row[2])'
      BY DEF FlagsKept
    <2>1. PICK m \in Machines, w \in Weeks : row = <<m, w>> /\ Binding(choice[w], m, w)
      BY <1>1 DEF Flaggings
    <2>2. PICK S \in Nat \ {0}, n \in Nat, u \in Nat, free \in Nat :
            /\ S = Scale(w) /\ n = LoadNum(choice[w], m, w) /\ u = utilized'[m][w]
            /\ free = Available(m, w) /\ HoursOfMix(u, n, S)
      BY <1>6
    <2>3. n >= free * S
      BY <2>1, <2>2 DEF Binding
    <2>4. 2 * Tenth * u + Tenth >= 2 * free
      BY <2>2, <2>3, FlagsBound
    <2>5. Available(m, w)' = free
      BY <1>2, <2>2 DEF Available
    <2> QED BY <2>1, <2>2, <2>4, <2>5
  <1>9. CapacityKept'
    BY <1>7, <1>8 DEF CapacityKept
  <1> QED BY <1>2, <1>5, <1>9 DEF PlanInv, SplitKept, SplitIsFair, LoadsKept, BookKept, PricesKept, Settled

LEMMA BookWritten ==
    ASSUME ForecastTyped, forecast' = forecast, PlanTyped(batches)',
           book' = [f \in Families |-> Book(batches', f)]
    PROVE  BookKept'
  <1> SUFFICES ASSUME NEW f \in Families, NEW w \in Weeks
               PROVE  /\ book'[f][w].inventory - book'[f][w].backlog
                           = 10 * InitialInventory[f]
                             + SumFunction([v \in 1..w |-> 10 * FamilyBatches(batches, f, v)' - DemandTenths(f, v)'])
                      /\ book'[f][w].inventory = 0 \/ book'[f][w].backlog = 0
    BY DEF BookKept
  <1>1. PICK plan : plan = batches'
    OBVIOUS
  <1>2. PlanTyped(plan)
    BY <1>1 DEF PlanTyped
  <1>3. \A v \in 1..w : FamilyBatches(batches, f, v)' = FamilyBatches(plan, f, v)
    BY <1>1 DEF FamilyBatches
  <1>4. \A v \in 1..w : DemandTenths(f, v)' = DemandTenths(f, v)
    <2>1. \A v \in 1..w : v \in Weeks
      BY PlanAssumption DEF Weeks
    <2> QED BY <2>1, SameForecast
  <1>5. [v \in 1..w |-> 10 * FamilyBatches(batches, f, v)' - DemandTenths(f, v)']
          = [v \in 1..w |-> 10 * FamilyBatches(plan, f, v) - DemandTenths(f, v)]
    BY <1>3, <1>4
  <1>6. /\ Book(plan, f)[w].inventory - Book(plan, f)[w].backlog
             = 10 * InitialInventory[f]
               + SumFunction([v \in 1..w |-> 10 * FamilyBatches(plan, f, v) - DemandTenths(f, v)])
        /\ Book(plan, f)[w].inventory = 0 \/ Book(plan, f)[w].backlog = 0
    BY <1>2, BookBalances
  <1>7. book'[f] = Book(plan, f)
    BY <1>1
  <1> QED BY <1>5, <1>6, <1>7

LEMMA SplitStep ==
    ASSUME PlanInv, DisaggregateToSku
    PROVE  PlanInv'
  <1>1. /\ stage' = "check" /\ UNCHANGED <<forecast, cuts, target, overtime, dualsValid>>
        /\ stage = "split" /\ UNCHANGED <<utilized, bottleneck>> /\ CapacityKept
        /\ batches' = [p \in Products |-> [w \in Weeks |-> Allocation(p, w)]]
        /\ book' = [f \in Families |-> Book(batches', f)]
        /\ TypesKept /\ ForecastTyped /\ TargetTyped
    BY DEF DisaggregateToSku, PlanInv, TypesKept, capacityRows
  <1>2. \A p \in Products : FamilyOf[p] \in Families /\ p \in Members(FamilyOf[p])
    BY PlanAssumption DEF Members
  <1>3. ASSUME NEW f \in Families, NEW w \in Weeks
        PROVE  /\ \A p \in Members(f) : Allocation(p, w) \in Nat
               /\ FamilyBatches(batches, f, w)' = target[f][w]
               /\ \A p \in Members(f) :
                    LET gap == Allocation(p, w) * FamilyWeight(f, w) - Share(p, w)
                    IN gap < FamilyWeight(f, w) /\ -gap < FamilyWeight(f, w)
    <2>1. PICK al : al = [p \in Members(f) |-> Allocation(p, w)]
      OBVIOUS
    <2>2. /\ \A p \in Members(f) : Allocation(p, w) \in Nat
          /\ Total(al, Members(f)) = target[f][w]
          /\ \A p \in Members(f) :
               LET gap == Allocation(p, w) * FamilyWeight(f, w) - Share(p, w)
               IN gap < FamilyWeight(f, w) /\ -gap < FamilyWeight(f, w)
      BY <1>1, <2>1, SplitLemma
    <2>3. SumFunction(al) = Total(al, Members(f))
      <3>1. DOMAIN al = Members(f) /\ \A p \in DOMAIN al : al[p] \in Int
        BY <2>1, <2>2
      <3> QED BY <3>1, Finite, SumIsTotal
    <2>4. [p \in Members(f) |-> batches'[p][w]] = al
      BY <1>1, <2>1, Finite
    <2>5. FamilyBatches(batches, f, w)' = SumFunction(al)
      BY <2>4 DEF FamilyBatches
    <2> QED BY <2>2, <2>3, <2>5
  <1>4. PlanTyped(batches)'
    <2>1. \A p \in Products, w \in Weeks : Allocation(p, w) \in Nat
      BY <1>2, <1>3
    <2> QED BY <1>1, <2>1 DEF PlanTyped
  <1>5. TypesKept'
    BY <1>1, <1>4 DEF TypesKept, Stages, ForecastTyped, TargetTyped, OvertimeTyped, CutsTyped
  <1>6. SplitKept'
    <2>1. \A w \in Weeks, f \in Families :
            /\ FamilyWeight(f, w)' = FamilyWeight(f, w)
            /\ \A p \in Members(f) : Weight(p, w)' = Weight(p, w)
      BY <1>1, SameForecast
    <2>2. \A w \in Weeks, f \in Families : \A p \in Members(f) : Share(p, w)' = Share(p, w)
      BY <1>1, <2>1 DEF Share
    <2>3. \A w \in Weeks, f \in Families : \A p \in Members(f) : batches'[p][w] = Allocation(p, w)
      BY <1>1, Finite
    <2>4. \A w \in Weeks, f \in Families : FamilyBatches(batches, f, w)' = target'[f][w]
      BY <1>1, <1>3
    <2>5. \A w \in Weeks, f \in Families : \A p \in Members(f) :
             LET gap == batches'[p][w] * FamilyWeight(f, w)' - Share(p, w)'
             IN gap < FamilyWeight(f, w)' /\ -gap < FamilyWeight(f, w)'
      <3> TAKE w \in Weeks, f \in Families
      <3> TAKE p \in Members(f)
      <3>1. LET gap == Allocation(p, w) * FamilyWeight(f, w) - Share(p, w)
            IN gap < FamilyWeight(f, w) /\ -gap < FamilyWeight(f, w)
        BY <1>3
      <3>2. /\ batches'[p][w] = Allocation(p, w) /\ FamilyWeight(f, w)' = FamilyWeight(f, w)
            /\ Share(p, w)' = Share(p, w)
        BY <2>1, <2>2, <2>3
      <3> QED BY <3>1, <3>2
    <2> QED BY <2>4, <2>5 DEF SplitKept, SplitIsFair
  <1>7. BookKept'
    BY <1>1, <1>4, BookWritten
  <1>8. PricesKept'
    <2>1. \A f \in Families, w \in Weeks : FamilyBatches(batches, f, w)' = target'[f][w]
      BY <1>1, <1>3
    <2> QED BY <2>1 DEF PricesKept
  <1>9. LoadsKept'
    BY <1>1 DEF LoadsKept, Settled
  <1>10. HoursKept'
    <2>1. PICK plan : plan = batches'
      OBVIOUS
    <2>2. PlanTyped(plan)
      BY <1>4, <2>1 DEF PlanTyped
    <2>3. dualsValid /\ dualsValid' /\ utilized' \in [Machines -> [Weeks -> Nat]]
      BY <1>1 DEF CapacityKept, HoursKept
    <2>4. ASSUME NEW m \in Machines, NEW w \in Weeks
          PROVE  HoursNear(utilized'[m][w], Load(batches, m, w)', HoursOnMachine(m))
      <3>1. OfSplit(plan, w)
        <4>1. \A f \in Families : \A p \in Members(f) : plan[p][w] = Allocation(p, w)
          BY <1>1, <2>1, Finite
        <4> QED BY <1>3, <4>1 DEF OfSplit
      <3>2. /\ Load(plan, m, w) \in Nat /\ HoursOnMachine(m) \in Nat
            /\ Near1(Scale(w), LoadNum(Column(w), m, w), Load(plan, m, w), HoursOnMachine(m))
        BY <1>1, <2>2, <3>1, MixNear
      <3>3. Scale(w) \in Nat \ {0} /\ LoadNum(Column(w), m, w) \in Nat
        <4>1. Column(w) \in [Families -> Nat] /\ CutsTyped
          BY <1>1 DEF Column, TargetTyped, TypesKept
        <4> QED BY <1>1, <4>1, LoadsTyped
      <3>4. utilized[m][w] \in Nat /\ HoursOfMix(utilized[m][w], LoadNum(Column(w), m, w), Scale(w))
        BY <1>1 DEF CapacityKept, HoursKept
      <3>5. HoursNear(utilized[m][w], Load(plan, m, w), HoursOnMachine(m))
        BY <3>2, <3>3, <3>4, HoursOfSplit
      <3>6. Load(batches, m, w)' = Load(plan, m, w)
        BY <2>1 DEF Load
      <3> QED BY <1>1, <3>5, <3>6
    <2> QED BY <1>1, <2>3, <2>4 DEF HoursKept
  <1>11. FlagsKept'
    <2>1. \A m, w : Available(m, w)' = Available(m, w)
      BY <1>1 DEF Available
    <2> QED BY <1>1, <2>1 DEF CapacityKept, FlagsKept
  <1> QED BY <1>5, <1>6, <1>7, <1>8, <1>9, <1>10, <1>11 DEF PlanInv, CapacityKept

LEMMA LoadOfWeek ==
    ASSUME NEW plan, PlanTyped(plan), NEW m \in Machines, NEW w \in Weeks,
           NEW week, week = [p \in Products |-> plan[p][w]]
    PROVE  week \in [Products -> Nat] /\ Load(plan, m, w) = WeekLoad(week, m)
  <1>1. week \in [Products -> Nat]
    BY DEF PlanTyped
  <1>2. [p \in Products |-> plan[p][w] * Cycle[p][m]] = [p \in Products |-> week[p] * Cycle[p][m]]
    OBVIOUS
  <1> QED BY <1>1, <1>2 DEF Load, WeekLoad

LEMMA OverloadTyped ==
    ASSUME TypesKept, NEW m \in Machines, NEW w \in Weeks
    PROVE  /\ Load(batches, m, w) \in Nat /\ TotalCapacity(m, w) \in Nat
           /\ Overload(batches, m, w) \in Nat
           /\ ~(Overload(batches, m, w) > 0) => Load(batches, m, w) <= TotalCapacity(m, w)
  <1>1. PICK load \in Nat : load = Load(batches, m, w)
    <2>1. PICK week : week = [p \in Products |-> batches[p][w]]
      OBVIOUS
    <2>2. week \in [Products -> Nat] /\ Load(batches, m, w) = WeekLoad(week, m)
      BY <2>1, LoadOfWeek DEF TypesKept
    <2>3. WeekLoad(week, m) \in Nat
      BY <2>2, LoadTotal
    <2> QED BY <2>2, <2>3
  <1>2. PICK cap \in Nat : cap = TotalCapacity(m, w)
    BY PlanAssumption DEF TotalCapacity, TypesKept, OvertimeTyped
  <1>3. Max0(load - cap) = (IF load - cap > 0 THEN load - cap ELSE 0) /\ Max0(load - cap) \in Nat
    <2>1. load - cap \in Int
      OBVIOUS
    <2> QED BY <2>1, NotNegative
  <1>4. Overload(batches, m, w) = Max0(load - cap)
    BY <1>1, <1>2 DEF Overload
  <1> QED BY <1>1, <1>2, <1>3, <1>4

LEMMA ConvergedStep ==
    ASSUME PlanInv, Converged
    PROVE  PlanInv'
  <1>1. /\ stage = "check" /\ stage' = "planned" /\ Overloaded(batches) = {} /\ TypesKept
        /\ UNCHANGED <<forecast, cuts, target, overtime, batches, book, dualsValid, utilized, bottleneck>>
    BY DEF Converged, PlanInv, capacityRows
  <1>2. TypesKept'
    BY <1>1 DEF TypesKept, Stages, ForecastTyped, TargetTyped, OvertimeTyped, CutsTyped, PlanTyped
  <1>3. LoadsKept'
    <2> SUFFICES ASSUME NEW m \in Machines, NEW w \in Weeks
                 PROVE  Load(batches, m, w)' <= TotalCapacity(m, w)'
      BY DEF LoadsKept
    <2>1. ~(Overload(batches, m, w) > 0)
      <3>1. <<m, w>> \notin Overloaded(batches)
        BY <1>1
      <3> QED BY <3>1 DEF Overloaded
    <2>2. Load(batches, m, w) <= TotalCapacity(m, w)
      BY <1>1, <2>1, OverloadTyped
    <2>3. Load(batches, m, w)' = Load(batches, m, w) /\ TotalCapacity(m, w)' = TotalCapacity(m, w)
      BY <1>1, LoadsStay
    <2> QED BY <2>2, <2>3
  <1>4. BookKept'
    BY <1>1, BookStays DEF PlanInv
  <1>5. PricesKept'
    <2>1. \A f \in Families, w \in Weeks : FamilyBatches(batches, f, w)' = FamilyBatches(batches, f, w)
      BY <1>1, BatchesStay
    <2> QED BY <1>1, <2>1 DEF PlanInv, PricesKept
  <1>6. SplitKept'
    BY <1>1 DEF SplitKept, SplitIsFair
  <1>7. CapacityKept'
    BY <1>1, CapacityStays DEF PlanInv
  <1> QED BY <1>2, <1>3, <1>4, <1>5, <1>6, <1>7 DEF PlanInv

LEMMA CutsTypedStep ==
    ASSUME TypesKept,
           cuts' = [m \in Machines |-> [w \in Weeks |-> cuts[m][w] + Overload(batches, m, w)]]
    PROVE  CutsTyped'
  <1>1. \A m \in Machines, w \in Weeks : cuts[m][w] \in Nat
    BY DEF TypesKept, CutsTyped
  <1>2. \A m \in Machines, w \in Weeks : Overload(batches, m, w) \in Nat
    BY OverloadTyped
  <1>3. \A m \in Machines, w \in Weeks : cuts[m][w] + Overload(batches, m, w) \in Nat
    BY <1>1, <1>2
  <1> QED BY <1>3 DEF CutsTyped

LEMMA CutsStep ==
    ASSUME PlanInv, FeedCutsBack
    PROVE  PlanInv'
  <1>1. /\ stage' = "solve" /\ forecast' = forecast /\ TypesKept
        /\ target' = NoTarget /\ overtime' = NoOvertime /\ batches' = NoBatches
        /\ cuts' = [m \in Machines |-> [w \in Weeks |-> cuts[m][w] + Overload(batches, m, w)]]
        /\ utilized' = NotUtilized
    BY DEF FeedCutsBack, PlanInv
  <1>2. CutsTyped'
    BY <1>1, CutsTypedStep
  <1>3. TypesKept'
    <2>1. MaxOvertime \in Nat
      BY PlanAssumption
    <2> QED BY <1>1, <1>2, <2>1 DEF TypesKept, Stages, ForecastTyped, TargetTyped, OvertimeTyped,
                                   PlanTyped, NoTarget, NoOvertime, NoBatches
  <1>4. CapacityKept'
    BY <1>1 DEF CapacityKept, HoursKept, FlagsKept, NotUtilized
  <1> QED BY <1>1, <1>3, <1>4 DEF PlanInv, SplitKept, SplitIsFair, LoadsKept, BookKept, PricesKept, Settled

LEMMA RepairStep ==
    ASSUME PlanInv, Repair
    PROVE  PlanInv'
  <1>1. /\ stage' = "planned" /\ TypesKept
        /\ UNCHANGED <<forecast, target, overtime>> /\ dualsValid' = FALSE
        /\ book' = [f \in Families |-> Book(batches', f)]
        /\ cuts' = [m \in Machines |-> [w \in Weeks |-> cuts[m][w] + Overload(batches, m, w)]]
        /\ batches' = [p \in Products |-> [w \in Weeks |->
                         [v \in Weeks |-> RepairWeek([q \in Products |-> batches[q][v]], v)][w][p]]]
    BY DEF Repair, PlanInv
  <1>2. batches' = [p \in Products |-> [w \in Weeks |-> RepairWeek([q \in Products |-> batches[q][w]], w)[p]]]
    BY <1>1
  <1>3. ASSUME NEW w \in Weeks
        PROVE  \E r \in [Products -> Nat] :
                  /\ r = RepairWeek([q \in Products |-> batches[q][w]], w)
                  /\ \A m \in Machines : WeekLoad(r, m) <= TotalCapacity(m, w)
    <2>1. PICK week : week = [p \in Products |-> batches[p][w]]
      OBVIOUS
    <2>2. week \in [Products -> Nat]
      BY <1>1, <2>1 DEF TypesKept, PlanTyped
    <2>3. Typed
      BY <1>1 DEF Typed, TypesKept
    <2> QED BY <2>1, <2>2, <2>3, WeekRepaired
  <1>4. PlanTyped(batches)'
    <2>1. \A w \in Weeks : RepairWeek([q \in Products |-> batches[q][w]], w) \in [Products -> Nat]
      BY <1>3
    <2>2. \A w \in Weeks, p \in Products : RepairWeek([q \in Products |-> batches[q][w]], w)[p] \in Nat
      BY <2>1
    <2> QED BY <1>2, <2>2 DEF PlanTyped
  <1>5. CutsTyped'
    BY <1>1, CutsTypedStep
  <1>6. TypesKept'
    BY <1>1, <1>4, <1>5 DEF TypesKept, Stages, ForecastTyped, TargetTyped, OvertimeTyped
  <1>7. LoadsKept'
    <2> SUFFICES ASSUME NEW m \in Machines, NEW w \in Weeks
                 PROVE  Load(batches, m, w)' <= TotalCapacity(m, w)'
      BY DEF LoadsKept
    <2>1. PICK r \in [Products -> Nat] :
             /\ r = RepairWeek([q \in Products |-> batches[q][w]], w)
             /\ WeekLoad(r, m) <= TotalCapacity(m, w)
      BY <1>3
    <2>2. \A p \in Products : batches'[p][w] = r[p]
      BY <1>2, <2>1
    <2>3. [p \in Products |-> batches'[p][w] * Cycle[p][m]] = [p \in Products |-> r[p] * Cycle[p][m]]
      BY <2>2
    <2>4. Load(batches, m, w)' = WeekLoad(r, m)
      BY <2>3 DEF Load, WeekLoad
    <2>5. TotalCapacity(m, w)' = TotalCapacity(m, w)
      BY <1>1 DEF TotalCapacity
    <2> QED BY <2>1, <2>4, <2>5
  <1>8. BookKept'
    BY <1>1, <1>4, BookWritten DEF TypesKept
  <1>9. CapacityKept'
    <2>1. utilized' = [m \in Machines |-> [w \in Weeks |-> Rounded(Load(batches', m, w), Tenth)]]
      BY DEF Repair, HoursOf
    <2>2. PICK plan : plan = batches'
      OBVIOUS
    <2>3. \A m \in Machines, w \in Weeks : Load(plan, m, w) \in Nat
      <3> TAKE m \in Machines, w \in Weeks
      <3>1. PICK week : week = [p \in Products |-> plan[p][w]]
        OBVIOUS
      <3>2. PlanTyped(plan)
        BY <1>4, <2>2 DEF PlanTyped
      <3>3. week \in [Products -> Nat] /\ Load(plan, m, w) = WeekLoad(week, m)
        BY <3>1, <3>2, LoadOfWeek
      <3> QED BY <3>3, LoadTotal
    <2>4. \A m \in Machines, w \in Weeks : Rounded(Load(plan, m, w), Tenth) \in Nat
      <3> TAKE m \in Machines, w \in Weeks
      <3>1. PICK n \in Nat, t \in Nat \ {0} : n = Load(plan, m, w) /\ t = Tenth
        BY <2>3, PlanAssumption DEF Tenth
      <3> QED BY <3>1, RoundedBounds
    <2>5. \A m \in Machines, w \in Weeks :
            Load(batches, m, w)' = Load(plan, m, w) /\ utilized'[m][w] = Rounded(Load(plan, m, w), Tenth)
      BY <2>1, <2>2 DEF Load
    <2>6. utilized' \in [Machines -> [Weeks -> Nat]]
      BY <2>1, <2>2, <2>4
    <2> QED BY <1>1, <2>5, <2>6 DEF CapacityKept, HoursKept, FlagsKept
  <1> QED BY <1>1, <1>6, <1>7, <1>8, <1>9 DEF PlanInv, SplitKept, SplitIsFair, PricesKept
-----------------------------------------------------------------------------
(* What holds of every plan. *)

LEMMA HotUnchanged ==
    ASSUME UNCHANGED hotVars
    PROVE  /\ UNCHANGED <<stage, forecast, round, cuts, target, overtime, batches, book, dualsValid>>
           /\ UNCHANGED <<utilized, bottleneck, safety, orders, delay, lots, hot>>
  BY DEF hotVars, chainVars, planVars, capacityRows

LEMMA PlanInvKept ==
    ASSUME PlanInv, [HotNext]_hotVars
    PROVE  PlanInv'
  <1>1. CASE PlanNext
    BY <1>1, SolveStep, SplitStep, ConvergedStep, CutsStep, RepairStep DEF PlanNext
  <1>2. CASE RunMrpEngine
    BY <1>2, TablesStay DEF RunMrpEngine, Settled, Stages, capacityRows
  <1>3. CASE ScheduleLots
    BY <1>3, TablesStay DEF ScheduleLots, Settled, Stages, capacityRows
  <1>4. ASSUME NEW p \in Products, NEW q \in HotQuantities, NEW replay \in BOOLEAN,
               SimulateHotOrder(p, q, replay)
        PROVE  PlanInv'
    BY <1>4, TablesStay DEF SimulateHotOrder, Settled, Stages, capacityRows
  <1>5. CASE UNCHANGED hotVars
    <2>1. stage \in Stages
      BY DEF PlanInv, TypesKept
    <2> QED BY <1>5, <2>1, HotUnchanged, TablesStay
  <1> QED BY <1>1, <1>2, <1>3, <1>4, <1>5 DEF HotNext, ChainNext

\* Planning, ordering, scheduling and the rush order keep the invariant of the
\* planning tables: types, a fair split, loads within capacity, balanced books,
\* prices and capacity rows of the plan they belong to.
THEOREM PlanInvariant == HotSpec => []PlanInv
  <1>1. HotInit => PlanInv
    BY InitiallyPlanned DEF HotInit, ChainInit
  <1>2. PlanInv /\ [HotNext]_hotVars => PlanInv'
    BY PlanInvKept
  <1> QED BY <1>1, <1>2, PTL DEF HotSpec

\* However many families, products and weeks there are and whatever is forecast,
\* the split by largest remainders neither loses nor invents a batch, and no
\* product is a whole batch off its share (disaggregate_to_sku).
THEOREM SplitFair == HotSpec => []SplitIsFair
  <1>1. PlanInv => SplitIsFair
    BY DEF PlanInv, SplitKept
  <1> QED BY <1>1, PlanInvariant, PTL

\* Whatever the calendar, the cycle times and the plan, the published plan loads
\* no machine beyond the capacity published with it, and that capacity is within
\* the calendar: when the rounds run out the greedy repair is enough, although it
\* reads its loads before the other machines are repaired (run_planning_pipeline).
THEOREM CapacityRespected == HotSpec => []PlanFitsCapacity
  <1>1. PlanInv => PlanFitsCapacity
    <2> SUFFICES ASSUME PlanInv, stage = "planned", NEW m \in Machines, NEW w \in Weeks
                 PROVE  /\ Load(batches, m, w) <= TotalCapacity(m, w)
                        /\ TotalCapacity(m, w) <= Regular + MaxOvertime
      BY DEF PlanFitsCapacity
    <2>1. Load(batches, m, w) <= TotalCapacity(m, w)
      BY DEF PlanInv, LoadsKept, Settled
    <2>2. overtime[m][w] \in 0..MaxOvertime
      BY DEF PlanInv, TypesKept, OvertimeTyped
    <2>3. Regular + overtime[m][w] <= Regular + MaxOvertime
      <3>1. PICK r \in Nat, top \in Nat : r = Regular /\ top = MaxOvertime
        BY PlanAssumption
      <3>2. PICK o \in 0..top : o = overtime[m][w]
        BY <2>2, <3>1
      <3>3. r + o <= r + top
        OBVIOUS
      <3> QED BY <3>1, <3>2, <3>3
    <2> QED BY <2>1, <2>3 DEF TotalCapacity
  <1> QED BY <1>1, PlanInvariant, PTL

\* Whatever is forecast and planned, the published figures belong together: the
\* family table is the book of the product table, repaired or not; the hours of the
\* capacity table are those of its batches, exactly after a repair and otherwise up
\* to a batch of every product; and valid prices and bottleneck flags are of the
\* batches the programme chose itself (run_planning_pipeline).
THEOREM OnePlanPublished == HotSpec => []PublishedFiguresAgree
  <1>1. PlanInv => PublishedFiguresAgree
    <2>1. SUFFICES ASSUME PlanInv
                   PROVE  BookAgreesWithPlan /\ ShadowPricesOfThisPlan /\ UtilisationOfThisPlan
      BY DEF PublishedFiguresAgree
    <2>2. BookAgreesWithPlan
      BY <2>1 DEF PlanInv, BookKept, BookAgreesWithPlan
    <2>3. ShadowPricesOfThisPlan
      BY <2>1 DEF PlanInv, PricesKept, CapacityKept, FlagsKept, ShadowPricesOfThisPlan
    <2>4. UtilisationOfThisPlan
      BY <2>1 DEF PlanInv, CapacityKept, HoursKept, HoursNear, UtilisationOfThisPlan
    <2> QED BY <2>2, <2>3, <2>4
  <1> QED BY <1>1, PlanInvariant, PTL
-----------------------------------------------------------------------------
(* The invariant of orders and lots. *)

OrdersKept ==
    stage \in {"ordered", "scheduled", "simulated"} =>
      /\ safety \in [Materials -> Nat] /\ OrdersTyped
      /\ \A x \in Materials : Rows(orders[x], x, safety[x])
LotsKept ==
    stage = "scheduled" => \E wait \in MaterialDelays : delay = wait /\ lots = PlanLots(wait)
HotKept ==
    stage = "simulated" =>
      \E p \in Products, q \in HotQuantities, replay \in BOOLEAN :
        /\ hot = [product |-> p, quantity |-> q, replay |-> replay]
        /\ lots = PlanLots(0) \cup LotsOf("HOT", p, HotBatches(q), 0)
ChainInv == OrdersKept /\ LotsKept /\ HotKept

LEMMA SameRows ==
    ASSUME batches' = batches, NEW x \in Materials, NEW stock, NEW r, Rows(r, x, stock)
    PROVE  Rows(r, x, stock)'
  <1>1. \A w \in Weeks : Gross(x, w)' = Gross(x, w)
    BY SameGross
  <1> QED BY <1>1 DEF Rows

LEMMA OrdersStay ==
    ASSUME OrdersKept, batches' = batches, UNCHANGED <<safety, orders>>,
           stage \in {"ordered", "scheduled", "simulated"}
    PROVE  OrdersKept'
  <1>1. safety \in [Materials -> Nat] /\ OrdersTyped /\ \A x \in Materials : Rows(orders[x], x, safety[x])
    BY DEF OrdersKept
  <1>2. ASSUME NEW x \in Materials PROVE Rows(orders[x], x, safety[x])'
    <2>1. PICK r, stock : r = orders[x] /\ stock = safety[x] /\ r = orders'[x] /\ stock = safety'[x]
      OBVIOUS
    <2>2. Rows(r, x, stock)'
      BY <1>1, <2>1, SameRows
    <2> QED BY <2>1, <2>2 DEF Rows
  <1>3. safety' \in [Materials -> Nat] /\ OrdersTyped'
    BY <1>1 DEF OrdersTyped
  <1> QED BY <1>2, <1>3 DEF OrdersKept

LEMMA OrdersPlaced ==
    ASSUME PlanInv, RunMrpEngine
    PROVE  ChainInv'
  <1>1. /\ stage' = "ordered" /\ batches' = batches /\ PlanTyped(batches)
        /\ safety' \in [Materials -> SafetyStocks]
        /\ orders' = [x \in Materials |-> Orders(x, safety'[x])]
    BY DEF RunMrpEngine, PlanInv, TypesKept
  <1>2. safety' \in [Materials -> Nat]
    <2>1. SafetyStocks \subseteq Nat
      BY MaterialAssumption
    <2> QED BY <1>1, <2>1
  <1>3. ASSUME NEW x \in Materials
        PROVE  Rows(orders[x], x, safety[x])' /\ orders'[x] \in [Weeks -> Row]
    <2>1. PICK stock \in Nat : stock = safety'[x]
      BY <1>2
    <2>2. PICK r : r = Orders(x, stock) /\ r = orders'[x]
      BY <1>1, <2>1
    <2>3. Rows(r, x, stock)
      BY <1>1, <2>2, OrderRows
    <2>4. Rows(r, x, stock)'
      BY <1>1, <2>3, SameRows
    <2>5. r \in [Weeks -> Row]
      BY <2>3 DEF Rows
    <2> QED BY <2>1, <2>2, <2>4, <2>5 DEF Rows
  <1>4. OrdersTyped'
    <2>1. orders' = [x \in Materials |-> orders'[x]]
      BY <1>1
    <2> QED BY <1>3, <2>1 DEF OrdersTyped
  <1> QED BY <1>1, <1>2, <1>3, <1>4 DEF ChainInv, OrdersKept, LotsKept, HotKept

LEMMA ChainInvKept ==
    ASSUME PlanInv, ChainInv, [HotNext]_hotVars
    PROVE  ChainInv'
  <1>1. CASE PlanNext
    BY <1>1 DEF PlanNext, SolveAggregateLp, DisaggregateToSku, Converged, FeedCutsBack, Repair,
                ChainInv, OrdersKept, LotsKept, HotKept
  <1>2. CASE RunMrpEngine
    BY <1>2, OrdersPlaced
  <1>3. CASE ScheduleLots
    <2>1. /\ stage = "ordered" /\ stage' = "scheduled" /\ batches' = batches
          /\ orders' = orders /\ safety' = safety
      BY <1>3 DEF ScheduleLots
    <2>2. PICK wait \in MaterialDelays : delay' = wait /\ lots' = PlanLots(wait)
      BY <1>3 DEF ScheduleLots
    <2>3. PlanLots(wait)' = PlanLots(wait)
      BY <2>1, SamePlanLots
    <2>4. OrdersKept'
      BY <2>1, OrdersStay DEF ChainInv
    <2>5. LotsKept'
      BY <2>2, <2>3 DEF LotsKept
    <2> QED BY <2>1, <2>4, <2>5 DEF ChainInv, HotKept
  <1>4. ASSUME NEW p \in Products, NEW q \in HotQuantities, NEW replay \in BOOLEAN,
               SimulateHotOrder(p, q, replay)
        PROVE  ChainInv'
    <2>1. /\ stage = "ordered" /\ stage' = "simulated" /\ batches' = batches
          /\ orders' = orders /\ safety' = safety
          /\ hot' = [product |-> p, quantity |-> q, replay |-> replay]
          /\ lots' = PlanLots(0) \cup LotsOf("HOT", p, HotBatches(q), 0)
      BY <1>4 DEF SimulateHotOrder
    <2>2. PlanLots(0)' = PlanLots(0)
      BY <2>1, SamePlanLots
    <2>3. LotsOf("HOT", p, HotBatches(q), 0)' = LotsOf("HOT", p, HotBatches(q), 0)
      BY <2>1, SameLots
    <2>4. OrdersKept'
      BY <2>1, OrdersStay DEF ChainInv
    <2>5. HotKept'
      BY <2>1, <2>2, <2>3 DEF HotKept
    <2> QED BY <2>1, <2>4, <2>5 DEF ChainInv, LotsKept
  <1>5. CASE UNCHANGED hotVars
    <2>1. /\ stage' = stage /\ batches' = batches /\ orders' = orders /\ safety' = safety
          /\ lots' = lots /\ delay' = delay /\ hot' = hot
      BY <1>5, HotUnchanged
    <2>2. OrdersKept'
      <3>1. CASE stage \in {"ordered", "scheduled", "simulated"}
        BY <2>1, <3>1, OrdersStay DEF ChainInv
      <3>2. CASE stage \notin {"ordered", "scheduled", "simulated"}
        BY <2>1, <3>2 DEF OrdersKept
      <3> QED BY <3>1, <3>2
    <2>3. \A wait : PlanLots(wait)' = PlanLots(wait)
      BY <2>1, SamePlanLots
    <2>4. \A p \in Products, q \in HotQuantities :
            LotsOf("HOT", p, HotBatches(q), 0)' = LotsOf("HOT", p, HotBatches(q), 0)
      BY <2>1, SameLots
    <2>5. LotsKept'
      BY <2>1, <2>3 DEF ChainInv, LotsKept
    <2>6. HotKept'
      BY <2>1, <2>3, <2>4 DEF ChainInv, HotKept
    <2> QED BY <2>2, <2>5, <2>6 DEF ChainInv
  <1> QED BY <1>1, <1>2, <1>3, <1>4, <1>5 DEF HotNext, ChainNext

\* Orders are the rows of the plan's consumption, and lots are those of the plan
\* and the rush order, whenever they are there.
THEOREM ChainInvariant == HotSpec => [](PlanInv /\ ChainInv)
  <1>1. HotInit => PlanInv /\ ChainInv
    <2> SUFFICES ASSUME HotInit PROVE PlanInv /\ ChainInv
      OBVIOUS
    <2>1. PlanInit
      BY DEF HotInit, ChainInit
    <2>2. stage = "solve"
      BY <2>1 DEF PlanInit
    <2> QED BY <2>1, <2>2, InitiallyPlanned DEF ChainInv, OrdersKept, LotsKept, HotKept
  <1>2. (PlanInv /\ ChainInv) /\ [HotNext]_hotVars => (PlanInv /\ ChainInv)'
    BY PlanInvKept, ChainInvKept
  <1> QED BY <1>1, <1>2, PTL DEF HotSpec

\* Every week's projected stock covers the safety stock, in whole order lots and
\* with no lot too many, for every material, horizon and plan (run_mrp_engine).
THEOREM OrdersSuffice == HotSpec => []OrdersCoverPlan
  <1>1. PlanInv /\ ChainInv => OrdersCoverPlan
    <2> SUFFICES ASSUME PlanInv, ChainInv, stage = "scheduled", NEW x \in Materials, NEW w \in Weeks
                 PROVE  /\ OnHand[x] + Received(x, w) - Used(x, w) >= safety[x]
                        /\ orders[x][w].receipt % OrderLot[x] = 0
                        /\ orders[x][w].receipt > 0 =>
                             OnHand[x] + Received(x, w) - Used(x, w) < safety[x] + OrderLot[x]
      BY DEF OrdersCoverPlan
    <2>0. PICK stock \in Nat : stock = safety[x]
      BY DEF ChainInv, OrdersKept
    <2>1. PICK r : r = orders[x] /\ stock = safety[x] /\ Rows(r, x, stock)
      BY <2>0 DEF ChainInv, OrdersKept
    <2>2. PlanTyped(batches)
      BY DEF PlanInv, TypesKept
    <2>3. OnHand[x] + SumFunction([v \in 1..w |-> r[v].receipt])
             - SumFunction([v \in 1..w |-> Gross(x, v)]) = r[w].available
      BY <2>1, <2>2, OrdersBalance, SMTT(30)
    <2>4. OnHand[x] + Received(x, w) - Used(x, w) = r[w].available
      BY <2>1, <2>3 DEF Received, Used
    <2>5. /\ r[w].available >= stock /\ r[w].receipt % OrderLot[x] = 0
          /\ r[w].receipt > 0 => r[w].available < stock + OrderLot[x]
      BY <2>1, <2>2, OrdersCover
    <2> QED BY <2>1, <2>4, <2>5
  <1> QED BY <1>1, ChainInvariant, PTL
-----------------------------------------------------------------------------
(* What the lots carry. *)

UnitsIn(S) == SumFunction([l \in S |-> l.units])
Carried(S) == IsFiniteSet(S) /\ \A l \in S : l.units \in Nat

LEMMA UnitsTotal ==
    ASSUME NEW S, Carried(S)
    PROVE  /\ UnitsIn(S) \in Nat
           /\ \A g : (\A l \in S : g[l] = l.units) => Total(g, S) = UnitsIn(S)
  <1>1. PICK u : u = [l \in S |-> l.units]
    OBVIOUS
  <1>2. DOMAIN u = S /\ \A l \in S : u[l] = l.units /\ u[l] \in Nat /\ u[l] \in Int
    BY <1>1 DEF Carried
  <1>3. SumFunction(u) = Total(u, S)
    <2>1. IsFiniteSet(DOMAIN u) /\ \A l \in DOMAIN u : u[l] \in Int
      BY <1>2 DEF Carried
    <2> QED BY <1>2, <2>1, SumIsTotal
  <1>4. Total(u, S) \in Nat
    BY <1>2, TotalNatural DEF Carried
  <1>5. ASSUME NEW g, \A l \in S : g[l] = l.units PROVE Total(g, S) = Total(u, S)
    <2>1. AgreeOn(g, u, S) /\ IntegersOn(u, S)
      BY <1>2, <1>5 DEF AgreeOn, IntegersOn
    <2> QED BY <2>1, TotalSame DEF Carried
  <1>6. UnitsIn(S) = SumFunction(u)
    BY <1>1 DEF UnitsIn
  <1> QED BY <1>3, <1>4, <1>5, <1>6

LEMMA UnitsOfParts ==
    ASSUME NEW S, Carried(S), NEW R, Carried(R), S \cap R = {}
    PROVE  UnitsIn(S \cup R) = UnitsIn(S) + UnitsIn(R)
  <1>1. Carried(S \cup R)
    BY FS_Union DEF Carried
  <1>2. PICK g : g = [l \in S \cup R |-> l.units]
    OBVIOUS
  <1>3. \A l \in S \cup R : g[l] = l.units /\ g[l] \in Int
    BY <1>1, <1>2 DEF Carried
  <1>4. Total(g, S \cup R) = Total(g, S) + Total(g, R)
    BY <1>3, TotalOfParts DEF Carried
  <1>5. Total(g, S \cup R) = UnitsIn(S \cup R) /\ Total(g, S) = UnitsIn(S) /\ Total(g, R) = UnitsIn(R)
    BY <1>1, <1>3, UnitsTotal
  <1> QED BY <1>4, <1>5

Bundled(S, parent, p, total, wait) ==
    /\ Carried(S) /\ UnitsIn(S) = total * UnitsPerBatch
    /\ S = {} <=> total = 0
    /\ \A l \in S : /\ l.parent = parent /\ l.product = p
                     /\ l.batches \in 1..SubBatchLimit[p]
                     /\ l.units = l.batches * UnitsPerBatch
                     /\ l.release = ReleaseTime(p, wait)
                     /\ l.minutes = [m \in Route[p] |-> Minutes(l.batches, p, m)]

LEMMA LotsUnits ==
    ASSUME NEW parent, NEW p \in Products, NEW total \in Nat, NEW wait,
           NEW S, S = LotsOf(parent, p, total, wait)
    PROVE  Bundled(S, parent, p, total, wait)
  <1>1. /\ IsFiniteSet(S) /\ (S = {} <=> total = 0)
        /\ \A l \in S : /\ l.parent = parent /\ l.product = p
                        /\ l.batches \in 1..SubBatchLimit[p]
                        /\ l.units = l.batches * UnitsPerBatch /\ l.units \in Nat
                        /\ l.release = ReleaseTime(p, wait)
                        /\ l.minutes = [m \in Route[p] |-> Minutes(l.batches, p, m)]
        /\ \A g : (\A l \in S : g[l] = l.units) => Total(g, S) = total * UnitsPerBatch
    BY LotsSum
  <1>2. Carried(S)
    BY <1>1 DEF Carried
  <1>3. PICK u : u = [l \in S |-> l.units]
    OBVIOUS
  <1>4. \A l \in S : u[l] = l.units
    BY <1>3
  <1>5. Total(u, S) = UnitsIn(S)
    BY <1>2, <1>4, UnitsTotal
  <1> QED BY <1>1, <1>2, <1>4, <1>5 DEF Bundled

\* The lots of a plan, product by product.
LEMMA LotsOfThePlan ==
    ASSUME PlanTyped(batches), NEW wait, NEW S, S = PlanLots(wait)
    PROVE  /\ Carried(S) /\ {l.product : l \in S} = PlannedProducts
           /\ \A p \in Products : {l \in S : l.product = p} = LotsOf("LOT", p, batches[p][1], wait)
           /\ \A l \in S : l.product \in Products /\ l \in LotsOf("LOT", l.product, batches[l.product][1], wait)
           /\ \A l \in S : l.parent = "LOT"
  <1>1. PICK f : f = [p \in Products |-> LotsOf("LOT", p, batches[p][1], wait)]
    OBVIOUS
  <1>2. \A p \in Products : f[p] = LotsOf("LOT", p, batches[p][1], wait) /\ batches[p][1] \in Nat
    <2>1. 1 \in Weeks
      BY PlanAssumption DEF Weeks
    <2> QED BY <1>1, <2>1 DEF PlanTyped
  <1>3. ASSUME NEW p \in Products
        PROVE  /\ Carried(f[p]) /\ (f[p] = {} <=> batches[p][1] = 0)
               /\ \A l \in f[p] : l.product = p /\ l.parent = "LOT"
    <2>1. PICK total \in Nat : total = batches[p][1]
      BY <1>2
    <2>2. PICK T : T = LotsOf("LOT", p, total, wait) /\ T = f[p]
      BY <1>2, <2>1
    <2>3. Bundled(T, "LOT", p, total, wait)
      BY <2>1, <2>2, LotsUnits
    <2>4. /\ Carried(T) /\ (T = {} <=> total = 0)
          /\ \A l \in T : l.product = p /\ l.parent = "LOT"
      BY <2>3 DEF Bundled
    <2> QED BY <2>1, <2>2, <2>4
  <1>4. S = UNION {f[p] : p \in Products}
    <2>1. {f[p] : p \in Products} = {LotsOf("LOT", p, batches[p][1], wait) : p \in Products}
      BY <1>2
    <2> QED BY <2>1 DEF PlanLots
  <1>5. \A l \in S : \E p \in Products : l \in f[p] /\ l.product = p /\ l.parent = "LOT"
    BY <1>3, <1>4
  <1>6. Carried(S)
    <2>1. IsFiniteSet(S)
      <3>1. IsFiniteSet(Products) /\ \A p \in Products : IsFiniteSet(f[p])
        BY <1>3, Finite DEF Carried
      <3> QED BY <1>4, <3>1, FiniteUnion
    <2> QED BY <1>3, <1>5, <2>1 DEF Carried
  <1>7. \A p \in Products : {l \in S : l.product = p} = f[p]
    BY <1>3, <1>4, <1>5
  <1>8. \A p \in Products : p \in PlannedProducts <=> f[p] # {}
    <2> TAKE p \in Products
    <2>1. PICK b \in Nat, U \in Nat \ {0} : b = batches[p][1] /\ U = UnitsPerBatch
      BY <1>2, PlanAssumption
    <2>2. b * U > 0 <=> b # 0
      <3>1. CASE b = 0
        BY <3>1
      <3>2. CASE b # 0
        <4>1. b * U >= 1 * U
          BY <3>2
        <4> QED BY <3>2, <4>1
      <3> QED BY <3>1, <3>2
    <2> QED BY <1>3, <2>1, <2>2 DEF PlannedProducts, PlannedUnits
  <1>9. {l.product : l \in S} = PlannedProducts
    <2>1. \A l \in S : l.product \in PlannedProducts
      BY <1>5, <1>8
    <2>2. \A p \in PlannedProducts : \E l \in S : l.product = p
      <3> TAKE p \in PlannedProducts
      <3>1. p \in Products
        BY DEF PlannedProducts
      <3>2. PICK l \in f[p] : TRUE
        BY <1>8, <3>1
      <3> QED BY <1>3, <1>4, <3>1, <3>2
    <2> QED BY <2>1, <2>2
  <1> QED BY <1>2, <1>5, <1>6, <1>7, <1>9

\* No lot of the first week starts on material that is not there: if the stock does
\* not reach for the week, every lot that consumes the material waits for the
\* expedited delivery, whatever the orders, lead times and materials
\* (bom_mrp's action message, read by run_cpsat_scheduling).
THEOREM LotsWait == HotSpec => []LotsWaitForMaterial
  <1>1. PlanInv /\ ChainInv => LotsWaitForMaterial
    <2> SUFFICES ASSUME PlanInv, ChainInv, stage = "scheduled", NEW l \in lots,
                        NEW x \in Consumed[l.product], OnHand[x] < Gross(x, 1)
                 PROVE  l.release >= ExpediteMin + (LeadWeeks(x) - 1) * ExtraWeekMin + delay
      BY DEF LotsWaitForMaterial
    <2>1. PICK wait \in MaterialDelays : delay = wait /\ lots = PlanLots(wait)
      BY DEF ChainInv, LotsKept
    <2>2. /\ wait \in Nat /\ 1 \in Weeks /\ PlanTyped(batches) /\ OrdersTyped
          /\ safety \in [Materials -> Nat] /\ \A y \in Materials : Rows(orders[y], y, safety[y])
      BY MaterialAssumption, PlanAssumption DEF Weeks, PlanInv, TypesKept, ChainInv, OrdersKept
    <2>3. PICK p \in Products : p = l.product /\ l \in LotsOf("LOT", p, batches[p][1], wait)
      BY <2>1, <2>2, LotsOfThePlan
    <2>4. l.release = ReleaseTime(p, wait)
      <3>1. PICK total \in Nat : total = batches[p][1]
        BY <2>2 DEF PlanTyped
      <3>2. PICK T : T = LotsOf("LOT", p, total, wait) /\ l \in T
        BY <2>3, <3>1
      <3>3. Bundled(T, "LOT", p, total, wait)
        BY <3>1, <3>2, LotsUnits
      <3> QED BY <3>2, <3>3 DEF Bundled
    <2>5. x \in Materials
      BY <2>3, ConsumedFinite
    <2>6. ReleaseTime(p, wait) >= AvailableAt(x) + wait
      BY <2>2, <2>3, ReleaseAfterMaterials
    <2>7. orders[x][1].action = "EXPEDITE" /\ orders[x][1].release = 1 - LeadWeeks(x)
      <3>1. PICK stock \in Nat : stock = safety[x]
        BY <2>2, <2>5
      <3>2. PICK r : r = orders[x] /\ Rows(r, x, stock)
        BY <2>2, <2>5, <3>1
      <3>3. PICK w \in Weeks : w = 1
        BY <2>2
      <3> QED BY <2>2, <2>5, <3>2, <3>3, OrdersCover
    <2>8. PICK lead \in Nat : lead = LeadWeeks(x) /\ lead >= 1
      BY <2>5, LeadAtLeastOne
    <2>9. Max0(lead - 1) = lead - 1
      <3>1. lead - 1 \in Int
        OBVIOUS
      <3>2. Max0(lead - 1) = IF lead - 1 > 0 THEN lead - 1 ELSE 0
        BY <3>1, NotNegative
      <3> QED BY <2>8, <3>2
    <2>10. AvailableAt(x) = ExpediteMin + (lead - 1) * ExtraWeekMin
      <3>1. -orders[x][1].release = lead - 1
        BY <2>7, <2>8
      <3>2. AvailableAt(x) = ExpediteMin + Max0(-orders[x][1].release) * ExtraWeekMin
        BY <2>2, <2>5, <2>7, AvailableTyped
      <3> QED BY <2>9, <3>1, <3>2
    <2> QED BY <2>1, <2>4, <2>6, <2>8, <2>10
  <1> QED BY <1>1, ChainInvariant, PTL

\* The first week's lots carry exactly the plan: the comparison with the plan never
\* refuses and reports as late what the lots that end after the week carry, and
\* every operation fits a regular shift of its machine whenever one batch does, for
\* every plan, route, shift and limit (lot streaming, compare_week_one).
THEOREM LotsComplete == HotSpec => []LotsCarryPlan
  <1>1. ASSUME PlanInv, ChainInv, stage = "scheduled", PlannedProducts # {}, NEW p \in Products,
               NEW late \in SUBSET {l \in lots : l.product = p}
        PROVE  /\ CompareWeekOne(late).accepted
               /\ CompareWeekOne(late).after[p] = SumFunction([l \in late |-> l.units])
    <2>1. PICK wait \in MaterialDelays : lots = PlanLots(wait)
      BY <1>1 DEF ChainInv, LotsKept
    <2>2. PlanTyped(batches)
      BY <1>1 DEF PlanInv, TypesKept
    <2>3. PICK S : S = lots /\ S = PlanLots(wait)
      BY <2>1
    <2>4. /\ Carried(S) /\ {l.product : l \in S} = PlannedProducts
          /\ \A q \in Products : {l \in S : l.product = q} = LotsOf("LOT", q, batches[q][1], wait)
      BY <2>2, <2>3, LotsOfThePlan
    <2>5. ASSUME NEW q \in Products
          PROVE  /\ UnitsOf(q, lots) = PlannedUnits(q, 1)
                 /\ UnitsIn({l \in S : l.product = q}) = PlannedUnits(q, 1)
      <3>1. PICK total \in Nat : total = batches[q][1]
        <4>1. 1 \in Weeks
          BY PlanAssumption DEF Weeks
        <4> QED BY <2>2, <4>1 DEF PlanTyped
      <3>2. PICK T : T = LotsOf("LOT", q, total, wait) /\ T = {l \in S : l.product = q}
        BY <2>4, <3>1
      <3>3. UnitsIn(T) = total * UnitsPerBatch
        BY <3>2, LotsUnits DEF Bundled
      <3>4. UnitsOf(q, lots) = UnitsIn(T)
        BY <2>3, <3>2 DEF UnitsOf, UnitsIn
      <3> QED BY <3>1, <3>2, <3>3, <3>4 DEF PlannedUnits
    <2>6. lots # {} /\ {l.product : l \in lots} = PlannedProducts
      BY <1>1, <2>3, <2>4
    <2>7. CompareWeekOne(late) =
            [accepted |-> TRUE,
             due |-> [q \in Products |-> UnitsOf(q, lots \ late)],
             after |-> [q \in Products |-> PlannedUnits(q, 1) - UnitsOf(q, lots \ late)]]
      BY <2>5, <2>6 DEF CompareWeekOne
    <2>8. /\ CompareWeekOne(late).accepted
          /\ CompareWeekOne(late).after[p] = PlannedUnits(p, 1) - UnitsOf(p, lots \ late)
      BY <2>7
    <2>9. PICK own : own = {l \in S : l.product = p}
      OBVIOUS
    <2>10. late \subseteq own /\ own \subseteq S
      BY <2>3, <2>9
    <2>11. Carried(own \ late) /\ Carried(late)
      <3>1. own \ late \in SUBSET S /\ late \in SUBSET S
        BY <2>10
      <3>2. IsFiniteSet(own \ late) /\ IsFiniteSet(late)
        BY <2>4, <3>1, FS_Subset DEF Carried
      <3> QED BY <2>4, <3>1, <3>2 DEF Carried
    <2>12. UnitsIn((own \ late) \cup late) = UnitsIn(own \ late) + UnitsIn(late)
      <3>1. (own \ late) \cap late = {}
        OBVIOUS
      <3> QED BY <2>11, <3>1, UnitsOfParts
    <2>13. (own \ late) \cup late = own
      BY <2>10
    <2>14. UnitsOf(p, lots \ late) = UnitsIn(own \ late)
      <3>1. {k \in lots \ late : k.product = p} = own \ late
        BY <2>3, <2>9
      <3> QED BY <3>1 DEF UnitsOf, UnitsIn
    <2>15. PICK a \in Nat, b \in Nat : a = UnitsIn(own \ late) /\ b = UnitsIn(late)
      BY <2>11, UnitsTotal
    <2>16. PlannedUnits(p, 1) = a + b
      BY <2>5, <2>9, <2>12, <2>13, <2>15
    <2>17. CompareWeekOne(late).after[p] = b
      BY <2>8, <2>14, <2>15, <2>16
    <2> QED BY <2>8, <2>15, <2>17 DEF UnitsIn
  <1>2. ASSUME PlanInv, ChainInv, stage = "scheduled", NEW l \in lots, NEW m \in Machines,
               m \in Route[l.product]
        PROVE  l.minutes[m] * TimeScale <= DailyTime[m] \/ l.batches = 1
    <2>1. PICK wait \in MaterialDelays : lots = PlanLots(wait)
      BY <1>2 DEF ChainInv, LotsKept
    <2>2. PlanTyped(batches)
      BY <1>2 DEF PlanInv, TypesKept
    <2>3. PICK p \in Products : p = l.product /\ l \in LotsOf("LOT", p, batches[p][1], wait)
      BY <2>1, <2>2, <1>2, LotsOfThePlan
    <2>4. /\ l.batches \in 1..SubBatchLimit[p]
          /\ l.minutes = [k \in Route[p] |-> Minutes(l.batches, p, k)]
      <3>1. PICK total \in Nat : total = batches[p][1]
        <4>1. 1 \in Weeks
          BY PlanAssumption DEF Weeks
        <4> QED BY <2>2, <4>1 DEF PlanTyped
      <3>2. PICK T : T = LotsOf("LOT", p, total, wait) /\ l \in T
        BY <2>3, <3>1
      <3> QED BY <3>2, LotsUnits DEF Bundled
    <2>5. PICK size \in 1..SubBatchLimit[p] : size = l.batches
      BY <2>4
    <2>6. m \in Route[p]
      BY <1>2, <2>3
    <2>7. l.minutes[m] = Minutes(size, p, m)
      BY <2>4, <2>5, <2>6
    <2>8. Minutes(size, p, m) * TimeScale <= DailyTime[m] \/ size = 1
      BY <2>6, OperationFits
    <2> QED BY <2>5, <2>7, <2>8
  <1>3. PlanInv /\ ChainInv => LotsCarryPlan
    BY <1>1, <1>2 DEF LotsCarryPlan
  <1> QED BY <1>3, ChainInvariant, PTL
-----------------------------------------------------------------------------
(* What the audits rebuild. *)

LEMMA SourceReleaseRebuilt ==
    ASSUME OrdersTyped, NEW p \in Products, NEW wait \in Nat, Consumed[p] # {}
    PROVE  SourceRelease(p) \in Nat /\ ReleaseTime(p, wait) = SourceRelease(p) + wait
  <1>1. Consumed[p] \in SUBSET Materials /\ IsFiniteSet(Consumed[p])
    BY ConsumedFinite
  <1>2. \A x \in Materials : AvailableAt(x) \in Nat
    BY AvailableTyped
  <1>3. \A x \in Materials : Ready(x) = AvailableAt(x)
    BY DEF Ready, AvailableAt, ExpediteMin, ExtraWeekMin
  <1> DEFINE B == {Ready(x) : x \in Consumed[p]}
  <1>4. IsFiniteSet(B) /\ B \subseteq Int /\ B # {}
    <2>1. IsFiniteSet(B)
      <3>1. PICK g : g = [x \in Consumed[p] |-> Ready(x)]
        OBVIOUS
      <3>2. g \in Surjection(Consumed[p], B)
        BY <3>1 DEF Surjection
      <3> QED BY <1>1, <3>2, FS_Surjection
    <2>2. B \subseteq Int
      BY <1>1, <1>2, <1>3
    <2> QED BY <2>1, <2>2
  <1>5. PICK max : max = Max(B) /\ max \in B /\ \A y \in B : max >= y
    <2> HIDE DEF B
    <2> QED BY <1>4, MaxOfFinite
  <1>6. max = SourceRelease(p)
    BY <1>5 DEF SourceRelease
  <1>7. max \in Nat
    BY <1>1, <1>2, <1>3, <1>5
  <1>8. PICK x \in Consumed[p] : max = AvailableAt(x)
    BY <1>1, <1>3, <1>5
  <1>9. PICK y \in Consumed[p] : ReleaseTime(p, wait) = AvailableAt(y) + wait
    BY ReleaseAfterMaterials
  <1>10. max >= AvailableAt(y)
    BY <1>1, <1>3, <1>5
  <1>11. ReleaseTime(p, wait) >= AvailableAt(x) + wait
    BY ReleaseAfterMaterials
  <1>12. AvailableAt(y) \in Nat
    BY <1>1, <1>2
  <1> QED BY <1>6, <1>7, <1>8, <1>9, <1>10, <1>11, <1>12

LEMMA LotsAudited ==
    ASSUME OrdersTyped, NEW parent, NEW p \in Products, NEW total \in Nat, NEW wait \in Nat,
           NEW S, S = LotsOf(parent, p, total, wait)
    PROVE  \A l \in S : /\ LotSound(l)
                        /\ Consumed[p] # {} => l.release = SourceRelease(p) + wait
                        /\ SourceRelease(p) \in Nat \/ Consumed[p] = {}
  <1>1. Bundled(S, parent, p, total, wait)
    BY LotsUnits
  <1> TAKE l \in S
  <1>2. /\ l.product = p /\ l.batches \in 1..SubBatchLimit[p] /\ l.units = l.batches * UnitsPerBatch
        /\ l.release = ReleaseTime(p, wait)
        /\ l.minutes = [m \in Route[p] |-> Minutes(l.batches, p, m)]
    BY <1>1 DEF Bundled
  <1>3. SubBatchLimit[p] \in Nat
    BY Limits
  <1>4. LotSound(l)
    BY <1>2, <1>3 DEF LotSound, Minutes
  <1> QED BY <1>2, <1>4, SourceReleaseRebuilt

LEMMA PlannedUnitsCarried ==
    ASSUME PlanTyped(batches), NEW wait, NEW S, S = PlanLots(wait), NEW p \in Products
    PROVE  UnitsIn({l \in S : l.product = p}) = PlannedUnits(p, 1)
  <1>1. PICK total \in Nat : total = batches[p][1]
    <2>1. 1 \in Weeks
      BY PlanAssumption DEF Weeks
    <2> QED BY <2>1 DEF PlanTyped
  <1>2. PICK T : T = LotsOf("LOT", p, total, wait) /\ T = {l \in S : l.product = p}
    BY <1>1, LotsOfThePlan
  <1>3. Bundled(T, "LOT", p, total, wait)
    BY <1>1, <1>2, LotsUnits
  <1>4. UnitsIn(T) = total * UnitsPerBatch
    BY <1>3 DEF Bundled
  <1> QED BY <1>1, <1>2, <1>4 DEF PlannedUnits

LEMMA PlanLotsAudited ==
    ASSUME OrdersTyped, PlanTyped(batches), NEW wait \in Nat, NEW S, S = PlanLots(wait)
    PROVE  \A l \in S : /\ LotSound(l) /\ l.product \in Products
                        /\ Consumed[l.product] # {} => l.release = SourceRelease(l.product) + wait
                        /\ SourceRelease(l.product) \in Nat \/ Consumed[l.product] = {}
  <1> TAKE l \in S
  <1>1. PICK p \in Products : p = l.product /\ l \in LotsOf("LOT", p, batches[p][1], wait)
    BY LotsOfThePlan
  <1>2. PICK total \in Nat : total = batches[p][1]
    <2>1. 1 \in Weeks
      BY PlanAssumption DEF Weeks
    <2> QED BY <2>1 DEF PlanTyped
  <1>3. PICK T : T = LotsOf("LOT", p, total, wait) /\ l \in T
    BY <1>1, <1>2
  <1>4. /\ LotSound(l)
        /\ Consumed[p] # {} => l.release = SourceRelease(p) + wait
        /\ SourceRelease(p) \in Nat \/ Consumed[p] = {}
    BY <1>3, LotsAudited
  <1> QED BY <1>1, <1>4

\* What both audits rebuild from plan, routes and material orders is what the
\* scheduler makes of them, for every plan, order, delay and rush order, but for the
\* products planned with no batch and, in the hot order's audit, the products of
\* no material; the rush order is made in full, in less than a batch too many.
THEOREM AuditsAgree == HotSpec => []AuditsRebuildLots
  <1>1. ASSUME PlanInv, ChainInv, stage = "scheduled"
        PROVE  RescheduleAuditAccepts <=> \A p \in Products : PlannedUnits(p, 1) > 0
    <2>1. PICK wait \in MaterialDelays : lots = PlanLots(wait)
      BY <1>1 DEF ChainInv, LotsKept
    <2>2. PlanTyped(batches) /\ OrdersTyped /\ wait \in Nat
      BY <1>1, MaterialAssumption DEF PlanInv, TypesKept, ChainInv, OrdersKept
    <2>3. PICK S : S = lots /\ S = PlanLots(wait)
      BY <2>1
    <2>4. \A l \in S : /\ LotSound(l)
                       /\ Consumed[l.product] # {} => l.release >= SourceRelease(l.product)
      <3> TAKE l \in S
      <3>1. /\ LotSound(l)
            /\ Consumed[l.product] # {} => l.release = SourceRelease(l.product) + wait
            /\ SourceRelease(l.product) \in Nat \/ Consumed[l.product] = {}
        BY <2>2, <2>3, PlanLotsAudited
      <3>2. \A n \in Nat : n + wait >= n
        BY <2>2
      <3> QED BY <3>1, <3>2
    <2>5. {l.product : l \in S} = PlannedProducts
      BY <2>2, <2>3, LotsOfThePlan
    <2>6. \A p \in Products : UnitsOf(p, lots) = PlannedUnits(p, 1)
      <3> TAKE p \in Products
      <3>1. UnitsIn({l \in S : l.product = p}) = PlannedUnits(p, 1)
        BY <2>2, <2>3, PlannedUnitsCarried
      <3> QED BY <2>3, <3>1 DEF UnitsOf, UnitsIn
    <2>7. LotSums = [p \in PlannedProducts |-> PlannedUnits(p, 1)]
      <3>1. LotSums = [p \in PlannedProducts |-> UnitsOf(p, lots)]
        BY <2>3, <2>5 DEF LotSums
      <3>2. \A p \in PlannedProducts : UnitsOf(p, lots) = PlannedUnits(p, 1)
        BY <2>6 DEF PlannedProducts
      <3> QED BY <3>1, <3>2
    <2>8. LotSums = PlanSums <=> PlannedProducts = Products
      <3>1. DOMAIN LotSums = PlannedProducts /\ DOMAIN PlanSums = Products
        BY <2>7 DEF PlanSums
      <3>2. PlannedProducts = Products => LotSums = PlanSums
        BY <2>7 DEF PlanSums
      <3> QED BY <3>1, <3>2
    <2>9. PlannedProducts = Products <=> \A p \in Products : PlannedUnits(p, 1) > 0
      BY DEF PlannedProducts
    <2> QED BY <2>3, <2>4, <2>8, <2>9 DEF RescheduleAuditAccepts
  <1>2. ASSUME PlanInv, ChainInv, stage = "simulated"
        PROVE  /\ HotOrderAuditAccepts <=>
                    /\ \A p \in Products \ {hot.product} : PlannedUnits(p, 1) > 0
                    /\ \A p \in Products : Consumed[p] # {}
               /\ SumFunction([l \in HotLots |-> l.units]) - hot.quantity \in 0 .. UnitsPerBatch - 1
    <2>1. PICK p \in Products, q \in HotQuantities, replay \in BOOLEAN :
             /\ hot = [product |-> p, quantity |-> q, replay |-> replay]
             /\ lots = PlanLots(0) \cup LotsOf("HOT", p, HotBatches(q), 0)
      BY <1>2 DEF ChainInv, HotKept
    <2>2. PlanTyped(batches) /\ OrdersTyped /\ 0 \in Nat /\ hot.product = p /\ hot.quantity = q
      BY <1>2, <2>1 DEF PlanInv, TypesKept, ChainInv, OrdersKept
    <2>3. PICK U \in Nat \ {0} : U = UnitsPerBatch
      BY PlanAssumption
    <2>4. PICK n \in Nat \ {0} : n = HotBatches(q) /\ q <= n * U /\ n * U < q + U
      <3>1. q \in Nat \ {0}
        BY HotAssumption
      <3>2. HotBatches(q) = RoundedUp(q, U)
        BY <2>3 DEF HotBatches
      <3>3. PICK k \in Nat : k = RoundedUp(q, U) /\ q <= k * U /\ k * U < q + U /\ (k = 0 <=> q = 0)
        BY <3>1, RoundedUpBounds
      <3> QED BY <3>1, <3>2, <3>3
    <2>5. PICK S : S = PlanLots(0)
      OBVIOUS
    <2>6. PICK H : H = LotsOf("HOT", p, n, 0)
      OBVIOUS
    <2>7. lots = S \cup H
      BY <2>1, <2>4, <2>5, <2>6
    <2>8. Bundled(H, "HOT", p, n, 0)
      BY <2>2, <2>6, LotsUnits
    <2>9. /\ Carried(H) /\ UnitsIn(H) = n * U /\ H # {}
          /\ \A l \in H : l.parent = "HOT" /\ l.product = p
      BY <2>3, <2>8 DEF Bundled
    <2>10. /\ Carried(S) /\ {l.product : l \in S} = PlannedProducts
           /\ \A l \in S : l.parent = "LOT"
      BY <2>2, <2>5, LotsOfThePlan
    <2>11. \A r \in Products : UnitsIn({l \in S : l.product = r}) = PlannedUnits(r, 1)
      BY <2>2, <2>5, PlannedUnitsCarried
    <2>12. \A l \in S : /\ LotSound(l) /\ l.product \in Products
                        /\ Consumed[l.product] # {} => l.release = SourceRelease(l.product)
      <3> TAKE l \in S
      <3>1. /\ LotSound(l) /\ l.product \in Products
            /\ Consumed[l.product] # {} => l.release = SourceRelease(l.product) + 0
            /\ SourceRelease(l.product) \in Nat \/ Consumed[l.product] = {}
        BY <2>2, <2>5, PlanLotsAudited
      <3>2. \A k \in Nat : k + 0 = k
        OBVIOUS
      <3> QED BY <3>1, <3>2
    <2>13. \A l \in H : /\ LotSound(l) /\ l.product \in Products
                        /\ Consumed[l.product] # {} => l.release = SourceRelease(l.product)
      <3>0. PICK total \in Nat, wait \in Nat :
               total = n /\ wait = 0 /\ H = LotsOf("HOT", p, total, wait)
        BY <2>2, <2>4, <2>6
      <3>1. \A l \in H : /\ LotSound(l)
                         /\ Consumed[p] # {} => l.release = SourceRelease(p) + wait
                         /\ SourceRelease(p) \in Nat \/ Consumed[p] = {}
        BY <2>1, <2>2, <3>0, LotsAudited
      <3>2. \A k \in Nat : k + wait = k
        BY <3>0
      <3> TAKE l \in H
      <3>3. LotSound(l) /\ l.product = p
        BY <2>9, <3>1
      <3>4. Consumed[p] # {} => l.release = SourceRelease(p)
        <4>1. /\ Consumed[p] # {} => l.release = SourceRelease(p) + wait
              /\ SourceRelease(p) \in Nat \/ Consumed[p] = {}
          BY <3>1
        <4> QED BY <3>2, <4>1
      <3> QED BY <3>3, <3>4
    <2>14. HotLots = H
      BY <2>7, <2>9, <2>10 DEF HotLots
    <2>15. {l.product : l \in lots} = PlannedProducts \cup {p}
      <3>1. {l.product : l \in H} = {p}
        BY <2>9
      <3>2. {l.product : l \in S \cup H} = {l.product : l \in S} \cup {l.product : l \in H}
        OBVIOUS
      <3> QED BY <2>7, <2>10, <3>1, <3>2
    <2>16. \A r \in Products : UnitsOf(r, lots) = IF r = p THEN PlannedUnits(p, 1) + n * U ELSE PlannedUnits(r, 1)
      <3> TAKE r \in Products
      <3>1. PICK own : own = {l \in S : l.product = r}
        OBVIOUS
      <3>2. UnitsOf(r, lots) = UnitsIn({l \in S \cup H : l.product = r})
        BY <2>7 DEF UnitsOf, UnitsIn
      <3>3. CASE r = p
        <4>1. {l \in S \cup H : l.product = r} = own \cup H
          BY <2>9, <3>1, <3>3
        <4>2. own \cap H = {}
          BY <2>9, <2>10, <3>1
        <4>3. Carried(own)
          <5>1. own \in SUBSET S
            BY <3>1
          <5>2. IsFiniteSet(own)
            BY <2>10, <5>1, FS_Subset DEF Carried
          <5> QED BY <2>10, <5>1, <5>2 DEF Carried
        <4>4. UnitsIn(own \cup H) = UnitsIn(own) + UnitsIn(H)
          BY <2>9, <4>2, <4>3, UnitsOfParts
        <4> QED BY <2>9, <2>11, <3>1, <3>2, <3>3, <4>1, <4>4
      <3>4. CASE r # p
        <4>1. {l \in S \cup H : l.product = r} = own
          BY <2>9, <3>1, <3>4
        <4> QED BY <2>11, <3>1, <3>2, <3>4, <4>1
      <3> QED BY <3>3, <3>4
    <2>17. PICK sums : /\ sums = [PlanSums EXCEPT ![hot.product] = @ + HotBatches(hot.quantity) * UnitsPerBatch]
                       /\ sums = [r \in Products |-> IF r = p THEN PlannedUnits(p, 1) + n * U
                                                     ELSE PlannedUnits(r, 1)]
      BY <2>2, <2>3, <2>4 DEF PlanSums
    <2>18. LotSums = sums <=> \A r \in Products \ {p} : PlannedUnits(r, 1) > 0
      <3>1. LotSums = [r \in PlannedProducts \cup {p} |-> UnitsOf(r, lots)]
        BY <2>15 DEF LotSums
      <3>2. DOMAIN LotSums = PlannedProducts \cup {p} /\ DOMAIN sums = Products
        BY <2>17, <3>1
      <3>3. PlannedProducts \cup {p} = Products => LotSums = sums
        <4>1. [r \in Products |-> UnitsOf(r, lots)]
                = [r \in Products |-> IF r = p THEN PlannedUnits(p, 1) + n * U ELSE PlannedUnits(r, 1)]
          BY <2>16
        <4> QED BY <2>17, <3>1, <4>1
      <3>4. PlannedProducts \cup {p} = Products <=> \A r \in Products \ {p} : PlannedUnits(r, 1) > 0
        BY DEF PlannedProducts
      <3> QED BY <3>2, <3>3, <3>4
    <2>19. \A l \in lots : LotSound(l)
      BY <2>7, <2>12, <2>13
    <2>20. HotLots # {} /\ \A l \in HotLots : l.product = hot.product
      BY <2>2, <2>9, <2>14
    <2>21. SumFunction([l \in HotLots |-> l.units]) = n * U
      BY <2>9, <2>14 DEF UnitsIn
    <2>22. n * U = HotBatches(hot.quantity) * UnitsPerBatch
      BY <2>2, <2>3, <2>4
    <2>23. (\A l \in lots : Consumed[l.product] # {} /\ l.release = SourceRelease(l.product))
             <=> \A r \in PlannedProducts \cup {p} : Consumed[r] # {}
      <3>1. \A l \in lots : Consumed[l.product] # {} => l.release = SourceRelease(l.product)
        BY <2>7, <2>12, <2>13
      <3> QED BY <2>15, <3>1
    <2>24. HotOrderAuditAccepts <=>
             /\ LotSums = sums
             /\ \A r \in PlannedProducts \cup {p} : Consumed[r] # {}
      BY <2>17, <2>19, <2>20, <2>21, <2>22, <2>23 DEF HotOrderAuditAccepts
    <2>25. (\A r \in Products \ {p} : PlannedUnits(r, 1) > 0) => PlannedProducts \cup {p} = Products
      BY DEF PlannedProducts
    <2>26. n * U - q \in 0..(U - 1)
      <3>1. PICK a \in Nat : a = n * U
        OBVIOUS
      <3>2. q \in Nat
        BY HotAssumption
      <3> QED BY <2>4, <3>1, <3>2
    <2> QED BY <2>2, <2>3, <2>18, <2>21, <2>24, <2>25, <2>26
  <1>3. PlanInv /\ ChainInv => AuditsRebuildLots
    BY <1>1, <1>2 DEF AuditsRebuildLots
  <1> QED BY <1>3, ChainInvariant, PTL
-----------------------------------------------------------------------------
(* Sequences put one behind the other, and sequences that name things once. *)

LEMMA Joined ==
    ASSUME NEW E, NEW s \in Seq(E), NEW t \in Seq(E)
    PROVE  /\ s \o t \in Seq(E) /\ Range(s \o t) = Range(s) \cup Range(t)
           /\ IsInjective(s) /\ IsInjective(t) /\ Range(s) \cap Range(t) = {} => IsInjective(s \o t)
  <1>1. PICK m \in Nat : m = Len(s) /\ DOMAIN s = 1..m /\ \A i \in 1..m : s[i] \in E
    OBVIOUS
  <1>2. PICK n \in Nat : n = Len(t) /\ DOMAIN t = 1..n /\ \A i \in 1..n : t[i] \in E
    OBVIOUS
  <1>3. PICK r : r = s \o t
    OBVIOUS
  <1>4. r \in Seq(E) /\ DOMAIN r = 1..(m + n)
    BY <1>1, <1>2, <1>3
  <1>5. \A i \in 1..(m + n) : /\ i \in 1..m => r[i] = s[i]
                              /\ i \notin 1..m => i - m \in 1..n /\ r[i] = t[i - m]
    BY <1>1, <1>2, <1>3
  <1>6. \A i \in 1..n : m + i \in 1..(m + n) /\ m + i \notin 1..m /\ (m + i) - m = i
    BY <1>1, <1>2
  <1>7. \A i \in 1..m : i \in 1..(m + n)
    BY <1>1, <1>2
  <1>8. Range(r) = Range(s) \cup Range(t)
    <2>1. \A x \in Range(r) : x \in Range(s) \cup Range(t)
      <3> TAKE x \in Range(r)
      <3>1. PICK i \in 1..(m + n) : x = r[i]
        BY <1>4 DEF Range
      <3>2. CASE i \in 1..m
        BY <1>1, <1>5, <3>1, <3>2 DEF Range
      <3>3. CASE i \notin 1..m
        BY <1>2, <1>5, <3>1, <3>3 DEF Range
      <3> QED BY <3>2, <3>3
    <2>2. \A x \in Range(s) : x \in Range(r)
      BY <1>1, <1>4, <1>5, <1>7 DEF Range
    <2>3. \A i \in 1..n : r[m + i] = t[i]
      BY <1>5, <1>6
    <2>4. \A x \in Range(t) : x \in Range(r)
      BY <1>2, <1>4, <1>6, <2>3 DEF Range
    <2> QED BY <2>1, <2>2, <2>4
  <1>9. ASSUME IsInjective(s), IsInjective(t), Range(s) \cap Range(t) = {},
               NEW i \in 1..(m + n), NEW j \in 1..(m + n), r[i] = r[j]
        PROVE  i = j
    <2>1. CASE i \in 1..m /\ j \in 1..m
      BY <1>1, <1>5, <1>9, <2>1 DEF IsInjective
    <2>2. CASE i \notin 1..m /\ j \notin 1..m
      <3>1. i - m \in 1..n /\ j - m \in 1..n /\ t[i - m] = t[j - m]
        BY <1>5, <1>9, <2>2
      <3>2. i - m = j - m
        BY <1>2, <1>9, <3>1 DEF IsInjective
      <3> QED BY <3>2
    <2>3. \A k \in 1..(m + n) : r[k] \in Range(s) <=> k \in 1..m
      BY <1>1, <1>2, <1>5, <1>9 DEF Range
    <2> QED BY <1>9, <2>1, <2>2, <2>3
  <1> QED BY <1>3, <1>4, <1>8, <1>9 DEF IsInjective

Flattens(f, ss, n) == f = [i \in 1..n |-> IF i = 1 THEN ss[i] ELSE f[i - 1] \o ss[i]]

LEMMA FlattenExists ==
    ASSUME NEW E, NEW n \in Nat \ {0}, NEW ss \in [1..n -> Seq(E)]
    PROVE  \E f : Flattens(f, ss, n)
  <1> DEFINE m == [i \in 1..n |-> i - 1]
             back == [p \in Seq(E) \X Seq(E) |-> p[2] \o p[1]]
  <1>1. n - 1 \in Nat /\ \A d \in 1..n : m[d] \in 0..(n - 1)
    OBVIOUS
  <1>2. \A d \in 1..n : m[d] # 0 => m[d] \in 1..n /\ m[m[d]] < m[d]
    OBVIOUS
  <1>3. PICK h : Recursive(h, 1..n, m, m, ss, ss, back)
    <2> HIDE DEF m, back
    <2> QED BY <1>1, <1>2, RecursionExists
  <1>4. h = [d \in 1..n |-> IF d = 1 THEN ss[d] ELSE back[<<ss[d], h[d - 1]>>]]
    <2>1. \A d \in 1..n : m[d] = d - 1 /\ (m[d] = 0 <=> d = 1)
      OBVIOUS
    <2> HIDE DEF m, back
    <2> QED BY <1>3, <2>1 DEF Recursive
  <1> HIDE DEF m, back
  <1>5. \A k \in 0..n : k \in {j \in 0..n : j = 0 \/ h[j] \in Seq(E)}
    <2> DEFINE T == {j \in 0..n : j = 0 \/ h[j] \in Seq(E)}
    <2>1. 0 \in T
      OBVIOUS
    <2>2. ASSUME NEW k \in 0..(n - 1), k \in T PROVE k + 1 \in T
      <3>1. k + 1 \in 1..n /\ k + 1 \in 0..n /\ (k + 1) - 1 = k /\ (k + 1 = 1 => k = 0)
        OBVIOUS
      <3>2. CASE k = 0
        BY <1>4, <3>1, <3>2
      <3>3. CASE k # 0
        <4>1. h[k + 1] = back[<<ss[k + 1], h[k]>>] /\ ss[k + 1] \in Seq(E) /\ h[k] \in Seq(E)
          BY <1>4, <2>2, <3>1, <3>3
        <4>2. back[<<ss[k + 1], h[k]>>] = h[k] \o ss[k + 1]
          BY <4>1 DEF back
        <4>3. h[k] \o ss[k + 1] \in Seq(E)
          BY <4>1, Joined
        <4> QED BY <3>1, <4>1, <4>2, <4>3
      <3> QED BY <3>2, <3>3
    <2> HIDE DEF T
    <2>3. \A k \in 0..n : k \in T
      BY <2>1, <2>2, CountUp
    <2> QED BY <2>3 DEF T
  <1>6. \A d \in 1..n : d # 1 => back[<<ss[d], h[d - 1]>>] = h[d - 1] \o ss[d]
    <2> TAKE d \in 1..n
    <2> HAVE d # 1
    <2>1. d - 1 \in 0..n /\ d - 1 # 0
      OBVIOUS
    <2>2. h[d - 1] \in Seq(E) /\ ss[d] \in Seq(E)
      BY <1>5, <2>1
    <2> QED BY <2>2 DEF back
  <1>7. h = [d \in 1..n |-> IF d = 1 THEN ss[d] ELSE h[d - 1] \o ss[d]]
    BY <1>4, <1>6
  <1> QED BY <1>7 DEF Flattens

RangesOf(ss, n) == UNION {Range(ss[i]) : i \in 1..n}
AllOnce(ss, n) == \A i \in 1..n : IsInjective(ss[i])
RangesApart(ss, n) == \A i, j \in 1..n : i # j => Range(ss[i]) \cap Range(ss[j]) = {}

LEMMA Flattened ==
    ASSUME NEW E, NEW n \in Nat, NEW ss \in [1..n -> Seq(E)]
    PROVE  /\ FlattenSeq(ss) \in Seq(E)
           /\ Range(FlattenSeq(ss)) = RangesOf(ss, n)
           /\ AllOnce(ss, n) /\ RangesApart(ss, n) => IsInjective(FlattenSeq(ss))
  <1>1. Len(ss) = n
    OBVIOUS
  <1>2. CASE n = 0
    <2>1. FlattenSeq(ss) = ss /\ DOMAIN ss = {}
      BY <1>1, <1>2 DEF FlattenSeq
    <2>2. ss \in Seq(E)
      BY <1>2
    <2> QED BY <1>2, <2>1, <2>2 DEF Range, IsInjective, RangesOf
  <1>3. CASE n # 0
    <2>1. PICK f : Flattens(f, ss, n) /\ FlattenSeq(ss) = f[n]
      <3>1. \E f : Flattens(f, ss, n)
        BY <1>3, FlattenExists
      <3>2. \E f : f = [i \in 1..n |-> IF i = 1 THEN ss[i] ELSE f[i - 1] \o ss[i]]
        BY <3>1 DEF Flattens
      <3> QED BY <1>1, <1>3, <3>2 DEF FlattenSeq, Flattens
    <2>2. \A i \in 1..n : f[i] = IF i = 1 THEN ss[i] ELSE f[i - 1] \o ss[i]
      BY <2>1 DEF Flattens
    <2> DEFINE T == {k \in 0..n : k # 0 =>
                       /\ f[k] \in Seq(E)
                       /\ Range(f[k]) = UNION {Range(ss[i]) : i \in 1..k}
                       /\ AllOnce(ss, n) /\ RangesApart(ss, n) => IsInjective(f[k])}
    <2>3. 0 \in T
      OBVIOUS
    <2>4. ASSUME NEW k \in 0..(n - 1), k \in T PROVE k + 1 \in T
      <3>1. k + 1 \in 1..n /\ k + 1 \in 0..n /\ (k + 1) - 1 = k
        OBVIOUS
      <3>2. CASE k = 0
        <4>1. f[1] = ss[1] /\ 1 \in 1..n /\ k + 1 = 1 /\ 1..1 = {1}
          BY <2>2, <3>1, <3>2
        <4>2. UNION {Range(ss[i]) : i \in 1..1} = Range(ss[1])
          BY <4>1
        <4>3. AllOnce(ss, n) => IsInjective(ss[1])
          BY <4>1 DEF AllOnce
        <4> QED BY <3>1, <4>1, <4>2, <4>3
      <3>3. CASE k # 0
        <4>1. f[k + 1] = f[k] \o ss[k + 1] /\ ss[k + 1] \in Seq(E) /\ f[k] \in Seq(E)
          <5>1. k \in 1..n
            BY <3>3
          <5>2. f[k] \in Seq(E)
            BY <2>4, <3>3
          <5>3. k + 1 # 1
            BY <3>3
          <5> HIDE DEF T
          <5> QED BY <2>2, <3>1, <5>2, <5>3
        <4>2. 1..(k + 1) = (1..k) \cup {k + 1} /\ (\A i \in 1..k : i \in 1..n /\ i # k + 1)
          OBVIOUS
        <4>3. Range(f[k]) = UNION {Range(ss[i]) : i \in 1..k}
          BY <2>4, <3>3
        <4>4. Range(f[k + 1]) = Range(f[k]) \cup Range(ss[k + 1]) /\ f[k + 1] \in Seq(E)
          BY <4>1, Joined
        <4>5. UNION {Range(ss[i]) : i \in 1..(k + 1)} = Range(f[k]) \cup Range(ss[k + 1])
          BY <4>2, <4>3
        <4>6. ASSUME AllOnce(ss, n), RangesApart(ss, n) PROVE IsInjective(f[k + 1])
          <5>1. Range(f[k]) \cap Range(ss[k + 1]) = {}
            BY <3>1, <4>2, <4>3, <4>6 DEF RangesApart
          <5>2. IsInjective(f[k]) /\ IsInjective(ss[k + 1])
            BY <2>4, <3>1, <3>3, <4>6 DEF AllOnce
          <5> QED BY <4>1, <5>1, <5>2, Joined
        <4> QED BY <3>1, <4>4, <4>5, <4>6
      <3> QED BY <3>2, <3>3
    <2> HIDE DEF T
    <2>5. \A k \in 0..n : k \in T
      BY <2>3, <2>4, CountUp
    <2>6. n \in T
      BY <2>5
    <2> QED BY <1>3, <2>1, <2>6 DEF T, RangesOf
  <1> QED BY <1>2, <1>3
-----------------------------------------------------------------------------
(* The operations of a plan and of a rush order, each listed once.         *)

Op == [lot : {"LOT", "HOT"} \X Products \X Nat, machine : Machines]
RouteOrder(p) == {pair \in Route[p] \X Route[p] :
                    Position(MachineSeq, pair[1]) < Position(MachineSeq, pair[2])}

LEMMA RouteListed ==
    ASSUME NEW p \in Products
    PROVE  RouteSeq[p] \in Seq(Machines) /\ IsInjective(RouteSeq[p])
  <1>1. Route[p] \in SUBSET Machines /\ IsFiniteSet(Route[p])
    <2>1. Route[p] \in SUBSET Machines
      BY DEF Route
    <2> QED BY <2>1, Finite, FS_Subset
  <1>2. \A m \in Route[p] : Position(MachineSeq, m) \in Int /\ MachineSeq[Position(MachineSeq, m)] = m
    <2>1. \A m \in Machines : \E k \in DOMAIN MachineSeq : MachineSeq[k] = m
      BY PlanAssumption DEF Machines, ToSet
    <2>2. DOMAIN MachineSeq \subseteq Int
      BY PlanAssumption
    <2> QED BY <1>1, <2>1, <2>2 DEF Position
  <1>3. \A x, y \in Route[p] : <<x, y>> \in RouteOrder(p)
                                 <=> Position(MachineSeq, x) < Position(MachineSeq, y)
    BY DEF RouteOrder
  <1>4. Orders2(RouteOrder(p), Route[p])
    <2>1. \A x \in Route[p] : <<x, x>> \notin RouteOrder(p)
      BY <1>2, <1>3
    <2>2. \A x, y \in Route[p] : x # y => <<x, y>> \in RouteOrder(p) \/ <<y, x>> \in RouteOrder(p)
      <3> TAKE x \in Route[p], y \in Route[p]
      <3> HAVE x # y
      <3>1. Position(MachineSeq, x) # Position(MachineSeq, y)
        BY <1>2
      <3> QED BY <1>2, <1>3, <3>1
    <2>3. \A x, y, z \in Route[p] : <<x, y>> \in RouteOrder(p) /\ <<y, z>> \in RouteOrder(p)
                                      => <<x, z>> \in RouteOrder(p)
      BY <1>2, <1>3
    <2> QED BY <2>1, <2>2, <2>3 DEF Orders2
  <1>5. \E s \in SetToSeqs(Route[p]) : \A i, j \in DOMAIN s : i < j => <<s[i], s[j]>> \in RouteOrder(p)
    BY <1>1, <1>4, SortedSequence
  <1>6. \E s \in SetToSeqs(Route[p]) :
           \A i, j \in DOMAIN s : i < j => Position(MachineSeq, s[i]) < Position(MachineSeq, s[j])
    BY <1>5 DEF RouteOrder
  <1>7. RouteSeq[p] \in SetToSeqs(Route[p])
    BY <1>6 DEF RouteSeq
  <1>8. PICK n \in Nat : n = Cardinality(Route[p])
    BY <1>1, FS_CardinalityType
  <1>9. RouteSeq[p] \in [1..n -> Route[p]] /\ \A i, j \in 1..n : i # j => RouteSeq[p][i] # RouteSeq[p][j]
    BY <1>7, <1>8 DEF SetToSeqs
  <1> QED BY <1>1, <1>9 DEF IsInjective

LEMMA OpsListed ==
    ASSUME NEW parent \in {"LOT", "HOT"}, NEW p \in Products, NEW total \in Nat
    PROVE  /\ OpsOf(parent, p, total) \in Seq(Op) /\ IsInjective(OpsOf(parent, p, total))
           /\ \A x \in Range(OpsOf(parent, p, total)) : x.lot[1] = parent /\ x.lot[2] = p
           /\ total = 0 => Range(OpsOf(parent, p, total)) = {}
  <1> DEFINE sizes == SubLotSizes(total, SubBatchLimit[p])
  <1>1. PICK n \in Nat : Streamed(total, SubBatchLimit[p], sizes, n)
    BY Limits, SubLotsStream
  <1>2. DOMAIN sizes = 1..n /\ (n = 0 <=> total = 0)
    BY <1>1 DEF Streamed
  <1>3. Len(sizes) = n
    <2>1. CASE total = 0
      <3>1. sizes = <<>> /\ n = 0
        BY <1>2, <2>1 DEF SubLotSizes
      <3> HIDE DEF sizes
      <3> QED BY <3>1
    <2>2. CASE total # 0
      <3>1. PICK D : D = 1..RoundedUp(total, SubBatchLimit[p])
        OBVIOUS
      <3>2. sizes = [i \in D |-> Min({SubBatchLimit[p], total - (i - 1) * SubBatchLimit[p]})]
        BY <2>2, <3>1 DEF SubLotSizes
      <3>3. D = 1..n
        BY <1>2, <3>2
      <3>4. sizes = [i \in 1..n |-> sizes[i]]
        BY <3>2, <3>3
      <3>5. \A t : t = [i \in 1..n |-> t[i]] => Len(t) = n
        OBVIOUS
      <3> HIDE DEF sizes
      <3> QED BY <3>4, <3>5
    <2> QED BY <2>1, <2>2
  <1>4. PICK route \in Seq(Machines) : route = RouteSeq[p] /\ IsInjective(route)
    BY RouteListed
  <1>5. PICK number : number = [i \in 1..n |-> IF n > 1 THEN i ELSE 0]
    OBVIOUS
  <1>6. /\ \A i \in 1..n : number[i] \in Nat
        /\ \A i, j \in 1..n : number[i] = number[j] => i = j
    BY <1>5
  <1>7. PICK ss : ss = [i \in 1..n |-> [k \in DOMAIN route |->
                           [lot |-> <<parent, p, number[i]>>, machine |-> route[k]]]]
    OBVIOUS
  <1>8. OpsOf(parent, p, total) = FlattenSeq(ss)
    <2> HIDE DEF sizes
    <2>1. ss = [i \in 1..n |-> [k \in DOMAIN RouteSeq[p] |->
                   [lot |-> <<parent, p, IF n > 1 THEN i ELSE 0>>, machine |-> RouteSeq[p][k]]]]
      BY <1>4, <1>5, <1>7
    <2> QED BY <1>3, <2>1 DEF OpsOf, sizes
  <1>9. PICK r \in Nat : r = Len(route) /\ DOMAIN route = 1..r /\ \A k \in 1..r : route[k] \in Machines
    OBVIOUS
  <1>10. ASSUME NEW i \in 1..n
         PROVE  /\ ss[i] \in Seq(Op) /\ IsInjective(ss[i])
                /\ \A x \in Range(ss[i]) : x.lot = <<parent, p, number[i]>>
    <2>1. ss[i] = [k \in 1..r |-> [lot |-> <<parent, p, number[i]>>, machine |-> route[k]]]
      BY <1>7, <1>9
    <2>2. \A k \in 1..r : [lot |-> <<parent, p, number[i]>>, machine |-> route[k]] \in Op
      BY <1>6, <1>9 DEF Op
    <2>3. ss[i] \in [1..r -> Op] /\ DOMAIN ss[i] = 1..r
      BY <2>1, <2>2
    <2>4. \A k \in 1..r : ss[i][k].machine = route[k] /\ ss[i][k].lot = <<parent, p, number[i]>>
      BY <2>1
    <2>5. \A k, j \in 1..r : ss[i][k] = ss[i][j] => k = j
      <3> TAKE k \in 1..r, j \in 1..r
      <3> HAVE ss[i][k] = ss[i][j]
      <3>1. route[k] = route[j]
        BY <2>4
      <3> QED BY <1>4, <1>9, <3>1 DEF IsInjective
    <2> QED BY <2>3, <2>4, <2>5 DEF IsInjective, Range
  <1>11. RangesApart(ss, n)
    <2>1. \A i, j \in 1..n : <<parent, p, number[i]>> = <<parent, p, number[j]>> => i = j
      BY <1>6
    <2>2. \A i \in 1..n : \A x \in Range(ss[i]) : x.lot = <<parent, p, number[i]>>
      BY <1>10
    <2>3. \A i, j \in 1..n : i # j => Range(ss[i]) \cap Range(ss[j]) = {}
      BY <2>1, <2>2
    <2> QED BY <2>3 DEF RangesApart
  <1>12. ss \in [1..n -> Seq(Op)]
    BY <1>7, <1>10
  <1>13. /\ FlattenSeq(ss) \in Seq(Op) /\ IsInjective(FlattenSeq(ss))
         /\ Range(FlattenSeq(ss)) = UNION {Range(ss[i]) : i \in 1..n}
    <2>1. AllOnce(ss, n)
      BY <1>10 DEF AllOnce
    <2>2. /\ FlattenSeq(ss) \in Seq(Op) /\ Range(FlattenSeq(ss)) = RangesOf(ss, n)
          /\ AllOnce(ss, n) /\ RangesApart(ss, n) => IsInjective(FlattenSeq(ss))
      BY <1>12, Flattened
    <2>3. RangesOf(ss, n) = UNION {Range(ss[i]) : i \in 1..n}
      BY DEF RangesOf
    <2> QED BY <1>11, <2>1, <2>2, <2>3
  <1>14. \A x \in Range(FlattenSeq(ss)) : x.lot[1] = parent /\ x.lot[2] = p
    BY <1>10, <1>13
  <1>15. total = 0 => Range(FlattenSeq(ss)) = {}
    BY <1>2, <1>13
  <1> QED BY <1>8, <1>13, <1>14, <1>15

PlanOps == UNION {Range(OpsOf("LOT", p, batches[p][1])) : p \in Products}
HotOps(order) ==
    UNION {Range(OpsOf("HOT", p, HotBatches(order.quantity))) : p \in {q \in Products : q = order.product}}

LEMMA AllOpsListed ==
    ASSUME \A p \in Products : batches[p][1] \in Nat, NEW order, HotBatches(order.quantity) \in Nat
    PROVE  /\ OpsWith(order) \in Seq(Op) /\ IsInjective(OpsWith(order))
           /\ Range(OpsWith(order)) = PlanOps \cup HotOps(order)
           /\ \A x \in PlanOps : x.lot[1] = "LOT"
           /\ \A x \in HotOps(order) : x.lot[1] = "HOT"
           /\ HotBatches(order.quantity) = 0 => HotOps(order) = {}
  <1>1. PICK n \in Nat : n = Len(ProductSeq) /\ DOMAIN ProductSeq = 1..n
                         /\ (\A k \in 1..n : ProductSeq[k] \in Products)
                         /\ (\A k, j \in 1..n : ProductSeq[k] = ProductSeq[j] => k = j)
    <2>1. PICK s \in Seq(Products) : s = ProductSeq /\ IsInjective(s)
      BY PlanAssumption
    <2>2. Len(s) \in Nat /\ DOMAIN s = 1..Len(s) /\ \A k \in 1..Len(s) : s[k] \in Products
      OBVIOUS
    <2>3. \A k, j \in 1..Len(s) : s[k] = s[j] => k = j
      BY <2>1, <2>2 DEF IsInjective
    <2> QED BY <2>1, <2>2, <2>3
  <1>2. \A p \in Products : \E k \in 1..n : ProductSeq[k] = p
    BY <1>1 DEF Products, ToSet
  <1>3. PICK h \in Nat : h = HotBatches(order.quantity)
    OBVIOUS
  <1>4. PICK plan : plan = [p \in Products |-> OpsOf("LOT", p, batches[p][1])]
    OBVIOUS
  <1>5. PICK rush : rush = [p \in Products |-> IF p = order.product THEN OpsOf("HOT", p, h) ELSE <<>>]
    OBVIOUS
  <1>6. ASSUME NEW p \in Products
        PROVE  /\ plan[p] \in Seq(Op) /\ IsInjective(plan[p])
               /\ \A x \in Range(plan[p]) : x.lot[1] = "LOT" /\ x.lot[2] = p
    <2>1. PICK b \in Nat : b = batches[p][1]
      OBVIOUS
    <2>2. plan[p] = OpsOf("LOT", p, b) /\ "LOT" \in {"LOT", "HOT"}
      BY <1>4, <2>1
    <2>3. /\ OpsOf("LOT", p, b) \in Seq(Op) /\ IsInjective(OpsOf("LOT", p, b))
          /\ \A x \in Range(OpsOf("LOT", p, b)) : x.lot[1] = "LOT" /\ x.lot[2] = p
      BY <2>2, OpsListed
    <2> QED BY <2>2, <2>3
  <1>7. ASSUME NEW p \in Products
        PROVE  /\ rush[p] \in Seq(Op) /\ IsInjective(rush[p])
               /\ \A x \in Range(rush[p]) : x.lot[1] = "HOT" /\ x.lot[2] = p
    <2>1. CASE p = order.product
      <3>1. rush[p] = OpsOf("HOT", p, h) /\ "HOT" \in {"LOT", "HOT"}
        BY <1>5, <2>1
      <3>2. /\ OpsOf("HOT", p, h) \in Seq(Op) /\ IsInjective(OpsOf("HOT", p, h))
            /\ \A x \in Range(OpsOf("HOT", p, h)) : x.lot[1] = "HOT" /\ x.lot[2] = p
        BY <3>1, OpsListed
      <3> QED BY <3>1, <3>2
    <2>2. CASE p # order.product
      <3>1. rush[p] = <<>> /\ DOMAIN rush[p] = {} /\ rush[p] \in Seq(Op)
        BY <1>5, <2>2
      <3> QED BY <3>1 DEF IsInjective, Range
    <2> QED BY <2>1, <2>2
  <1>8. PICK ss : ss = [k \in 1..n |-> plan[ProductSeq[k]] \o rush[ProductSeq[k]]]
    OBVIOUS
  <1>9. OpsWith(order) = FlattenSeq(ss)
    <2>1. \A k \in 1..n : plan[ProductSeq[k]] \o rush[ProductSeq[k]]
            = LET p == ProductSeq[k]
              IN OpsOf("LOT", p, batches[p][1])
                   \o (IF p = order.product THEN OpsOf("HOT", p, HotBatches(order.quantity)) ELSE <<>>)
      BY <1>1, <1>3, <1>4, <1>5
    <2> QED BY <1>1, <1>8, <2>1 DEF OpsWith
  <1>10. ASSUME NEW k \in 1..n
         PROVE  /\ ss[k] \in Seq(Op) /\ IsInjective(ss[k])
                /\ Range(ss[k]) = Range(plan[ProductSeq[k]]) \cup Range(rush[ProductSeq[k]])
                /\ \A x \in Range(ss[k]) : x.lot[2] = ProductSeq[k]
    <2>1. PICK p \in Products : p = ProductSeq[k]
      BY <1>1
    <2>2. ss[k] = plan[p] \o rush[p]
      BY <1>8, <2>1
    <2>3. plan[p] \in Seq(Op) /\ rush[p] \in Seq(Op) /\ IsInjective(plan[p]) /\ IsInjective(rush[p])
      BY <1>6, <1>7
    <2>4. Range(plan[p]) \cap Range(rush[p]) = {}
      <3>1. \A x \in Range(plan[p]) : x.lot[1] = "LOT"
        BY <1>6
      <3>2. \A x \in Range(rush[p]) : x.lot[1] = "HOT"
        BY <1>7
      <3> QED BY <3>1, <3>2
    <2>5. ss[k] \in Seq(Op) /\ IsInjective(ss[k]) /\ Range(ss[k]) = Range(plan[p]) \cup Range(rush[p])
      BY <2>2, <2>3, <2>4, Joined
    <2>6. \A x \in Range(ss[k]) : x.lot[2] = p
      BY <1>6, <1>7, <2>5
    <2> QED BY <2>1, <2>5, <2>6
  <1>11. RangesApart(ss, n)
    <2>1. \A k \in 1..n : \A x \in Range(ss[k]) : x.lot[2] = ProductSeq[k]
      BY <1>10
    <2>2. \A k, j \in 1..n : k # j => Range(ss[k]) \cap Range(ss[j]) = {}
      BY <1>1, <2>1
    <2> QED BY <2>2 DEF RangesApart
  <1>12. ss \in [1..n -> Seq(Op)]
    BY <1>8, <1>10
  <1>13. /\ FlattenSeq(ss) \in Seq(Op) /\ IsInjective(FlattenSeq(ss))
         /\ Range(FlattenSeq(ss)) = UNION {Range(ss[k]) : k \in 1..n}
    <2>1. AllOnce(ss, n)
      BY <1>10 DEF AllOnce
    <2>2. /\ FlattenSeq(ss) \in Seq(Op) /\ Range(FlattenSeq(ss)) = RangesOf(ss, n)
          /\ AllOnce(ss, n) /\ RangesApart(ss, n) => IsInjective(FlattenSeq(ss))
      BY <1>12, Flattened
    <2>3. RangesOf(ss, n) = UNION {Range(ss[k]) : k \in 1..n}
      BY DEF RangesOf
    <2> QED BY <1>11, <2>1, <2>2, <2>3
  <1>14. PlanOps = UNION {Range(plan[p]) : p \in Products}
    BY <1>4 DEF PlanOps
  <1>15. HotOps(order) = UNION {Range(rush[p]) : p \in Products}
    <2>1. HotOps(order) = UNION {Range(OpsOf("HOT", p, h)) : p \in {q \in Products : q = order.product}}
      BY <1>3 DEF HotOps
    <2>2. \A p \in Products : /\ p = order.product => Range(rush[p]) = Range(OpsOf("HOT", p, h))
                              /\ p # order.product => Range(rush[p]) = {}
      <3> TAKE p \in Products
      <3>1. p # order.product => DOMAIN rush[p] = {}
        BY <1>5
      <3> QED BY <1>5, <3>1 DEF Range
    <2> QED BY <2>1, <2>2
  <1>16. Range(FlattenSeq(ss)) = PlanOps \cup HotOps(order)
    <2>1. \A k \in 1..n : Range(ss[k]) = Range(plan[ProductSeq[k]]) \cup Range(rush[ProductSeq[k]])
      BY <1>10
    <2>2. \A x \in Range(FlattenSeq(ss)) : x \in PlanOps \cup HotOps(order)
      BY <1>1, <1>13, <1>14, <1>15, <2>1
    <2>3. \A x \in PlanOps \cup HotOps(order) : x \in Range(FlattenSeq(ss))
      <3> TAKE x \in PlanOps \cup HotOps(order)
      <3>1. PICK p \in Products : x \in Range(plan[p]) \cup Range(rush[p])
        BY <1>14, <1>15
      <3>2. PICK k \in 1..n : ProductSeq[k] = p
        BY <1>2
      <3> QED BY <1>13, <2>1, <3>1, <3>2
    <2> QED BY <2>2, <2>3
  <1>17. /\ \A x \in PlanOps : x.lot[1] = "LOT"
         /\ \A x \in HotOps(order) : x.lot[1] = "HOT"
    BY <1>6, <1>7, <1>14, <1>15
  <1>18. h = 0 => HotOps(order) = {}
    <2>1. \A p \in Products : Range(OpsOf("HOT", p, 0)) = {}
      <3> TAKE p \in Products
      <3>1. 0 \in Nat /\ "HOT" \in {"LOT", "HOT"}
        OBVIOUS
      <3> QED BY <3>1, OpsListed
    <2> QED BY <1>3, <2>1 DEF HotOps
  <1> QED BY <1>3, <1>9, <1>13, <1>16, <1>17, <1>18
-----------------------------------------------------------------------------
(* The numbers a replayed plan gives its operations: the reference          *)
(* schedule's for those it has, unused ones for the others.                *)

Numbering == [id : Nat, counter : Nat]
Unused(n, counter) == Min(counter .. counter + n \ 0..(n - 1))
Numbered(ops, ref, n, k, before) ==
    IF ops[k] \in Range(ref)
    THEN [id |-> Position(ref, ops[k]) - 1, counter |-> before.counter + 1]
    ELSE [id |-> Unused(n, before.counter), counter |-> Unused(n, before.counter) + 1]
Numbers(step, ops, ref, n, N) ==
    step = [k \in 0..N |-> IF k = 0 THEN [id |-> 0, counter |-> 0]
                           ELSE Numbered(ops, ref, n, k, step[k - 1])]

LEMMA UnusedNumber ==
    ASSUME NEW n \in Nat, NEW counter \in Nat
    PROVE  /\ Unused(n, counter) \in Nat
           /\ Unused(n, counter) >= n /\ Unused(n, counter) >= counter
  <1> DEFINE S == counter .. counter + n \ 0..(n - 1)
  <1>1. S \subseteq Nat /\ counter + n \in S
    OBVIOUS
  <1>2. \A x \in S : x \in Nat /\ x >= n /\ x >= counter
    OBVIOUS
  <1> HIDE DEF S
  <1>3. Min(S) \in S
    BY <1>1, SmallestOf
  <1> QED BY <1>2, <1>3 DEF Unused, S

LEMMA NumberedOnce ==
    ASSUME NEW E, NEW ops \in Seq(E), NEW ref \in Seq(E), NEW n \in Nat, n = Len(ref),
           NEW k \in DOMAIN ops, NEW before \in Numbering,
           NEW now, now = Numbered(ops, ref, n, k, before)
    PROVE  /\ now \in Numbering
           /\ ops[k] \in Range(ref) => /\ now.id \in 0..(n - 1) /\ ref[now.id + 1] = ops[k]
                                       /\ now.counter > before.counter
           /\ ops[k] \notin Range(ref) => /\ now.id >= n /\ now.id >= before.counter
                                          /\ now.counter > now.id
  <1>1. DOMAIN ref = 1..n
    OBVIOUS
  <1>2. PICK c \in Nat : c = before.counter
    BY DEF Numbering
  <1>3. CASE ops[k] \in Range(ref)
    <2>1. \E j \in DOMAIN ref : ref[j] = ops[k]
      BY <1>3 DEF Range
    <2>2. PICK j \in 1..n : j = Position(ref, ops[k]) /\ ref[j] = ops[k]
      BY <1>1, <2>1 DEF Position
    <2>3. now = [id |-> j - 1, counter |-> c + 1]
      BY <1>2, <1>3, <2>2 DEF Numbered
    <2>4. j - 1 \in 0..(n - 1) /\ (j - 1) + 1 = j /\ c + 1 \in Nat /\ c + 1 > c /\ j - 1 \in Nat
      OBVIOUS
    <2> QED BY <1>2, <1>3, <2>2, <2>3, <2>4 DEF Numbering
  <1>4. CASE ops[k] \notin Range(ref)
    <2>1. PICK u \in Nat : u = Unused(n, c) /\ u >= n /\ u >= c
      BY UnusedNumber
    <2>2. now = [id |-> u, counter |-> u + 1]
      BY <1>2, <1>4, <2>1 DEF Numbered
    <2>3. u + 1 \in Nat /\ u + 1 > u
      OBVIOUS
    <2> QED BY <1>2, <1>4, <2>1, <2>2, <2>3 DEF Numbering
  <1> QED BY <1>3, <1>4

LEMMA NumbersExist ==
    ASSUME NEW E, NEW ops \in Seq(E), NEW ref \in Seq(E), NEW n \in Nat, n = Len(ref),
           NEW N \in Nat, N = Len(ops)
    PROVE  \E step : Numbers(step, ops, ref, n, N)
  <1> DEFINE m == [k \in 0..N |-> k]
             back == [k \in 0..N |-> k - 1]
             base == [k \in 0..N |-> [id |-> 0, counter |-> 0]]
             F == [p \in (0..N) \X Numbering |-> Numbered(ops, ref, n, p[1], p[2])]
  <1>1. \A d \in 0..N : m[d] \in 0..N
    OBVIOUS
  <1>2. \A d \in 0..N : m[d] # 0 => back[d] \in 0..N /\ m[back[d]] < m[d]
    OBVIOUS
  <1>3. PICK h : Recursive(h, 0..N, m, back, m, base, F)
    <2> HIDE DEF m, back, base, F
    <2> QED BY <1>1, <1>2, RecursionExists
  <1>4. h = [d \in 0..N |-> IF d = 0 THEN [id |-> 0, counter |-> 0] ELSE F[<<d, h[d - 1]>>]]
    <2>1. \A d \in 0..N : m[d] = d /\ back[d] = d - 1 /\ base[d] = [id |-> 0, counter |-> 0]
      OBVIOUS
    <2> HIDE DEF m, back, base, F
    <2> QED BY <1>3, <2>1 DEF Recursive
  <1>5. \A d \in 0..N, v \in Numbering : F[<<d, v>>] = Numbered(ops, ref, n, d, v)
    OBVIOUS
  <1> HIDE DEF m, back, base, F
  <1> DEFINE T == {k \in 0..N : h[k] \in Numbering}
  <1>6. 0 \in T
    BY <1>4 DEF Numbering
  <1>7. ASSUME NEW k \in 0..(N - 1), k \in T PROVE k + 1 \in T
    <2>1. k + 1 \in 0..N /\ k + 1 # 0 /\ (k + 1) - 1 = k /\ k + 1 \in 1..N
      OBVIOUS
    <2>2. DOMAIN ops = 1..N
      OBVIOUS
    <2>3. h[k + 1] = F[<<k + 1, h[k]>>] /\ h[k] \in Numbering
      BY <1>4, <1>7, <2>1
    <2>4. h[k + 1] = Numbered(ops, ref, n, k + 1, h[k])
      BY <1>5, <2>1, <2>3
    <2>5. h[k + 1] \in Numbering
      BY <2>1, <2>2, <2>3, <2>4, NumberedOnce
    <2> QED BY <2>1, <2>5
  <1> HIDE DEF T
  <1>8. \A k \in 0..N : k \in T
    BY <1>6, <1>7, CountUp
  <1>9. \A d \in 0..N : d # 0 => F[<<d, h[d - 1]>>] = Numbered(ops, ref, n, d, h[d - 1])
    <2> TAKE d \in 0..N
    <2> HAVE d # 0
    <2>1. d - 1 \in 0..N
      OBVIOUS
    <2>2. h[d - 1] \in Numbering
      BY <1>8, <2>1 DEF T
    <2> QED BY <1>5, <2>2
  <1>10. h = [d \in 0..N |-> IF d = 0 THEN [id |-> 0, counter |-> 0]
                             ELSE Numbered(ops, ref, n, d, h[d - 1])]
    BY <1>4, <1>9
  <1> QED BY <1>10 DEF Numbers

LEMMA ReplayNumbers ==
    ASSUME NEW E, NEW ops \in Seq(E), NEW ref \in Seq(E), IsInjective(ops),
           NEW n \in Nat, n = Len(ref), NEW N \in Nat, N = Len(ops),
           NEW ids, ids = Replayed(ops, ref, Counted(ref))
    PROVE  /\ DOMAIN ids = 1..N /\ IsInjective(ids)
           /\ \A k \in 1..N : /\ ops[k] \in Range(ref) => ids[k] \in 0..(n - 1) /\ ref[ids[k] + 1] = ops[k]
                              /\ ops[k] \notin Range(ref) => ids[k] \in Nat /\ ids[k] >= n
  <1>1. DOMAIN ops = 1..N /\ DOMAIN ref = 1..n
    OBVIOUS
  <1>2. PICK old : old = Counted(ref)
    OBVIOUS
  <1>3. old = [k \in 1..n |-> k - 1]
    BY <1>1, <1>2 DEF Counted
  <1>4. Range(old) = 0..(n - 1)
    <2>1. \A x \in Range(old) : x \in 0..(n - 1)
      BY <1>3 DEF Range
    <2>2. \A x \in 0..(n - 1) : x + 1 \in 1..n /\ (x + 1) - 1 = x
      OBVIOUS
    <2>3. \A x \in 0..(n - 1) : x \in Range(old)
      BY <1>3, <2>2 DEF Range
    <2> QED BY <2>1, <2>3
  <1>5. Cardinality(0..(n - 1)) = n
    <2>1. 0 \in Int /\ n - 1 \in Int
      OBVIOUS
    <2>2. Cardinality(0..(n - 1)) = IF 0 > n - 1 THEN 0 ELSE (n - 1) - 0 + 1
      BY <2>1, FS_Interval
    <2> QED BY <2>2
  <1>6. \A c : NextFree(c, Range(old)) = Unused(n, c)
    BY <1>4, <1>5 DEF NextFree, Unused
  <1>7. \A k \in 1..N : ops[k] \in Range(ref) => old[Position(ref, ops[k])] = Position(ref, ops[k]) - 1
    <2> TAKE k \in 1..N
    <2> HAVE ops[k] \in Range(ref)
    <2>1. \E j \in DOMAIN ref : ref[j] = ops[k]
      BY DEF Range
    <2>2. Position(ref, ops[k]) \in 1..n
      BY <1>1, <2>1 DEF Position
    <2> QED BY <1>3, <2>2
  <1>8. PICK step : Numbers(step, ops, ref, n, N) /\ ids = [k \in 1..N |-> step[k].id]
    <2> DEFINE Stepping(f) == f = [k \in 0..Len(ops) |->
                 IF k = 0 THEN [id |-> 0, counter |-> 0]
                 ELSE LET counter == f[k - 1].counter
                          free == NextFree(counter, Range(old))
                      IN IF ops[k] \in Range(ref)
                         THEN [id |-> old[Position(ref, ops[k])], counter |-> counter + 1]
                         ELSE [id |-> free, counter |-> free + 1]]
    <2>1. ASSUME NEW f PROVE Numbers(f, ops, ref, n, N) <=> Stepping(f)
      <3>1. \A k \in 0..N : k # 0 =>
              Numbered(ops, ref, n, k, f[k - 1])
                = LET counter == f[k - 1].counter
                      free == NextFree(counter, Range(old))
                  IN IF ops[k] \in Range(ref)
                     THEN [id |-> old[Position(ref, ops[k])], counter |-> counter + 1]
                     ELSE [id |-> free, counter |-> free + 1]
        BY <1>6, <1>7 DEF Numbered
      <3> QED BY <3>1 DEF Numbers
    <2>2. \E f : Stepping(f)
      <3>1. \E f : Numbers(f, ops, ref, n, N)
        BY NumbersExist
      <3> QED BY <2>1, <3>1
    <2>3. \E f : Stepping(f) /\ ids = [k \in 1..N |-> f[k].id]
      <3>1. ids = Replayed(ops, ref, old)
        BY <1>2
      <3>2. \E f : Stepping(f) /\ ids = [k \in DOMAIN ops |-> f[k].id]
        BY <2>2, <3>1 DEF Replayed
      <3> HIDE DEF Stepping
      <3> QED BY <1>1, <3>2
    <2> HIDE DEF Stepping
    <2> QED BY <2>1, <2>3
  <1>9. /\ step[0] = [id |-> 0, counter |-> 0]
        /\ \A k \in 1..N : step[k] = Numbered(ops, ref, n, k, step[k - 1])
    BY <1>8 DEF Numbers
  <1> DEFINE T == {k \in 0..N : step[k] \in Numbering
                                /\ \A j \in 0..k : /\ step[j].counter \in Nat
                                                   /\ step[j].counter <= step[k].counter}
  <1>10. 0 \in T
    <2>1. step[0] \in Numbering /\ 0..0 = {0} /\ step[0].counter = 0
      BY <1>9 DEF Numbering
    <2> QED BY <2>1
  <1>11. ASSUME NEW k \in 0..(N - 1), k \in T PROVE k + 1 \in T
    <2>1. k + 1 \in 1..N /\ k + 1 \in 0..N /\ (k + 1) - 1 = k
      OBVIOUS
    <2>2. step[k] \in Numbering /\ \A j \in 0..k : step[j].counter \in Nat /\ step[j].counter <= step[k].counter
      BY <1>11
    <2>3. PICK now : now = step[k + 1]
      OBVIOUS
    <2>4. now = Numbered(ops, ref, n, k + 1, step[k])
      BY <1>9, <2>1, <2>3
    <2>5. PICK c \in Nat : c = step[k].counter
      BY <2>2 DEF Numbering
    <2>6. now \in Numbering /\ (now.counter > c \/ (now.id >= c /\ now.counter > now.id))
      <3>1. k + 1 \in DOMAIN ops
        BY <1>1, <2>1
      <3>2. now \in Numbering
        BY <2>2, <2>4, <3>1, NumberedOnce
      <3>3. ops[k + 1] \in Range(ref) => now.counter > step[k].counter
        BY <2>2, <2>4, <3>1, NumberedOnce
      <3>4. ops[k + 1] \notin Range(ref) => now.id >= step[k].counter /\ now.counter > now.id
        BY <2>2, <2>4, <3>1, NumberedOnce
      <3> QED BY <2>5, <3>2, <3>3, <3>4
    <2>7. now.counter \in Nat /\ now.id \in Nat
      BY <2>6 DEF Numbering
    <2>8. now.counter >= c
      BY <2>6, <2>7
    <2>9. ASSUME NEW j \in 0..(k + 1) PROVE step[j].counter \in Nat /\ step[j].counter <= now.counter
      <3>1. CASE j = k + 1
        BY <2>3, <2>7, <3>1
      <3>2. CASE j # k + 1
        <4>1. j \in 0..k
          BY <3>2
        <4>2. step[j].counter \in Nat /\ step[j].counter <= c
          BY <2>2, <2>5, <4>1
        <4> QED BY <2>5, <2>7, <2>8, <4>2
      <3> QED BY <3>1, <3>2
    <2> QED BY <2>1, <2>3, <2>6, <2>9
  <1> HIDE DEF T
  <1>12. \A k \in 0..N : k \in T
    BY <1>10, <1>11, CountUp
  <1>13. \A k \in 0..N : step[k] \in Numbering /\ step[k].counter \in Nat /\ step[k].id \in Nat
    BY <1>12 DEF T, Numbering
  <1>14. ASSUME NEW k \in 1..N
         PROVE  /\ ids[k] \in Nat
                /\ ops[k] \in Range(ref) => ids[k] \in 0..(n - 1) /\ ref[ids[k] + 1] = ops[k]
                /\ ops[k] \notin Range(ref) => /\ ids[k] >= n /\ ids[k] >= step[k - 1].counter
                                               /\ step[k].counter > ids[k]
    <2>1. k - 1 \in 0..N /\ k \in 0..N
      OBVIOUS
    <2>2. step[k] = Numbered(ops, ref, n, k, step[k - 1]) /\ step[k - 1] \in Numbering
      BY <1>9, <1>13, <2>1
    <2>3. ids[k] = step[k].id /\ step[k].id \in Nat
      BY <1>8, <1>13, <2>1
    <2> QED BY <1>1, <2>2, <2>3, NumberedOnce
  <1>15. ASSUME NEW j \in 1..N, NEW k \in 1..N, j < k, ops[j] \notin Range(ref), ops[k] \notin Range(ref)
         PROVE  ids[j] < ids[k]
    <2>1. k - 1 \in 0..N /\ j \in 0..(k - 1) /\ j \in 0..N
      BY <1>15
    <2>2. k - 1 \in T
      BY <1>12, <2>1
    <2>3. step[j].counter <= step[k - 1].counter
      BY <2>1, <2>2 DEF T
    <2>4. step[j].counter > ids[j] /\ ids[k] >= step[k - 1].counter
      BY <1>14, <1>15
    <2>5. step[j].counter \in Nat /\ step[k - 1].counter \in Nat /\ ids[j] \in Nat /\ ids[k] \in Nat
      BY <1>13, <1>14, <2>1
    <2> QED BY <2>3, <2>4, <2>5
  <1>16. ASSUME NEW j \in 1..N, NEW k \in 1..N, ids[j] = ids[k] PROVE j = k
    <2>1. CASE ops[j] \in Range(ref) /\ ops[k] \in Range(ref)
      <3>1. ops[j] = ops[k]
        BY <1>14, <1>16, <2>1
      <3> QED BY <1>1, <3>1 DEF IsInjective
    <2>2. CASE ops[j] \notin Range(ref) /\ ops[k] \notin Range(ref)
      <3>1. ~(ids[j] < ids[k]) /\ ~(ids[k] < ids[j])
        BY <1>14, <1>16
      <3>2. ~(j < k) /\ ~(k < j)
        BY <1>15, <2>2, <3>1
      <3> QED BY <3>2
    <2>3. \A i \in 1..N : (ids[i] \in 0..(n - 1)) <=> ops[i] \in Range(ref)
      BY <1>14
    <2> QED BY <1>16, <2>1, <2>2, <2>3
  <1>17. DOMAIN ids = 1..N
    BY <1>8
  <1> QED BY <1>14, <1>16, <1>17 DEF IsInjective

\* A rush order simulated on the ACTIVE schedule itself keeps every task: its
\* numbers are unique, equal numbers mean the same operation, and the new ones are
\* the rush order's, for any plan, routes and quantities
\* (reference_schedule of run_cpsat_scheduling, compare_schedule_operations).
THEOREM ReplaysKeepTasks == HotSpec => []ReplayKeepsTasks
  <1>1. ASSUME PlanInv, ChainInv, stage = "simulated", hot.replay
        PROVE  /\ IsInjective(TaskNumbers)
               /\ \A pair \in SameNumber(TaskNumbers, Baseline) : Baseline[pair[1]] = Candidate[pair[2]]
               /\ NewTasks(TaskNumbers, Baseline) = {k \in DOMAIN Candidate : Candidate[k].lot[1] = "HOT"}
    <2>1. PICK q \in Nat \ {0} : HotBatches(hot.quantity) = RoundedUp(q, UnitsPerBatch)
      BY <1>1, HotAssumption DEF ChainInv, HotKept, HotBatches
    <2>2. HotBatches(hot.quantity) \in Nat /\ HotBatches(NoOrder.quantity) = 0 /\ HotBatches(NoOrder.quantity) \in Nat
      <3>1. PICK U \in Nat \ {0} : U = UnitsPerBatch
        BY PlanAssumption
      <3>2. \A a \in Nat : RoundedUp(a, U) \in Nat /\ (RoundedUp(a, U) = 0 <=> a = 0)
        BY RoundedUpBounds
      <3>3. NoOrder.quantity = 0
        BY DEF NoOrder
      <3> QED BY <2>1, <3>1, <3>2, <3>3 DEF HotBatches
    <2>3. \A p \in Products : batches[p][1] \in Nat
      BY <1>1, PlanAssumption DEF PlanInv, TypesKept, PlanTyped, Weeks
    <2>4. /\ Baseline \in Seq(Op) /\ IsInjective(Baseline) /\ Range(Baseline) = PlanOps
          /\ \A x \in PlanOps : x.lot[1] = "LOT"
      <3>1. HotOps(NoOrder) = {}
        BY <2>2, <2>3, AllOpsListed
      <3>2. /\ OpsWith(NoOrder) \in Seq(Op) /\ IsInjective(OpsWith(NoOrder))
            /\ Range(OpsWith(NoOrder)) = PlanOps \cup HotOps(NoOrder)
            /\ \A x \in PlanOps : x.lot[1] = "LOT"
        BY <2>2, <2>3, AllOpsListed
      <3> QED BY <3>1, <3>2 DEF Baseline
    <2>5. /\ Candidate \in Seq(Op) /\ IsInjective(Candidate)
          /\ Range(Candidate) = PlanOps \cup HotOps(hot)
          /\ \A x \in HotOps(hot) : x.lot[1] = "HOT"
      BY <2>2, <2>3, AllOpsListed DEF Candidate
    <2>6. PICK n \in Nat, N \in Nat : /\ n = Len(Baseline) /\ N = Len(Candidate)
                                      /\ DOMAIN Baseline = 1..n /\ DOMAIN Candidate = 1..N
      BY <2>4, <2>5
    <2>7. PICK ids : ids = TaskNumbers
      OBVIOUS
    <2>8. ids = Replayed(Candidate, Baseline, Counted(Baseline))
      BY <1>1, <2>7 DEF TaskNumbers
    <2>9. /\ DOMAIN ids = 1..N /\ IsInjective(ids)
          /\ \A k \in 1..N :
               /\ Candidate[k] \in Range(Baseline) => ids[k] \in 0..(n - 1) /\ Baseline[ids[k] + 1] = Candidate[k]
               /\ Candidate[k] \notin Range(Baseline) => ids[k] \in Nat /\ ids[k] >= n
      BY <2>4, <2>5, <2>6, <2>8, ReplayNumbers
    <2>10. Counted(Baseline) = [k \in 1..n |-> k - 1]
      BY <2>6 DEF Counted
    <2>11. ASSUME NEW i \in 1..n, NEW k \in 1..N, i - 1 = ids[k]
           PROVE  Baseline[i] = Candidate[k]
      <3>1. ids[k] \in 0..(n - 1) /\ ids[k] + 1 = i
        BY <2>11
      <3>2. Candidate[k] \in Range(Baseline)
        BY <2>9, <3>1
      <3> QED BY <2>9, <3>1, <3>2
    <2>12. \A pair \in SameNumber(ids, Baseline) : Baseline[pair[1]] = Candidate[pair[2]]
      BY <2>6, <2>9, <2>10, <2>11 DEF SameNumber
    <2>13. ASSUME NEW k \in 1..N
           PROVE  /\ Candidate[k] \in Range(Baseline) <=> Candidate[k].lot[1] # "HOT"
                  /\ ids[k] \in Range(Counted(Baseline)) <=> Candidate[k] \in Range(Baseline)
      <3>1. Candidate[k] \in PlanOps \cup HotOps(hot)
        BY <2>5, <2>6 DEF Range
      <3>2. \A x \in Range(Counted(Baseline)) : x \in 0..(n - 1)
        BY <2>10 DEF Range
      <3>3. \A x \in 0..(n - 1) : x + 1 \in 1..n /\ (x + 1) - 1 = x
        OBVIOUS
      <3>4. \A x \in 0..(n - 1) : x \in Range(Counted(Baseline))
        BY <2>10, <3>3 DEF Range
      <3>5. ids[k] \in Range(Counted(Baseline)) <=> Candidate[k] \in Range(Baseline)
        BY <2>9, <3>2, <3>4
      <3>6. Candidate[k] \in Range(Baseline) <=> Candidate[k].lot[1] # "HOT"
        BY <2>4, <2>5, <3>1
      <3> QED BY <3>5, <3>6
    <2>14. NewTasks(ids, Baseline) = {k \in 1..N : Candidate[k].lot[1] = "HOT"}
      BY <2>9, <2>13 DEF NewTasks
    <2> QED BY <2>6, <2>7, <2>9, <2>12, <2>14
  <1>2. PlanInv /\ ChainInv => ReplayKeepsTasks
    BY <1>1 DEF ReplayKeepsTasks
  <1> QED BY <1>2, ChainInvariant, PTL
=============================================================================
