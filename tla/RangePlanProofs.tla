--------------------------- MODULE RangePlanProofs ---------------------------
(***************************************************************************)
(* What the planning arithmetic computes, for every plan, cursor and       *)
(* budget: the recursive definitions of RangePlan are unfolded by taking   *)
(* the least index at which a claim about them would fail.                 *)
(***************************************************************************)
EXTENDS RangePlan, SequenceTheorems, FiniteSetTheorems, WellFoundedInduction, TLAPS

(* A set of natural numbers that is not empty has a least element.         *)
LEMMA LeastNatural ==
    ASSUME NEW S \in SUBSET Nat, S # {}
    PROVE  \E n \in S : \A m \in S : n <= m
<1>1. PICK n \in S : \A m \in S : ~(<<m, n>> \in OpToRel(<, Nat))
  BY NatLessThanWellFounded, WFMin
<1>2. \A m \in S : <<m, n>> \in Nat \X Nat
  OBVIOUS
<1>3. \A m \in S : ~(m < n)
  BY <1>1, <1>2 DEF OpToRel
<1>. QED BY <1>3

(* A hop leaves a height that is not bypassed where it is, and passes only *)
(* over bypassed ones otherwise (advance_past_bypass, one turn).           *)
LEMMA HopPassesBypassed ==
    ASSUME NEW plan \in Plans, NEW h \in Height
    PROVE  /\ Hop(plan, h) \in Height \union {NoHeight}
           /\ ~IsBypassed(plan, h) => Hop(plan, h) = h
           /\ Hop(plan, h) # NoHeight => h <= Hop(plan, h)
           /\ \A k \in Height : h <= k /\ (Hop(plan, h) = NoHeight \/ k < Hop(plan, h)) =>
                    IsBypassed(plan, k)
<1>. USE MaxU64Assumption DEF Height, NoHeight
<1>1. CASE ~IsBypassed(plan, h)
  BY <1>1 DEF Hop
<1>2. CASE IsBypassed(plan, h)
  <2>. DEFINE covers == {i \in DOMAIN plan : Contains(plan[i], h)}
  <2>1. DOMAIN plan = 1..Len(plan) /\ Len(plan) \in Nat
    BY DEF Plans
  <2>2. covers \in SUBSET Nat /\ covers # {}
    BY <1>2, <2>1 DEF IsBypassed
  <2>3. Min(covers) \in covers
    BY <2>2, LeastNatural DEF Min
  <2>. DEFINE c == plan[Min(covers)]
  <2>4. c \in [start : Height, end : Height] /\ Contains(c, h)
    <3>1. Min(covers) \in 1..Len(plan) /\ Contains(c, h)
      BY <2>1, <2>3
    <3>. QED BY <3>1, ElementOfSeq DEF Plans
  <2>5. Hop(plan, h) = CheckedSucc(c.end)
    BY <1>2 DEF Hop, Covering
  <2>6. \A k \in Height : h <= k /\ k <= c.end => IsBypassed(plan, k)
    <3>1. \A k \in Height : h <= k /\ k <= c.end => Contains(c, k)
      BY <2>4 DEF Contains
    <3>. QED BY <2>3, <3>1 DEF IsBypassed
  <2>7. c.end \in Height /\ h <= c.end
    BY <2>4 DEF Contains
  <2>. HIDE DEF c
  <2>8. CASE c.end = MaxU64
    BY <1>2, <2>5, <2>6, <2>7, <2>8 DEF CheckedSucc
  <2>9. CASE c.end # MaxU64
    BY <1>2, <2>5, <2>6, <2>7, <2>9 DEF CheckedSucc
  <2>. QED BY <2>8, <2>9
<1>. QED BY <1>1, <1>2

(* The recursive function behind Hops exists, and makes one hop per turn.  *)
LEMMA HopsUnfold ==
    ASSUME NEW plan \in Plans, NEW h \in Height
    PROVE  Hops(plan, h) = [i \in 0..Len(plan) |->
                IF i = 0 THEN h ELSE Hop(plan, Hops(plan, h)[i-1])]
<1>. DEFINE Cursors == Height \union {NoHeight}
            hop == [p \in Cursors |-> Hop(plan, p)]
            Unfolds(f, n) == f = [i \in 0..n |-> IF i = 0 THEN h ELSE hop[f[i-1]]]
            Bad == {n \in Nat : ~ \E f : Unfolds(f, n)}
<1>0. Len(plan) \in Nat
  BY DEF Plans
<1>. HIDE DEF hop
<1>1. Bad = {}
  <2>. SUFFICES ASSUME Bad # {} PROVE FALSE
    OBVIOUS
  <2>1. PICK n \in Bad : \A m \in Bad : n <= m
    BY LeastNatural
  <2>2. n # 0
    <3>1. Unfolds([i \in 0..0 |-> h], 0)
      OBVIOUS
    <3>. QED BY <3>1
  <2>3. n - 1 \in Nat /\ n - 1 \notin Bad
    <3>1. n \in Nat /\ n - 1 \in Nat /\ ~(n <= n - 1)
      BY <2>1, <2>2
    <3>. HIDE DEF Unfolds
    <3>. QED BY <2>1, <3>1
  <2>4. PICK f : Unfolds(f, n - 1)
    BY <2>3
  <2>. DEFINE g == [i \in 0..n |-> IF i = n THEN hop[f[n-1]] ELSE f[i]]
  <2>5. Unfolds(g, n)
    BY <2>2, <2>3, <2>4
  <2>. QED BY <2>1, <2>5
<1>2. PICK f : Unfolds(f, Len(plan))
  BY <1>0, <1>1
<1>3. Hops(plan, h) = CHOOSE g : Unfolds(g, Len(plan))
  BY DEF Hops, hop
<1>. DEFINE pos == Hops(plan, h)
<1>4. pos = [i \in 0..Len(plan) |-> IF i = 0 THEN h ELSE hop[pos[i-1]]]
  BY <1>2, <1>3
<1>. HIDE DEF pos
<1>5. \A p \in Cursors : Hop(plan, p) \in Cursors /\ hop[p] = Hop(plan, p)
  <2>1. \A p \in Cursors : hop[p] = Hop(plan, p)
    BY DEF hop
  <2>2. Hop(plan, NoHeight) = NoHeight
    BY DEF Hop
  <2>. QED BY <2>1, <2>2, HopPassesBypassed
<1>6. \A i \in 0..Len(plan) : pos[i] \in Cursors
  <2>. DEFINE Off == {i \in 0..Len(plan) : pos[i] \notin Cursors}
  <2>. SUFFICES ASSUME Off # {} PROVE FALSE
    OBVIOUS
  <2>0. Off \in SUBSET Nat
    BY <1>0
  <2>1. PICK i \in Off : \A j \in Off : i <= j
    BY <2>0, LeastNatural
  <2>2. i # 0
    BY <1>0, <1>4, <2>1
  <2>3. i - 1 \in 0..Len(plan) /\ ~(i <= i - 1)
    BY <1>0, <2>1, <2>2
  <2>4. pos[i-1] \in Cursors
    BY <2>1, <2>3
  <2>5. pos[i] = hop[pos[i-1]]
    BY <1>4, <2>1, <2>2
  <2>. QED BY <1>5, <2>1, <2>4, <2>5
<1>7. \A i \in 0..Len(plan) : (IF i = 0 THEN h ELSE hop[pos[i-1]])
                                  = IF i = 0 THEN h ELSE Hop(plan, pos[i-1])
  <2>1. \A i \in 0..Len(plan) : i # 0 => i - 1 \in 0..Len(plan)
    BY <1>0
  <2>. QED BY <1>5, <1>6, <2>1
<1>8. pos = [i \in 0..Len(plan) |-> IF i = 0 THEN h ELSE Hop(plan, pos[i-1])]
  BY <1>4, <1>7
<1>. QED BY <1>8 DEF pos

(* Wherever the hops have come, they have only passed bypassed heights.    *)
LEMMA HopsPassBypassed ==
    ASSUME NEW plan \in Plans, NEW h \in Height, NEW i \in 0..Len(plan)
    PROVE  /\ Hops(plan, h)[i] \in Height \union {NoHeight}
           /\ Hops(plan, h)[i] # NoHeight => h <= Hops(plan, h)[i]
           /\ \A k \in Height : h <= k /\ (Hops(plan, h)[i] = NoHeight \/ k < Hops(plan, h)[i]) =>
                    IsBypassed(plan, k)
<1>. DEFINE Passed(p) == /\ p \in Height \union {NoHeight}
                         /\ p # NoHeight => h <= p
                         /\ \A k \in Height : h <= k /\ (p = NoHeight \/ k < p) =>
                                IsBypassed(plan, k)
            pos == Hops(plan, h)
            Bad == {n \in 0..Len(plan) : ~Passed(pos[n])}
<1>1. Len(plan) \in Nat
  BY DEF Plans
<1>2. pos = [n \in 0..Len(plan) |-> IF n = 0 THEN h ELSE Hop(plan, pos[n-1])]
  BY <1>1, HopsUnfold
<1>. HIDE DEF pos
<1>3. Bad = {}
  <2>. SUFFICES ASSUME Bad # {} PROVE FALSE
    OBVIOUS
  <2>0. Bad \in SUBSET Nat
    BY <1>1
  <2>1. PICK n \in Bad : \A m \in Bad : n <= m
    BY <2>0, LeastNatural
  <2>2. pos[0] = h
    BY <1>1, <1>2
  <2>3. Passed(h)
    BY MaxU64Assumption DEF Height, NoHeight
  <2>4. n \in 1..Len(plan)
    BY <1>1, <2>1, <2>2, <2>3
  <2>5. pos[n] = Hop(plan, pos[n-1])
    BY <1>1, <1>2, <2>4
  <2>6. Passed(pos[n-1])
    BY <2>1, <2>4
  <2>7. Passed(pos[n])
    <3>. DEFINE p == pos[n-1]
    <3>1. CASE p = NoHeight
      BY <2>5, <2>6, <3>1 DEF Hop
    <3>2. CASE p \in Height
      <4>. HIDE DEF p
      <4>1. Passed(p)
        BY <2>6 DEF p
      <4>2. Passed(Hop(plan, p))
        <5>. DEFINE q == Hop(plan, p)
        <5>1. /\ q \in Height \union {NoHeight} /\ (q # NoHeight => p <= q)
              /\ \A k \in Height : p <= k /\ (q = NoHeight \/ k < q) => IsBypassed(plan, k)
          BY <3>2, HopPassesBypassed
        <5>. HIDE DEF q
        <5>2. /\ p # NoHeight /\ h <= p
              /\ \A k \in Height : h <= k /\ k < p => IsBypassed(plan, k)
          BY <3>2, <4>1, MaxU64Assumption DEF Height, NoHeight
        <5>3. q # NoHeight => h <= q
          BY <3>2, <5>1, <5>2, MaxU64Assumption DEF Height, NoHeight
        <5>4. ASSUME NEW k \in Height, h <= k, q = NoHeight \/ k < q
              PROVE  IsBypassed(plan, k)
          <6>1. k < p \/ p <= k
            BY <3>2, MaxU64Assumption DEF Height
          <6>. QED BY <5>1, <5>2, <5>4, <6>1
        <5>5. Passed(q)
          BY ONLY <5>1, <5>3, <5>4
        <5>. QED BY <5>5 DEF q
      <4>. QED BY <2>5, <4>2 DEF p
    <3>. QED BY <2>6, <3>1, <3>2
  <2>. QED BY <2>1, <2>7
<1>. QED BY <1>3 DEF pos

(* A cursor that is not bypassed stays where it is.                        *)
LEMMA HopsSettle ==
    ASSUME NEW plan \in Plans, NEW h \in Height, NEW i \in 0..Len(plan),
           Hops(plan, h)[i] = NoHeight \/ ~IsBypassed(plan, Hops(plan, h)[i])
    PROVE  Hops(plan, h)[Len(plan)] = Hops(plan, h)[i]
<1>. DEFINE pos == Hops(plan, h)
            Bad == {j \in i..Len(plan) : pos[j] # pos[i]}
<1>1. Len(plan) \in Nat
  BY DEF Plans
<1>2. pos = [n \in 0..Len(plan) |-> IF n = 0 THEN h ELSE Hop(plan, pos[n-1])]
  BY <1>1, HopsUnfold
<1>3. pos[i] = NoHeight \/ ~IsBypassed(plan, pos[i])
  OBVIOUS
<1>. HIDE DEF pos
<1>4. Bad = {}
  <2>. SUFFICES ASSUME Bad # {} PROVE FALSE
    OBVIOUS
  <2>1. Bad \in SUBSET Nat
    BY <1>1
  <2>2. PICK j \in Bad : \A m \in Bad : j <= m
    BY <2>1, LeastNatural
  <2>3. j \in (i+1)..Len(plan)
    BY <1>1, <2>2
  <2>4. pos[j-1] = pos[i]
    BY <1>1, <2>2, <2>3
  <2>5. pos[j] = Hop(plan, pos[j-1])
    BY <1>1, <1>2, <2>3
  <2>. QED BY <1>3, <2>2, <2>4, <2>5 DEF Hop
<1>. QED BY <1>1, <1>4 DEF pos

(* As many hops as there are spans suffice: each leaves the span it stood  *)
(* on behind for good, so one more would need a span that is not there     *)
(* ("each pass leaves at least one span behind").                          *)
LEMMA HopsSuffice ==
    ASSUME NEW plan \in Plans, NEW h \in Height, Hops(plan, h)[Len(plan)] # NoHeight
    PROVE  ~IsBypassed(plan, Hops(plan, h)[Len(plan)])
<1>. SUFFICES ASSUME IsBypassed(plan, Hops(plan, h)[Len(plan)]) PROVE FALSE
  OBVIOUS
<1>. DEFINE n == Len(plan)
            pos == Hops(plan, h)
            covers(i) == {j \in DOMAIN plan : Contains(plan[j], pos[i])}
            f == [i \in 0..n |-> Min(covers(i))]
<1>1. n \in Nat /\ DOMAIN plan = 1..n
  BY DEF Plans
<1>2. pos = [i \in 0..n |-> IF i = 0 THEN h ELSE Hop(plan, pos[i-1])]
  BY <1>1, HopsUnfold
<1>3. \A i \in 0..n : pos[i] \in Height /\ IsBypassed(plan, pos[i])
  <2>. SUFFICES ASSUME NEW i \in 0..n PROVE pos[i] \in Height /\ IsBypassed(plan, pos[i])
    OBVIOUS
  <2>1. pos[i] \in Height \union {NoHeight}
    BY HopsPassBypassed
  <2>2. pos[i] # NoHeight /\ IsBypassed(plan, pos[i])
    BY HopsSettle
  <2>. QED BY <2>1, <2>2
<1>. HIDE DEF pos
<1>4. \A i \in 0..n : f[i] \in 1..n /\ Contains(plan[f[i]], pos[i])
  <2>. SUFFICES ASSUME NEW i \in 0..n PROVE f[i] \in 1..n /\ Contains(plan[f[i]], pos[i])
    OBVIOUS
  <2>1. covers(i) \in SUBSET Nat /\ covers(i) # {}
    <3>1. \E j \in DOMAIN plan : Contains(plan[j], pos[i])
      BY <1>3 DEF IsBypassed
    <3>2. DOMAIN plan \subseteq Nat
      BY <1>1
    <3>. QED BY <3>1, <3>2
  <2>2. Min(covers(i)) \in covers(i)
    BY <2>1, LeastNatural DEF Min
  <2>. QED BY <1>1, <2>2
<1>5. \A i \in 1..n : pos[i] = plan[f[i-1]].end + 1
  <2>. SUFFICES ASSUME NEW i \in 1..n PROVE pos[i] = plan[f[i-1]].end + 1
    OBVIOUS
  <2>1. pos[i] = Hop(plan, pos[i-1]) /\ pos[i] # NoHeight
    BY <1>1, <1>2, <1>3, MaxU64Assumption DEF Height, NoHeight
  <2>2. IsBypassed(plan, pos[i-1]) /\ pos[i-1] # NoHeight
    BY <1>1, <1>3, MaxU64Assumption DEF Height, NoHeight
  <2>3. Covering(plan, pos[i-1]) = plan[f[i-1]]
    BY <1>1 DEF Covering
  <2>. QED BY <2>1, <2>2, <2>3 DEF Hop, CheckedSucc
<1>6. \A i \in 0..n : plan[f[i]].end \in Nat
  <2>. SUFFICES ASSUME NEW i \in 0..n PROVE plan[f[i]].end \in Nat
    OBVIOUS
  <2>. HIDE DEF f
  <2>1. plan[f[i]] \in [start : Height, end : Height]
    BY <1>4, ElementOfSeq DEF Plans
  <2>. QED BY <2>1 DEF Height
<1>. HIDE DEF f
<1>7. \A i \in 0..n : pos[i] \in Nat /\ pos[i] <= plan[f[i]].end
  BY <1>3, <1>4 DEF Height, Contains
<1>8. ASSUME NEW i \in 0..n, NEW j \in 0..n, i < j
      PROVE  plan[f[i]].end < pos[j]
  <2>. DEFINE Bad == {k \in (i+1)..n : ~(plan[f[i]].end < pos[k])}
  <2>1. Bad \in SUBSET Nat
    BY <1>1
  <2>2. Bad = {}
    <3>. SUFFICES ASSUME Bad # {} PROVE FALSE
      OBVIOUS
    <3>1. PICK k \in Bad : \A m \in Bad : k <= m
      BY <2>1, LeastNatural
    <3>2. CASE k = i + 1
      <4>1. k \in 1..n /\ k - 1 = i
        BY <1>1, <3>1, <3>2
      <4>. QED BY <1>5, <1>6, <3>1, <4>1
    <3>3. CASE k # i + 1
      <4>1. k - 1 \in (i+1)..n /\ k \in 1..n /\ k - 1 \in 0..n
        BY <1>1, <3>1, <3>3
      <4>2. k - 1 \notin Bad
        BY <3>1, <4>1
      <4>3. plan[f[i]].end < pos[k-1]
        BY <4>1, <4>2
      <4>4. pos[k] = plan[f[k-1]].end + 1 /\ pos[k-1] <= plan[f[k-1]].end
        BY <1>5, <1>7, <4>1
      <4>5. /\ plan[f[i]].end \in Nat /\ plan[f[k-1]].end \in Nat
            /\ pos[k-1] \in Nat /\ pos[k] \in Nat
        <5>1. i \in 0..n /\ k - 1 \in 0..n /\ k \in 0..n
          BY <1>1, <4>1
        <5>. QED BY ONLY <1>6, <1>7, <5>1
      <4>6. plan[f[i]].end < pos[k]
        <5>. DEFINE x == plan[f[i]].end
                    y == plan[f[k-1]].end
                    u == pos[k-1]
                    v == pos[k]
        <5>1. /\ x \in Nat /\ y \in Nat /\ u \in Nat /\ v \in Nat
              /\ x < u /\ v = y + 1 /\ u <= y
          BY <4>3, <4>4, <4>5
        <5>. HIDE DEF x, y, u, v
        <5>2. x < v
          BY <5>1
        <5>. QED BY <5>2 DEF x, v
      <4>. QED BY <3>1, <4>6
    <3>. QED BY <3>2, <3>3
  <2>. QED BY <1>1, <1>8, <2>2
<1>9. f \in [0..n -> 1..n]
  BY <1>4 DEF f
<1>10. /\ IsFiniteSet(0..n) /\ IsFiniteSet(1..n)
       /\ Cardinality(1..n) < Cardinality(0..n)
  <2>1. n \in Nat /\ 0 \in Int /\ 1 \in Int /\ n \in Int
    BY <1>1
  <2>2. IsFiniteSet(0..n) /\ Cardinality(0..n) = IF 0 > n THEN 0 ELSE n - 0 + 1
    BY ONLY <2>1, FS_Interval
  <2>3. IsFiniteSet(1..n) /\ Cardinality(1..n) = IF 1 > n THEN 0 ELSE n - 1 + 1
    BY ONLY <2>1, FS_Interval
  <2>4. Cardinality(0..n) = n + 1 /\ Cardinality(1..n) = n
    BY ONLY <2>1, <2>2, <2>3
  <2>. QED BY ONLY <2>1, <2>2, <2>3, <2>4
<1>11. PICK x, y \in 0..n : x # y /\ f[x] = f[y]
  BY <1>9, <1>10, FS_PigeonHole
<1>12. \A i, j \in 0..n : i < j => f[i] # f[j]
  <2>1. \A i, j \in 0..n : i < j => plan[f[i]].end < pos[j] /\ pos[j] <= plan[f[j]].end
    BY <1>7, <1>8
  <2>2. ASSUME NEW i \in 0..n, NEW j \in 0..n, i < j, f[i] = f[j] PROVE FALSE
    <3>1. plan[f[i]].end < pos[j] /\ pos[j] <= plan[f[i]].end
      BY <2>1, <2>2
    <3>2. plan[f[i]].end \in Nat /\ pos[j] \in Nat
      BY <1>6, <1>7
    <3>. QED BY <3>1, <3>2
  <2>. QED BY <2>2
<1>13. x < y \/ y < x
  BY <1>1, <1>11
<1>. QED BY <1>11, <1>12, <1>13

(* advance_past_bypass returns the first height worth fetching from the    *)
(* cursor on, and nothing only where there is none.                        *)
LEMMA AdvanceFindsFirst ==
    ASSUME NEW plan \in Plans, NEW h \in Height, NEW ceiling \in Height
    PROVE  LET p == AdvancePastBypass(plan, h, ceiling)
           IN  /\ p \in Height \union {NoHeight}
               /\ p # NoHeight =>
                     /\ h <= p /\ p <= ceiling /\ ~IsBypassed(plan, p)
                     /\ \A k \in h..(p - 1) : IsBypassed(plan, k)
               /\ p = NoHeight => \A k \in h..ceiling : IsBypassed(plan, k)
<1>. USE MaxU64Assumption DEF Height, NoHeight
<1>. DEFINE last == Hops(plan, h)[Len(plan)]
<1>1. Len(plan) \in 0..Len(plan)
  BY DEF Plans
<1>2. /\ last \in Height \union {NoHeight}
      /\ last # NoHeight => h <= last
      /\ \A k \in Height : h <= k /\ (last = NoHeight \/ k < last) => IsBypassed(plan, k)
  BY <1>1, HopsPassBypassed
<1>3. last # NoHeight => ~IsBypassed(plan, last)
  BY HopsSuffice
<1>. HIDE DEF last
<1>4. last # NoHeight => \A k \in h..(last - 1) : IsBypassed(plan, k)
  <2>1. last # NoHeight => \A k \in h..(last - 1) : k \in Height /\ h <= k /\ k < last
    BY <1>2
  <2>. QED BY <1>2, <2>1
<1>5. last = NoHeight \/ last > ceiling => \A k \in h..ceiling : IsBypassed(plan, k)
  <2>1. last = NoHeight \/ last > ceiling =>
            \A k \in h..ceiling : k \in Height /\ h <= k /\ (last = NoHeight \/ k < last)
    BY <1>2
  <2>. QED BY <1>2, <2>1
<1>6. AdvancePastBypass(plan, h, ceiling) =
        IF last # NoHeight /\ ~IsBypassed(plan, last) /\ last <= ceiling THEN last ELSE NoHeight
  BY DEF AdvancePastBypass, last
<1>. QED BY <1>2, <1>3, <1>4, <1>5, <1>6

(* A batch begins at the first height worth fetching and exceeds neither   *)
(* the budget, nor the safe head, nor the end of the range; it stops       *)
(* earlier only before a bypassed height, and there is no batch only when  *)
(* there is nothing to fetch (RangePlan::next_batch).                      *)
THEOREM NextBatchIsExact ==
    ASSUME NEW plan \in Plans, NEW next \in Height, NEW head \in Height, NEW size \in Nat,
           NEW end \in Height \union {NoHeight}
    PROVE  LET b == NextBatch(plan, next, head, size, end)
           IN  /\ b.start \in Nat /\ b.end \in Nat
               /\ ~IsNone(b) =>
                     /\ next <= b.start /\ b.start <= b.end /\ b.end <= head
                     /\ end # NoHeight => b.end <= end
                     /\ b.end - b.start + 1 <= size
                     /\ \A k \in next..(b.start - 1) : IsBypassed(plan, k)
                     /\ \A k \in b.start..b.end : ~IsBypassed(plan, k)
                     /\ b.end - b.start + 1 = size \/ b.end = head \/ b.end = end
                            \/ IsBypassed(plan, b.end + 1)
               /\ IsNone(b) =>
                     \/ size = 0
                     \/ \A k \in next..head : end = NoHeight \/ k <= end => IsBypassed(plan, k)
<1>. USE MaxU64Assumption
<1>. DEFINE ceiling == IF end = NoHeight THEN head ELSE Least(head, end)
            start   == AdvancePastBypass(plan, next, ceiling)
            spanEnd == Least(SatAdd(start, size - 1), ceiling)
            cuts    == {plan[i].start - 1 : i \in {j \in DOMAIN plan :
                            plan[j].start > start /\ plan[j].start <= spanEnd}}
            b       == NextBatch(plan, next, head, size, end)
<1>1. /\ ceiling \in Height /\ ceiling <= head
      /\ end # NoHeight => ceiling <= end
      /\ ceiling = head \/ (ceiling = end /\ end # NoHeight)
  BY DEF Height, NoHeight, Least
<1>. HIDE DEF ceiling
<1>2. /\ start \in Height \union {NoHeight}
      /\ start # NoHeight =>
            /\ next <= start /\ start <= ceiling /\ ~IsBypassed(plan, start)
            /\ \A k \in next..(start - 1) : IsBypassed(plan, k)
      /\ start = NoHeight => \A k \in next..ceiling : IsBypassed(plan, k)
  BY <1>1, AdvanceFindsFirst
<1>. HIDE DEF start
<1>3. b = IF size = 0 \/ next > ceiling \/ start = NoHeight THEN NoRange
          ELSE BlockRange(start, IF cuts = {} THEN spanEnd ELSE Min(cuts))
  BY DEF NextBatch, ceiling, start
<1>4. CASE size = 0 \/ next > ceiling \/ start = NoHeight
  <2>1. b.start = 1 /\ b.end = 0
    BY <1>3, <1>4 DEF NoRange, BlockRange
  <2>2. size = 0 \/ \A k \in next..ceiling : IsBypassed(plan, k)
    BY <1>1, <1>2, <1>4 DEF Height
  <2>3. \A k \in next..head : end = NoHeight \/ k <= end => k \in next..ceiling
    BY <1>1 DEF Height, NoHeight
  <2>. HIDE DEF b
  <2>. QED BY <2>1, <2>2, <2>3 DEF IsNone, b
<1>5. CASE ~(size = 0 \/ next > ceiling \/ start = NoHeight)
  <2>1. /\ start \in Nat /\ start <= spanEnd /\ spanEnd <= ceiling /\ spanEnd \in Nat
        /\ spanEnd - start + 1 <= size
        /\ spanEnd - start + 1 = size \/ spanEnd = ceiling
    BY <1>1, <1>2, <1>5 DEF Height, Least, SatAdd, NoHeight
  <2>. HIDE DEF spanEnd
  <2>2. \A j \in DOMAIN plan : /\ plan[j].start \in Nat /\ plan[j].end \in Nat
                               /\ plan[j].start <= plan[j].end
    <3>1. DOMAIN plan = 1..Len(plan)
      BY DEF Plans
    <3>2. \A j \in DOMAIN plan : /\ plan[j] \in [start : Height, end : Height]
                                 /\ plan[j].start <= plan[j].end
      BY <3>1, ElementOfSeq DEF Plans
    <3>. QED BY <3>2 DEF Height
  <2>3. cuts \in SUBSET Nat /\ \A c \in cuts : start <= c /\ c <= spanEnd
    BY <2>1, <2>2
  <2>4. cuts # {} => Min(cuts) \in cuts /\ \A c \in cuts : Min(cuts) <= c
    BY <2>3, LeastNatural DEF Min
  <2>. DEFINE stop == IF cuts = {} THEN spanEnd ELSE Min(cuts)
  <2>5. /\ stop \in Nat /\ start <= stop /\ stop <= spanEnd
        /\ \A c \in cuts : stop <= c
    BY <2>1, <2>3, <2>4
  <2>6. b.start = start /\ b.end = stop
    BY <1>3, <1>5 DEF BlockRange
  <2>7. ASSUME NEW k \in start..stop, IsBypassed(plan, k)
        PROVE  FALSE
    <3>1. PICK j \in DOMAIN plan : Contains(plan[j], k)
      BY <2>7 DEF IsBypassed
    <3>2. CASE plan[j].start <= start
      <4>1. Contains(plan[j], start)
        BY <2>1, <2>2, <2>5, <3>1, <3>2 DEF Contains
      <4>. QED BY <1>2, <1>5, <4>1 DEF IsBypassed
    <3>3. CASE plan[j].start > start
      <4>. HIDE DEF stop
      <4>1. plan[j].start <= k /\ k <= stop /\ k \in Int
        BY <2>1, <2>5, <3>1 DEF Contains
      <4>2. plan[j].start <= spanEnd
        BY <2>1, <2>2, <2>5, <4>1
      <4>3. plan[j].start - 1 \in cuts
        BY <3>3, <4>2
      <4>4. stop <= plan[j].start - 1
        BY <2>5, <4>3
      <4>. QED BY <2>2, <2>5, <4>1, <4>4
    <3>. QED BY <2>1, <2>2, <3>2, <3>3
  <2>8. stop = spanEnd \/ IsBypassed(plan, stop + 1)
    <3>. SUFFICES ASSUME cuts # {} PROVE IsBypassed(plan, stop + 1)
      OBVIOUS
    <3>1. PICK j \in DOMAIN plan : stop = plan[j].start - 1
      BY <2>4
    <3>. HIDE DEF stop
    <3>2. Contains(plan[j], stop + 1)
      BY <2>2, <3>1 DEF Contains
    <3>. QED BY <3>2 DEF IsBypassed
  <2>. HIDE DEF stop, cuts, b
  <2>9. b.start \in Nat /\ b.end \in Nat /\ ~IsNone(b)
    BY <2>1, <2>5, <2>6 DEF IsNone
  <2>10. /\ b.end - b.start + 1 <= size
         /\ b.end <= head
         /\ end # NoHeight => b.end <= end
    BY <1>1, <2>1, <2>5, <2>6 DEF Height
  <2>11. \/ b.end - b.start + 1 = size \/ b.end = head \/ b.end = end
         \/ IsBypassed(plan, b.end + 1)
    BY <1>1, <2>1, <2>6, <2>8
  <2>. QED BY <1>2, <1>5, <2>5, <2>6, <2>7, <2>9, <2>10, <2>11 DEF b
<1>. QED BY <1>4, <1>5

(* Where nothing is bypassed, heights_in lists the whole span.             *)
THEOREM HeightsInWhole ==
    ASSUME NEW plan, NEW r, r.start \in Int, r.end \in Int, r.start <= r.end,
           \A k \in r.start..r.end : ~IsBypassed(plan, k)
    PROVE  HeightsIn(plan, r) = [i \in 1..(r.end - r.start + 1) |-> r.start + i - 1]
<1>. DEFINE n == r.end - r.start + 1
            upto(i) == [j \in 1..i |-> r.start + j - 1]
            body(f, i) == IF i = 0 THEN <<>>
                          ELSE IF IsBypassed(plan, r.start + i - 1) THEN f[i-1]
                          ELSE Append(f[i-1], r.start + i - 1)
            Unfolds(f) == f = [i \in 0..n |-> body(f, i)]
            f1 == [i \in 0..n |-> upto(i)]
            kept == Kept(plan, r)
<1>1. n \in Nat /\ n = Greatest(0, r.end - r.start + 1)
  BY DEF Greatest
<1>. HIDE DEF n
<1>2. \A i \in 0..n : upto(i) \in Seq(Int) /\ Len(upto(i)) = i
  BY <1>1
<1>3. \A i \in 1..n : ~IsBypassed(plan, r.start + i - 1)
  BY <1>1 DEF n
<1>4. ASSUME NEW i \in 1..n
      PROVE  upto(i) = Append(upto(i-1), r.start + i - 1)
  <2>. DEFINE s == upto(i-1)
              t == Append(s, r.start + i - 1)
  <2>1. i - 1 \in 0..n /\ i \in 0..n
    BY <1>1
  <2>2. s \in Seq(Int) /\ Len(s) = i - 1
    BY <1>2, <2>1
  <2>3. /\ t \in Seq(Int) /\ Len(t) = i
        /\ \A j \in 1..(i-1) : t[j] = s[j]
        /\ t[i] = r.start + i - 1
    <3>. HIDE DEF s
    <3>1. r.start + i - 1 \in Int
      BY <1>1
    <3>. QED BY <1>1, <2>2, <3>1, AppendProperties
  <2>4. \A j \in 1..i : t[j] = upto(i)[j]
    BY <1>1, <2>3
  <2>. QED BY <1>2, <2>1, <2>3, <2>4, SeqEqual
<1>5. upto(0) = <<>>
  BY <1>1, <1>2, EmptySeq, SeqEqual
<1>. HIDE DEF upto
<1>6. Unfolds(f1)
  BY <1>1, <1>3, <1>4, <1>5
<1>7. kept = CHOOSE f : Unfolds(f)
  BY <1>1 DEF Kept
<1>8. Unfolds(kept)
  BY <1>6, <1>7
<1>. HIDE DEF kept
<1>9. kept[n] = upto(n)
  <2>. DEFINE Bad == {i \in 0..n : kept[i] # upto(i)}
  <2>1. Bad \in SUBSET Nat
    BY <1>1
  <2>2. Bad = {}
    <3>. SUFFICES ASSUME Bad # {} PROVE FALSE
      OBVIOUS
    <3>1. PICK i \in Bad : \A m \in Bad : i <= m
      BY <2>1, LeastNatural
    <3>2. kept[0] = <<>>
      BY <1>1, <1>8
    <3>3. i \in 1..n
      BY <1>1, <1>5, <3>1, <3>2
    <3>4. kept[i-1] = upto(i-1)
      BY <1>1, <3>1, <3>3
    <3>5. kept[i] = Append(kept[i-1], r.start + i - 1)
      <4>. HIDE DEF body
      <4>1. kept[i] = body(kept, i)
        BY <1>1, <1>8, <3>3
      <4>2. body(kept, i) = Append(kept[i-1], r.start + i - 1)
        BY <1>1, <1>3, <3>3 DEF body
      <4>. QED BY <4>1, <4>2
    <3>. QED BY <1>4, <3>1, <3>3, <3>4, <3>5
  <2>. QED BY <1>1, <2>2
<1>. QED BY <1>1, <1>9 DEF HeightsIn, kept, upto, n

(* No heights are listed where there is no batch.                          *)
LEMMA HeightsInNone ==
    ASSUME NEW plan, NEW r, r.start \in Int, r.end \in Int, IsNone(r)
    PROVE  HeightsIn(plan, r) = <<>>
<1>. DEFINE body(f, i) == IF i = 0 THEN <<>>
                          ELSE IF IsBypassed(plan, r.start + i - 1) THEN f[i-1]
                          ELSE Append(f[i-1], r.start + i - 1)
            Unfolds(f) == f = [i \in 0..0 |-> body(f, i)]
            f0 == [i \in 0..0 |-> <<>>]
            kept == Kept(plan, r)
<1>1. Greatest(0, r.end - r.start + 1) = 0
  BY DEF IsNone, Greatest
<1>2. Unfolds(f0)
  OBVIOUS
<1>3. kept = CHOOSE f : Unfolds(f)
  BY <1>1 DEF Kept
<1>4. Unfolds(kept)
  BY <1>2, <1>3
<1>. HIDE DEF kept
<1>5. kept[0] = <<>>
  BY <1>4
<1>. QED BY <1>1, <1>5 DEF HeightsIn, kept

(* Without bypassed spans a batch lists the heights from the cursor on, up *)
(* to the safe head, and there is none only past the head or the end.      *)
THEOREM PlainBatchIsExact ==
    ASSUME NEW next \in Height, NEW head \in Height, NEW size \in Nat,
           NEW end \in Height \union {NoHeight}
    PROVE  LET b  == NextBatch(<<>>, next, head, size, end)
               hs == HeightsIn(<<>>, b)
           IN  /\ IsNone(b) => size = 0 \/ next > head \/ (end # NoHeight /\ next > end)
               /\ hs \in Seq(Height) /\ DOMAIN hs = 1..Len(hs)
               /\ \A i \in DOMAIN hs : hs[i] = next + i - 1 /\ hs[i] <= head
<1>. USE MaxU64Assumption DEF Height
<1>. DEFINE b  == NextBatch(<<>>, next, head, size, end)
            hs == HeightsIn(<<>>, b)
<1>1. \A k : ~IsBypassed(<<>>, k)
  BY DEF IsBypassed
<1>2. <<>> \in Plans
  BY EmptySeq DEF Plans
<1>3. /\ b.start \in Nat /\ b.end \in Nat
      /\ ~IsNone(b) => /\ next <= b.start /\ b.start <= b.end /\ b.end <= head
                       /\ \A k \in next..(b.start - 1) : IsBypassed(<<>>, k)
      /\ IsNone(b) => \/ size = 0
                      \/ \A k \in next..head : end = NoHeight \/ k <= end => IsBypassed(<<>>, k)
  BY <1>2, NextBatchIsExact
<1>. HIDE DEF b, hs
<1>4. CASE IsNone(b)
  <2>1. hs = <<>>
    BY <1>3, <1>4, HeightsInNone DEF hs
  <2>2. hs \in Seq(Height) /\ Len(hs) = 0 /\ DOMAIN hs = 1..Len(hs)
    BY <2>1, EmptySeq
  <2>3. size = 0 \/ next > head \/ (end # NoHeight /\ next > end)
    <3>. SUFFICES ASSUME size # 0, next <= head, end = NoHeight \/ next <= end PROVE FALSE
      BY DEF NoHeight
    <3>1. next \in next..head
      OBVIOUS
    <3>. QED BY <1>1, <1>3, <1>4, <3>1
  <2>. QED BY <2>2, <2>3 DEF b, hs
<1>5. CASE ~IsNone(b)
  <2>1. b.start = next /\ b.start <= b.end /\ b.end <= head
    <3>1. ~(next <= b.start - 1)
      <4>. SUFFICES ASSUME next <= b.start - 1 PROVE FALSE
        OBVIOUS
      <4>1. next \in next..(b.start - 1)
        BY <1>3
      <4>. QED BY <1>1, <1>3, <1>5, <4>1
    <3>. QED BY <1>3, <1>5, <3>1
  <2>2. hs = [i \in 1..(b.end - b.start + 1) |-> b.start + i - 1]
    <3>1. b.start \in Int /\ b.end \in Int /\ \A k \in b.start..b.end : ~IsBypassed(<<>>, k)
      BY <1>1, <1>3
    <3>. QED BY ONLY <2>1, <3>1, HeightsInWhole DEF hs
  <2>. DEFINE m == b.end - b.start + 1
  <2>3. m \in Nat /\ \A i \in 1..m : next + i - 1 \in Height /\ next + i - 1 <= head
    BY <1>3, <2>1
  <2>4. hs = [i \in 1..m |-> next + i - 1]
    BY <2>1, <2>2
  <2>. HIDE DEF m
  <2>5. hs \in Seq(Height) /\ Len(hs) = m /\ DOMAIN hs = 1..m
    BY <2>3, <2>4
  <2>. QED BY <1>5, <2>3, <2>4, <2>5 DEF b, hs
<1>. QED BY <1>4, <1>5
(* The recursive function behind HeightsIn exists.                         *)
LEMMA KeptUnfold ==
    ASSUME NEW plan, NEW r, NEW n \in Nat, n = Greatest(0, r.end - r.start + 1)
    PROVE  Kept(plan, r) = [i \in 0..n |->
                IF i = 0 THEN <<>>
                ELSE IF IsBypassed(plan, r.start + i - 1) THEN Kept(plan, r)[i-1]
                ELSE Append(Kept(plan, r)[i-1], r.start + i - 1)]
<1>. DEFINE turn(f, i) == IF i = 0 THEN <<>>
                          ELSE IF IsBypassed(plan, r.start + i - 1) THEN f[i-1]
                          ELSE Append(f[i-1], r.start + i - 1)
            Unfolds(f, m) == f = [i \in 0..m |-> turn(f, i)]
            Bad == {m \in Nat : ~ \E f : Unfolds(f, m)}
<1>1. Bad = {}
  <2>. SUFFICES ASSUME Bad # {} PROVE FALSE
    OBVIOUS
  <2>1. PICK m \in Bad : \A l \in Bad : m <= l
    BY LeastNatural
  <2>2. m # 0
    <3>1. Unfolds([i \in 0..0 |-> <<>>], 0)
      OBVIOUS
    <3>. QED BY <3>1
  <2>3. m - 1 \in Nat /\ m - 1 \notin Bad
    <3>. HIDE DEF Unfolds
    <3>. QED BY <2>1, <2>2
  <2>4. PICK f : Unfolds(f, m - 1)
    BY <2>3
  <2>. DEFINE g == [i \in 0..m |-> IF i = m THEN turn(f, m) ELSE f[i]]
  <2>5. Unfolds(g, m)
    <3>1. \A i \in 0..m : i # 0 => i - 1 \in 0..(m - 1) /\ g[i-1] = f[i-1]
      BY <2>2, <2>3
    <3>2. \A i \in 0..m : turn(g, i) = turn(f, i)
      BY <3>1
    <3>3. \A i \in 0..m : g[i] = turn(f, i)
      <4>. HIDE DEF turn
      <4>1. \A i \in 0..m : g[i] = IF i = m THEN turn(f, m) ELSE f[i]
        OBVIOUS
      <4>2. \A i \in 0..m : i # m => i \in 0..(m - 1)
        BY <2>3
      <4>3. \A i \in 0..(m - 1) : f[i] = turn(f, i)
        BY <2>4
      <4>. HIDE DEF g
      <4>. QED BY <4>1, <4>2, <4>3
    <3>4. g = [i \in 0..m |-> turn(f, i)]
      <4>. HIDE DEF turn
      <4>. QED BY <3>3
    <3>5. [i \in 0..m |-> turn(f, i)] = [i \in 0..m |-> turn(g, i)]
      <4>. HIDE DEF turn, g
      <4>. QED BY <3>2
    <3>. QED BY <3>4, <3>5
  <2>. QED BY <2>1, <2>5
<1>2. PICK f : Unfolds(f, n)
  BY <1>1
<1>3. Kept(plan, r) = CHOOSE g : Unfolds(g, n)
  BY DEF Kept
<1>. QED BY <1>2, <1>3

(* heights_in lists, in ascending order, the heights of a span that are    *)
(* not bypassed, and all of them, for any plan and any span.               *)
THEOREM HeightsInExact ==
    ASSUME NEW plan, NEW r, r.start \in Nat, r.end \in Nat
    PROVE  LET hs == HeightsIn(plan, r)
           IN  /\ hs \in Seq(Nat)
               /\ \A i \in DOMAIN hs : Contains(r, hs[i]) /\ ~IsBypassed(plan, hs[i])
               /\ \A i, j \in DOMAIN hs : i < j => hs[i] < hs[j]
               /\ \A h \in r.start..r.end : ~IsBypassed(plan, h) => \E i \in DOMAIN hs : hs[i] = h
<1>. DEFINE n == Greatest(0, r.end - r.start + 1)
            a == r.start
            kept == Kept(plan, r)
            Lists(hs, i) == /\ hs \in Seq(Nat)
                            /\ \A j \in DOMAIN hs : /\ a <= hs[j] /\ hs[j] < a + i
                                                    /\ ~IsBypassed(plan, hs[j])
                            /\ \A j, k \in DOMAIN hs : j < k => hs[j] < hs[k]
                            /\ \A h \in a..(a + i - 1) :
                                  ~IsBypassed(plan, h) => \E j \in DOMAIN hs : hs[j] = h
<1>1. n \in Nat /\ a \in Nat
  BY DEF Greatest
<1>. DEFINE turn(i) == IF i = 0 THEN <<>>
                       ELSE IF IsBypassed(plan, a + i - 1) THEN kept[i-1]
                       ELSE Append(kept[i-1], a + i - 1)
<1>2. kept = [i \in 0..n |-> turn(i)]
  <2>. HIDE DEF n
  <2>1. n = Greatest(0, r.end - r.start + 1)
    BY DEF n
  <2>. QED BY <1>1, <2>1, KeptUnfold
<1>3. n = 0 => r.end < r.start
  BY DEF Greatest
<1>4. n # 0 => r.end = a + n - 1
  BY DEF Greatest
<1>. HIDE DEF n, a, kept
<1>5. Lists(kept[0], 0)
  <2>1. kept[0] = <<>>
    BY <1>1, <1>2
  <2>2. <<>> \in Seq(Nat) /\ DOMAIN <<>> = {}
    BY EmptySeq
  <2>3. a..(a + 0 - 1) = {}
    BY <1>1
  <2>. QED BY <2>1, <2>2, <2>3
<1>6. ASSUME NEW i \in 1..n, Lists(kept[i-1], i - 1)
      PROVE  Lists(kept[i], i)
  <2>. DEFINE hs == kept[i-1]
              h  == a + i - 1
  <2>1. h \in Nat /\ i \in Nat /\ i >= 1
    BY <1>1
  <2>2. kept[i] = IF IsBypassed(plan, h) THEN hs ELSE Append(hs, h)
    <3>1. kept[i] = turn(i)
      <4>. HIDE DEF turn
      <4>. QED BY <1>1, <1>2
    <3>. QED BY <2>1, <3>1
  <2>3. hs \in Seq(Nat) /\ Len(hs) \in Nat /\ DOMAIN hs = 1..Len(hs)
    BY <1>6, LenProperties
  <2>4. \A j \in DOMAIN hs : hs[j] \in Nat /\ a <= hs[j] /\ hs[j] < h /\ ~IsBypassed(plan, hs[j])
    <3>1. a + (i - 1) = h
      BY <1>1
    <3>2. \A j \in DOMAIN hs : a <= hs[j] /\ hs[j] < a + (i - 1) /\ ~IsBypassed(plan, hs[j])
      BY <1>6
    <3>3. \A j \in DOMAIN hs : hs[j] \in Nat
      BY <2>3
    <3>. QED BY <3>1, <3>2, <3>3
  <2>5. \A j, k \in DOMAIN hs : j < k => hs[j] < hs[k]
    BY <1>6
  <2>6. \A k \in a..(a + i - 1) : k = h \/ k \in a..(a + (i - 1) - 1)
    BY <1>1
  <2>7. \A k \in a..(a + (i - 1) - 1) : ~IsBypassed(plan, k) => \E j \in DOMAIN hs : hs[j] = k
    BY <1>6
  <2>8. h < a + i /\ a <= h
    BY <1>1
  <2>. HIDE DEF hs, h
  <2>9. CASE IsBypassed(plan, h)
    <3>1. \A j \in DOMAIN hs : hs[j] < a + i
      BY <1>1, <2>1, <2>4, <2>8
    <3>2. \A k \in a..(a + i - 1) : ~IsBypassed(plan, k) => \E j \in DOMAIN hs : hs[j] = k
      BY <2>6, <2>7, <2>9
    <3>. QED BY <2>2, <2>3, <2>4, <2>5, <2>9, <3>1, <3>2
  <2>10. CASE ~IsBypassed(plan, h)
    <3>. DEFINE t == Append(hs, h)
                l == Len(hs)
    <3>1. /\ t \in Seq(Nat) /\ Len(t) = l + 1
          /\ \A j \in 1..l : t[j] = hs[j]
          /\ t[l + 1] = h
      BY <2>1, <2>3, AppendProperties
    <3>2. DOMAIN t = 1..(l + 1) /\ l \in Nat
      BY <2>3, <3>1, LenProperties
    <3>. HIDE DEF t, l
    <3>3. \A j \in DOMAIN t : j = l + 1 \/ (j \in DOMAIN hs /\ t[j] = hs[j])
      BY <2>3, <3>1, <3>2 DEF l
    <3>4. \A j \in DOMAIN t : a <= t[j] /\ t[j] < a + i /\ ~IsBypassed(plan, t[j])
      BY <1>1, <2>1, <2>4, <2>8, <2>10, <3>1, <3>3
    <3>5. \A j, k \in DOMAIN t : j < k => t[j] < t[k]
      <4>. SUFFICES ASSUME NEW j \in DOMAIN t, NEW k \in DOMAIN t, j < k PROVE t[j] < t[k]
        OBVIOUS
      <4>1. j \in DOMAIN hs /\ t[j] = hs[j]
        BY <3>2, <3>3
      <4>. QED BY <2>4, <2>5, <3>1, <3>3, <4>1
    <3>6. \A k \in a..(a + i - 1) : ~IsBypassed(plan, k) => \E j \in DOMAIN t : t[j] = k
      <4>. SUFFICES ASSUME NEW k \in a..(a + i - 1), ~IsBypassed(plan, k)
                    PROVE  \E j \in DOMAIN t : t[j] = k
        OBVIOUS
      <4>1. CASE k = h
        BY <3>1, <3>2, <4>1
      <4>2. CASE k # h
        <5>1. PICK j \in DOMAIN hs : hs[j] = k
          BY <2>6, <2>7, <4>2
        <5>. QED BY <2>3, <3>1, <3>2, <5>1 DEF l
      <4>. QED BY <4>1, <4>2
    <3>. QED BY <2>2, <2>10, <3>1, <3>4, <3>5, <3>6 DEF t
  <2>. QED BY <2>9, <2>10
<1>. HIDE DEF Lists
<1>7. Lists(kept[n], n)
  <2>. DEFINE Bad == {i \in 0..n : ~Lists(kept[i], i)}
  <2>1. Bad \in SUBSET Nat
    BY <1>1
  <2>2. Bad = {}
    <3>. SUFFICES ASSUME Bad # {} PROVE FALSE
      OBVIOUS
    <3>1. PICK i \in Bad : \A m \in Bad : i <= m
      BY <2>1, LeastNatural
    <3>2. i \in 1..n
      BY <1>1, <1>5, <3>1
    <3>3. i - 1 \in 0..n /\ i - 1 \notin Bad
      BY <1>1, <3>1, <3>2
    <3>. QED BY <1>6, <3>1, <3>2, <3>3
  <2>. QED BY <1>1, <2>2
<1>8. HeightsIn(plan, r) = kept[n]
  BY DEF HeightsIn, kept, n
<1>. DEFINE hs == kept[n]
<1>. HIDE DEF hs
<1>9. /\ hs \in Seq(Nat)
      /\ \A j \in DOMAIN hs : a <= hs[j] /\ hs[j] < a + n /\ ~IsBypassed(plan, hs[j])
      /\ \A j, k \in DOMAIN hs : j < k => hs[j] < hs[k]
      /\ \A h \in a..(a + n - 1) : ~IsBypassed(plan, h) => \E j \in DOMAIN hs : hs[j] = h
  BY <1>7 DEF Lists, hs
<1>10. \A j \in DOMAIN hs : hs[j] \in Nat
  BY <1>9
<1>11. \A j \in DOMAIN hs : a <= hs[j] /\ hs[j] <= r.end
  <2>1. n # 0 \/ DOMAIN hs = {}
    BY <1>1, <1>9, <1>10
  <2>. QED BY <1>1, <1>4, <1>9, <1>10, <2>1
<1>12. a..r.end \subseteq a..(a + n - 1)
  BY <1>1, <1>3, <1>4 DEF a
<1>. QED BY <1>8, <1>9, <1>11, <1>12 DEF Contains, a, hs
=============================================================================
