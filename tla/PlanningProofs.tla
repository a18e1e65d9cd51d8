---------------------------- MODULE PlanningProofs ----------------------------
(* What is planned for every request: the subnets that are handed out (SubnetAllocators), the
   flows of traffic (TrafficFlows), the scripts of previews and runs (PreviewScripts) and the
   rules that segment a topology (Segmentation). Each theorem follows from an inductive
   invariant of its part (TInv, FlowsInv, ScriptsInv, SegmentInv); there is one lemma for
   each action. *)
EXTENDS GenerationParts, SubnetAllocators, FiniteSetTheorems, SequenceTheorems,
        WellFoundedInduction, TLAPS

\* A set of numbers has a least element.
LEMMA LeastNatural ==
  ASSUME NEW T, T \subseteq Nat, T # {}
  PROVE  \E n \in T : \A m \in T : n <= m
<1>1. PICK n \in T : \A m \in T : ~(<<m, n>> \in OpToRel(<, Nat))
  BY NatLessThanWellFounded, WFMin
<1>2. \A m \in T : ~(m < n)
  BY <1>1 DEF OpToRel
<1> QED BY <1>2

-----------------------------------------------------------------------------
(* Allocators of subnets: for every size of a /24 and all pools, the subnets handed out are
   apart and lie in the pools, the scan misses none that is free, and the pools take turns. *)

USE DEF Multiple

\* What one allocator has handed out is what it has marked, at multiples of a /24.
Marked == given = taken /\ \A a \in taken : Multiple(a, Slot)

IInv == TypeOK /\ Marked /\ Disjoint

\* Multiples of a multiple.
LEMMA MultipleOfMultiple ==
  ASSUME NEW a \in Nat, NEW b \in Nat, NEW c \in Nat \ {0}, Multiple(a, b), Multiple(b, c)
  PROVE  Multiple(a, c)
<1>1. PICK k \in 0..a : a = k * b
  OBVIOUS
<1>2. PICK l \in 0..b : b = l * c
  OBVIOUS
<1>3. /\ k \in Nat /\ l \in Nat /\ k * l \in Nat
      /\ a = (k * l) * c
  BY <1>1, <1>2
<1>4. PICK n \in Nat : n = k * l
  BY <1>3
<1>5. a = n * c /\ n <= n * c
  BY <1>3, <1>4
<1>6. n \in 0..a
  BY <1>4, <1>5
<1> QED
  BY <1>5, <1>6

LEMMA NextMultiple ==
  ASSUME NEW m \in Nat, NEW n \in Nat, m < n
  PROVE  m * Slot + Slot <= n * Slot
<1>1. Slot \in Nat \ {0}
  BY SlotAssumption
<1>2. PICK d \in Nat : n = m + 1 + d
  <2>1. n - (m + 1) \in Nat /\ n = m + 1 + (n - (m + 1))
    OBVIOUS
  <2> QED BY <2>1
<1>3. n * Slot = m * Slot + Slot + d * Slot
  BY <1>1, <1>2
<1>4. d * Slot \in Nat /\ m * Slot \in Nat
  BY <1>1
<1> QED BY <1>1, <1>3, <1>4

\* Two different multiples of a /24 begin /24s that share no address.
LEMMA MultiplesApart ==
  ASSUME NEW a \in Nat, NEW b \in Nat, Multiple(a, Slot), Multiple(b, Slot), a # b
  PROVE  Apart(a, b)
<1>1. PICK k \in 0..a : a = k * Slot
  OBVIOUS
<1>2. PICK l \in 0..b : b = l * Slot
  OBVIOUS
<1>3. Slot \in Nat \ {0} /\ k \in Nat /\ l \in Nat
  BY SlotAssumption
<1>4. ASSUME NEW m \in Nat, NEW n \in Nat, m < n
      PROVE  m * Slot + Slot <= n * Slot
  BY <1>4, NextMultiple
<1>5. k < l \/ l < k
  BY <1>1, <1>2, <1>3
<1> QED
  BY <1>1, <1>2, <1>3, <1>4, <1>5 DEF Apart

\* Every slot of a pool is a multiple of a /24.
LEMMA SlotsAreMultiples ==
  ASSUME NEW p \in Networks, NEW a \in SlotsOf(p)
  PROVE  a \in Nat /\ Multiple(a, Slot)
<1>1. /\ Slot \in Nat \ {0} /\ p.start \in Nat /\ p.len \in Nat \ {0}
      /\ Multiple(p.start, p.len)
  BY SlotAssumption, NetworksAssumption
<1>2. Wide(p)
  BY DEF SlotsOf
<1>3. Multiple(p.len, Slot)
  <2>1. ~(p.len < Slot)
    BY <1>1, <1>2 DEF Wide
  <2> QED
    BY <2>1, NetworksAssumption
<1>4. Multiple(p.start, Slot)
  BY <1>1, <1>3, MultipleOfMultiple
<1>5. PICK m \in 0..p.start : p.start = m * Slot
  BY <1>4
<1>6. p.len \div Slot \in Nat
  BY <1>1
<1>7. PICK k \in 0..(p.len \div Slot - 1) : a = p.start + k * Slot
  BY <1>2 DEF SlotsOf
<1>8. k \in Nat /\ m \in Nat /\ m + k \in Nat
  BY <1>1, <1>5, <1>6, <1>7
<1>9. a = (m + k) * Slot
  BY <1>1, <1>5, <1>7, <1>8
<1>10. ASSUME NEW n \in Nat
       PROVE  n * Slot \in Nat /\ n <= n * Slot
  BY <1>1
<1> QED
  BY <1>8, <1>9, <1>10

\* Handing out an untaken multiple of a /24 keeps everything apart.
LEMMA GrantKeepsApart ==
  ASSUME IInv, NEW a \in Nat, a \notin taken, Multiple(a, Slot), Grant(a)
  PROVE  /\ taken' \subseteq Nat /\ given' \subseteq Nat
         /\ answer' \in {"none", "subnet", "ValueError", "RuntimeError"}
         /\ Marked' /\ Disjoint' /\ clash' \in BOOLEAN
<1>1. /\ given' = given \cup {a} /\ taken' = taken \cup {a} /\ answer' = "subnet"
      /\ clash' = (clash \/ \E b \in given : ~Apart(a, b))
  BY DEF Grant, Gives
<1>2. \A b \in given : Apart(a, b)
  BY MultiplesApart DEF IInv, TypeOK, Marked
<1>3. Marked'
  BY <1>1 DEF IInv, Marked
<1>4. clash' = FALSE
  BY <1>1, <1>2 DEF IInv, Disjoint, TypeOK
<1> QED
  BY <1>1, <1>3, <1>4 DEF IInv, TypeOK, Disjoint

\* The rotation keeps a nonempty sequence of networks.
LEMMA RotatedIsPools ==
  ASSUME pools \in Seq(Networks) \ {<<>>}, NEW i \in 1..Len(pools)
  PROVE  Rotated(i) \in Seq(Networks) \ {<<>>}
<1>1. SubSeq(pools, i + 1, Len(pools)) \in Seq(Networks)
  OBVIOUS
<1>2. SubSeq(pools, 1, i) \in Seq(Networks) /\ Len(SubSeq(pools, 1, i)) = i
  OBVIOUS
<1>3. Rotated(i) \in Seq(Networks) /\ Len(Rotated(i)) >= i
  BY <1>1, <1>2 DEF Rotated
<1> QED
  BY <1>3

LEMMA InitIInv == Init => IInv
<1> SUFFICES ASSUME Init PROVE IInv
  OBVIOUS
<1>1. PICK n \in 1..MaxPools : pools \in [1..n -> Networks]
  BY DEF Init
<1>2. pools \in Seq(Networks) \ {<<>>}
  BY <1>1
<1>3. \A s \in Starts : s \in Nat
  BY NetworksAssumption DEF Starts
<1>4. next \in [Starts -> Nat]
  BY <1>3 DEF Init
<1> QED
  BY <1>2, <1>4 DEF Init, IInv, TypeOK, Marked, Disjoint

LEMMA NextIInv == IInv /\ [Next]_vars => IInv'
<1> SUFFICES ASSUME IInv, [Next]_vars PROVE IInv'
  OBVIOUS
<1>1. CASE NextSubnet
  <2>1. PICK i \in 1..Len(pools), p \in Pools :
          /\ Reached(i) /\ p = pools[i]
          /\ \E a \in {Tried(p)[k] : k \in DOMAIN Tried(p)} :
               /\ StopsAt(p, a) /\ Multiple(a, Slot)
               /\ Grant(a)
               /\ next' = [next EXCEPT ![p.start] = a + Slot]
               /\ pools' = Rotated(i)
               /\ since' = [q \in Networks |-> IF q = p THEN {} ELSE since[q] \cup {p}]
               /\ skipped' = (skipped \/ TooEarly(i))
    BY <1>1 DEF NextSubnet
  <2>2. PICK a :
          /\ StopsAt(p, a) /\ Multiple(a, Slot)
          /\ Grant(a)
          /\ next' = [next EXCEPT ![p.start] = a + Slot]
          /\ pools' = Rotated(i)
          /\ since' = [q \in Networks |-> IF q = p THEN {} ELSE since[q] \cup {p}]
          /\ skipped' = (skipped \/ TooEarly(i))
    BY <2>1
  <2>3. a \in Nat
    <3>1. PICK k \in 0..a : a = k * Slot
      BY <2>2
    <3>2. k \in Int /\ 0 <= k
      BY <3>1
    <3> QED
      BY <3>1, <3>2, SlotAssumption
  <2>4. a \notin taken
    BY <2>2 DEF StopsAt
  <2>5. p \in Networks
    BY <2>1 DEF IInv, TypeOK
  <2>6. pools' \in Seq(Networks) \ {<<>>}
    BY <2>2, RotatedIsPools DEF IInv, TypeOK
  <2>7. next' \in [Starts -> Nat]
    <3>1. a + Slot \in Nat
      BY <2>3, SlotAssumption
    <3> QED
      BY <2>2, <3>1 DEF IInv, TypeOK
  <2>8. since' \in [Networks -> SUBSET Networks]
    BY <2>2, <2>5 DEF IInv, TypeOK
  <2>9. skipped' \in BOOLEAN
    BY <2>2 DEF IInv, TypeOK, TooEarly
  <2> QED
    BY <2>2, <2>3, <2>4, <2>6, <2>7, <2>8, <2>9, GrantKeepsApart DEF IInv, TypeOK
<1>2. CASE NextSubnetRaises \/ NoneLeft
  <2>1. /\ UNCHANGED <<pools, next, taken, given, clash, since, skipped>>
        /\ answer' \in {"ValueError", "RuntimeError"}
    BY <1>2 DEF NextSubnetRaises, NoneLeft, Fails
  <2> QED
    BY <2>1 DEF IInv, TypeOK, Marked, Disjoint
<1>3. CASE NextRandomSubnet
  <2>1. PICK p \in Pools :
          \E a \in SlotsOf(p) \ taken : Grant(a) /\ UNCHANGED <<pools, next, since, skipped>>
    BY <1>3 DEF NextRandomSubnet
  <2>2. PICK a \in SlotsOf(p) \ taken : Grant(a) /\ UNCHANGED <<pools, next, since, skipped>>
    BY <2>1
  <2>3. p \in Networks
    BY <2>1 DEF Pools, IInv, TypeOK
  <2> QED
    BY <2>2, <2>3, SlotsAreMultiples, GrantKeepsApart DEF IInv, TypeOK
<1>4. CASE UNCHANGED vars
  BY <1>4 DEF vars, IInv, TypeOK, Marked, Disjoint
<1> QED
  BY <1>1, <1>2, <1>3, <1>4 DEF Next

\* The inductive invariant: marked /24s at multiples of a /24, all apart.
THEOREM Invariance == Spec => []IInv
<1> QED
  BY InitIInv, NextIInv, PTL DEF Spec

\* Pools, next addresses and subnets keep their types.
THEOREM TypeCorrect == Spec => []TypeOK
<1>1. IInv => TypeOK
  BY DEF IInv
<1> QED
  BY <1>1, Invariance, PTL

\* Subnets handed out by one allocator never share an address, whatever the pools.
THEOREM SubnetsAreDisjoint == Spec => []Disjoint
<1>1. IInv => Disjoint
  BY DEF IInv
<1> QED
  BY <1>1, Invariance, PTL

------------------------------------------------------------------------------
(* The scan of a pool.  Induction over its attempts is by least               *)
(* counterexample.                                                            *)

LEMMA DivNat ==
  ASSUME NEW a \in Nat, NEW d \in Nat \ {0}
  PROVE  /\ a \div d \in Nat
         /\ (a \div d) * d \in Nat
         /\ (a \div d) * d <= a /\ a < (a \div d) * d + d
<1>1. a \div d \in Int
  OBVIOUS
<1> DEFINE q == a \div d
<1>2. q * d <= a /\ a < q * d + d
  BY SMT
<1>3. q >= 0
  BY SMT
<1> QED BY <1>1, <1>2, <1>3

LEMMA MaxSlotsNat ==
  ASSUME NEW p \in Networks
  PROVE  MaxSlots(p) \in Nat
BY DivNat, SlotAssumption, NetworksAssumption DEF MaxSlots

\* The recursive definition of the addresses tried is one of a function.
LEMMA TriedUnfolds ==
  ASSUME NEW p \in Networks
  PROVE  Tried(p) = [k \in 0..MaxSlots(p) |->
                       Wrapped(p, IF k = 0 THEN next[p.start] ELSE Tried(p)[k - 1] + Slot)]
<1> DEFINE Defines(f, n) ==
             f = [k \in 0..n |-> Wrapped(p, IF k = 0 THEN next[p.start] ELSE f[k - 1] + Slot)]
           T == {n \in Nat : ~ \E f : Defines(f, n)}
<1>1. MaxSlots(p) \in Nat
  BY MaxSlotsNat
<1>2. T = {}
  <2> SUFFICES ASSUME T # {} PROVE FALSE
    OBVIOUS
  <2>1. PICK n \in T : \A m \in T : n <= m
    <3>1. T \subseteq Nat
      OBVIOUS
    <3> HIDE DEF T
    <3> QED BY <3>1, LeastNatural
  <2>2. CASE n = 0
    <3> DEFINE f == [k \in 0..0 |-> Wrapped(p, next[p.start])]
    <3>1. \A k \in 0..0 : k = 0
      OBVIOUS
    <3>2. Defines(f, 0)
      BY <3>1
    <3> QED BY <2>1, <2>2, <3>2
  <2>3. CASE n # 0
    <3>1. n \in Nat /\ n - 1 \in Nat /\ n - 1 \notin T
      BY <2>1, <2>3
    <3>2. PICK g : Defines(g, n - 1)
      BY <3>1
    <3> DEFINE f == [k \in 0..n |-> IF k = n THEN Wrapped(p, g[n - 1] + Slot) ELSE g[k]]
    <3>3. \A k \in 0..n : f[k] = Wrapped(p, IF k = 0 THEN next[p.start] ELSE f[k - 1] + Slot)
      <4> SUFFICES ASSUME NEW k \in 0..n
                   PROVE  f[k] = Wrapped(p, IF k = 0 THEN next[p.start] ELSE f[k - 1] + Slot)
        OBVIOUS
      <4>1. CASE k = n
        <5>1. k # 0 /\ k - 1 = n - 1 /\ k - 1 # n /\ k - 1 \in 0..n
          BY <2>3, <3>1, <4>1
        <5> QED BY <4>1, <5>1
      <4>2. CASE k # n
        <5>1. k \in 0..(n - 1)
          BY <3>1, <4>2
        <5>2. g[k] = Wrapped(p, IF k = 0 THEN next[p.start] ELSE g[k - 1] + Slot)
          BY <3>2, <5>1
        <5>3. k # 0 => k - 1 \in 0..n /\ k - 1 # n
          BY <3>1, <5>1
        <5> QED BY <4>2, <5>2, <5>3
      <4> QED BY <4>1, <4>2
    <3>4. Defines(f, n)
      BY <3>3
    <3> QED BY <2>1, <3>4
  <2> QED BY <2>2, <2>3
<1>3. \E f : Defines(f, MaxSlots(p))
  BY <1>1, <1>2
<1>4. Tried(p) = CHOOSE f : Defines(f, MaxSlots(p))
  BY DEF Tried
<1>5. Defines(Tried(p), MaxSlots(p))
  <2> HIDE DEF Defines
  <2> QED BY <1>3, <1>4
<1> QED BY <1>5

\* A multiple of a /24 is the one it lies at or behind, ...
LEMMA DivMultiple ==
  ASSUME NEW n \in Nat, NEW a \in Nat, n * Slot <= a, a < n * Slot + Slot
  PROVE  a \div Slot = n
<1>1. Slot \in Nat \ {0} /\ n * Slot \in Nat
  BY SlotAssumption
<1>2. PICK q \in Nat : q = a \div Slot /\ q * Slot \in Nat /\ q * Slot <= a /\ a < q * Slot + Slot
  BY <1>1, DivNat
<1>3. ~(q < n)
  <2> SUFFICES ASSUME q < n PROVE FALSE
    OBVIOUS
  <2>1. q * Slot + Slot <= n * Slot
    BY NextMultiple
  <2> QED BY <1>1, <1>2, <2>1
<1>4. ~(n < q)
  <2> SUFFICES ASSUME n < q PROVE FALSE
    OBVIOUS
  <2>1. n * Slot + Slot <= q * Slot
    BY NextMultiple
  <2> QED BY <1>1, <1>2, <2>1
<1> QED BY <1>2, <1>3, <1>4

\* ... so that aligning leaves it, and brings any address to one that is not before it.
LEMMA AlignedMultiple ==
  ASSUME NEW n \in Nat
  PROVE  Aligned(n * Slot) = n * Slot
<1>1. Slot \in Nat \ {0} /\ n * Slot \in Nat
  BY SlotAssumption
<1> DEFINE a == n * Slot + Slot - 1
<1>2. a \in Nat /\ n * Slot <= a /\ a < n * Slot + Slot
  BY <1>1
<1>3. a \div Slot = n
  BY <1>2, DivMultiple
<1> QED BY <1>3 DEF Aligned

LEMMA AlignedUp ==
  ASSUME NEW a \in Nat
  PROVE  \E n \in Nat : Aligned(a) = n * Slot /\ n * Slot \in Nat /\ a <= n * Slot
<1>1. Slot \in Nat \ {0}
  BY SlotAssumption
<1> DEFINE b == a + Slot - 1
<1>2. b \in Nat
  BY <1>1
<1>3. PICK n \in Nat : n = b \div Slot /\ n * Slot \in Nat /\ b < n * Slot + Slot
  BY <1>1, <1>2, DivNat
<1>4. a <= n * Slot
  BY <1>1, <1>3
<1> QED BY <1>3, <1>4 DEF Aligned

\* A pool of a /24 or more is a row of /24s.
LEMMA WideIsRow ==
  ASSUME NEW p \in Networks, Wide(p)
  PROVE  \E s \in Nat, l \in Nat \ {0} :
           /\ p.start = s * Slot /\ p.len = l * Slot
           /\ MaxSlots(p) = l /\ SlotsOf(p) = {p.start + k * Slot : k \in 0..(l - 1)}
<1>1. /\ Slot \in Nat \ {0} /\ p.start \in Nat /\ p.len \in Nat \ {0}
      /\ Multiple(p.start, p.len)
  BY SlotAssumption, NetworksAssumption
<1>2. Multiple(p.len, Slot)
  <2>1. ~(p.len < Slot)
    BY <1>1 DEF Wide
  <2> QED BY <2>1, NetworksAssumption
<1>3. Multiple(p.start, Slot)
  BY <1>1, <1>2, MultipleOfMultiple
<1>4. PICK s \in 0..p.start : p.start = s * Slot
  BY <1>3
<1>5. PICK l \in 0..p.len : p.len = l * Slot
  BY <1>2
<1>6. s \in Nat /\ l \in Nat \ {0}
  BY <1>1, <1>4, <1>5
<1>7. p.len \div Slot = l
  BY <1>1, <1>5, <1>6, DivMultiple
<1> QED BY <1>4, <1>5, <1>6, <1>7 DEF MaxSlots, SlotsOf

\* A wrapped address lies in the pool, or begins one smaller than a /24.
LEMMA WrappedFits ==
  ASSUME NEW p \in Networks, NEW x \in Nat, p.start <= x
  PROVE  /\ Wrapped(p, x) \in Nat /\ p.start <= Wrapped(p, x)
         /\ Wide(p) => Wrapped(p, x) + Slot <= End(p) /\ \E n \in Nat : Wrapped(p, x) = n * Slot
         /\ ~Wide(p) => Wrapped(p, x) = p.start
<1>1. Slot \in Nat \ {0} /\ p.start \in Nat /\ p.len \in Nat \ {0}
  BY SlotAssumption, NetworksAssumption
<1>2. PICK n \in Nat : Aligned(x) = n * Slot /\ n * Slot \in Nat /\ x <= n * Slot
  BY AlignedUp
<1>3. CASE Wide(p)
  <2>1. PICK s \in Nat : p.start = s * Slot
    BY <1>3, WideIsRow
  <2>2. Slot <= p.len
    BY <1>1, <1>3 DEF Wide
  <2>3. Wrapped(p, x) = p.start \/ (Wrapped(p, x) = n * Slot /\ n * Slot + Slot <= End(p))
    BY <1>1, <1>2 DEF Wrapped, End
  <2>4. p.start + Slot <= End(p)
    BY <1>1, <2>2 DEF End
  <2>5. \E m \in Nat : Wrapped(p, x) = m * Slot
    BY <2>1, <2>3
  <2>6. Wrapped(p, x) \in Nat /\ p.start <= Wrapped(p, x) /\ Wrapped(p, x) + Slot <= End(p)
    BY <1>1, <1>2, <2>3, <2>4
  <2> QED BY <1>3, <2>5, <2>6
<1>4. CASE ~Wide(p)
  <2>1. p.len < Slot
    BY <1>1, <1>4 DEF Wide
  <2>2. n * Slot + Slot > p.start + p.len
    BY <1>1, <1>2, <2>1
  <2> QED BY <1>1, <1>2, <1>4, <2>2 DEF Wrapped, End
<1> QED BY <1>3, <1>4

\* Every address tried is a wrapped one from the pool's start on.
LEMMA TriedWraps ==
  ASSUME NEW p \in Networks, next[p.start] \in Nat, p.start <= next[p.start], NEW k \in 0..MaxSlots(p)
  PROVE  \E x \in Nat : p.start <= x /\ Tried(p)[k] = Wrapped(p, x)
<1> DEFINE T == {j \in 0..MaxSlots(p) : ~ \E x \in Nat : p.start <= x /\ Tried(p)[j] = Wrapped(p, x)}
<1> SUFFICES ASSUME T # {} PROVE FALSE
  OBVIOUS
<1>0. Slot \in Nat \ {0} /\ p.start \in Nat
  BY SlotAssumption, NetworksAssumption
<1>1. PICK n \in T : \A m \in T : n <= m
  <2>1. T \subseteq Nat
    OBVIOUS
  <2> HIDE DEF T
  <2> QED BY <2>1, LeastNatural
<1>2. Tried(p)[n] = Wrapped(p, IF n = 0 THEN next[p.start] ELSE Tried(p)[n - 1] + Slot)
  BY TriedUnfolds
<1>3. CASE n = 0
  BY <1>1, <1>2, <1>3
<1>4. CASE n # 0
  <2>1. n - 1 \in 0..MaxSlots(p) /\ n - 1 \notin T
    BY <1>1, <1>4, MaxSlotsNat
  <2>2. PICK x \in Nat : p.start <= x /\ Tried(p)[n - 1] = Wrapped(p, x)
    BY <2>1
  <2>3. Tried(p)[n - 1] \in Nat /\ p.start <= Tried(p)[n - 1]
    BY <2>2, WrappedFits
  <2>4. Tried(p)[n - 1] + Slot \in Nat /\ p.start <= Tried(p)[n - 1] + Slot
    BY <1>0, <2>3
  <2> QED BY <1>1, <1>2, <1>4, <2>4
<1> QED BY <1>3, <1>4

\* Behind the c-th /24 of a pool comes the next, behind the last the first.
LEMMA WrapStep ==
  ASSUME NEW p \in Networks, Wide(p), NEW s \in Nat, NEW l \in Nat \ {0},
         p.start = s * Slot, p.len = l * Slot, NEW c \in 0..(l - 1)
  PROVE  Wrapped(p, p.start + c * Slot + Slot) = p.start + (IF c + 1 < l THEN c + 1 ELSE 0) * Slot
<1>1. Slot \in Nat \ {0} /\ s * Slot \in Nat /\ l * Slot \in Nat /\ (c + 1) * Slot = c * Slot + Slot
      /\ c \in Nat /\ c * Slot \in Nat
  BY SlotAssumption
<1>2. p.start + c * Slot + Slot = (s + c + 1) * Slot
  BY <1>1
<1>3. Aligned(p.start + c * Slot + Slot) = p.start + c * Slot + Slot
  <2>1. s + c + 1 \in Nat
    BY <1>1
  <2>2. Aligned((s + c + 1) * Slot) = (s + c + 1) * Slot
    BY <2>1, AlignedMultiple
  <2> QED BY <1>2, <2>2
<1>4. CASE c + 1 < l
  <2>1. (c + 1) * Slot + Slot <= l * Slot
    BY <1>1, <1>4, NextMultiple
  <2>2. p.start + c * Slot + Slot + Slot <= End(p)
    BY <1>1, <2>1 DEF End
  <2>3. Wrapped(p, p.start + c * Slot + Slot) = p.start + c * Slot + Slot
    BY <1>1, <1>3, <2>2 DEF Wrapped, End
  <2> QED BY <1>1, <1>4, <2>3
<1>5. CASE c + 1 = l
  <2>1. p.start + c * Slot + Slot + Slot > End(p)
    BY <1>1, <1>5 DEF End
  <2>2. Wrapped(p, p.start + c * Slot + Slot) = p.start
    BY <1>1, <1>3, <2>1 DEF Wrapped
  <2> QED BY <1>1, <1>5, <2>2
<1>6. c + 1 < l \/ c + 1 = l
  BY <1>1
<1> QED BY <1>4, <1>5, <1>6

\* The scan of a pool goes once around it: wherever it begins, it tries every /24.
LEMMA ScanCovers ==
  ASSUME NEW p \in Networks, next[p.start] \in Nat, p.start <= next[p.start], NEW a \in SlotsOf(p)
  PROVE  \E k \in DOMAIN Tried(p) : Tried(p)[k] = a
<1>w. Wide(p)
  BY DEF SlotsOf
<1>1. PICK s \in Nat, l \in Nat \ {0} :
        /\ p.start = s * Slot /\ p.len = l * Slot
        /\ MaxSlots(p) = l /\ SlotsOf(p) = {p.start + k * Slot : k \in 0..(l - 1)}
  BY <1>w, WideIsRow
<1>2. Slot \in Nat \ {0} /\ s * Slot \in Nat /\ l * Slot \in Nat /\ DOMAIN Tried(p) = 0..l
  BY <1>1, SlotAssumption, TriedUnfolds
<1>3. PICK m \in 0..(l - 1) : Tried(p)[0] = p.start + m * Slot
  <2>1. Tried(p)[0] = Wrapped(p, next[p.start])
    BY <1>1, TriedUnfolds
  <2>2. PICK n \in Nat : Tried(p)[0] = n * Slot /\ p.start <= n * Slot /\ n * Slot + Slot <= End(p)
    BY <1>w, <2>1, WrappedFits
  <2>3. n * Slot \in Nat /\ (s + l) * Slot = s * Slot + l * Slot
    BY <1>2
  <2>4. ~(n < s)
    <3> SUFFICES ASSUME n < s PROVE FALSE
      OBVIOUS
    <3>1. n * Slot + Slot <= s * Slot
      BY NextMultiple
    <3> QED BY <1>1, <1>2, <2>2, <2>3, <3>1
  <2>5. n < s + l
    <3> SUFFICES ASSUME s + l <= n PROVE FALSE
      OBVIOUS
    <3>1. (s + l) * Slot <= n * Slot
      <4>1. s + l < n => (s + l) * Slot + Slot <= n * Slot
        BY NextMultiple
      <4> QED BY <1>2, <2>3, <4>1
    <3> QED BY <1>1, <1>2, <2>2, <2>3, <3>1 DEF End
  <2>6. n - s \in 0..(l - 1) /\ n * Slot = s * Slot + (n - s) * Slot
    BY <1>2, <2>4, <2>5
  <2> QED BY <1>1, <2>2, <2>6
<1> DEFINE C(k) == IF m + k < l THEN m + k ELSE m + k - l
           T == {k \in 0..l : Tried(p)[k] # p.start + C(k) * Slot}
<1>4. \A k \in 0..l : C(k) \in 0..(l - 1)
  OBVIOUS
<1>5. T = {}
  <2> SUFFICES ASSUME T # {} PROVE FALSE
    OBVIOUS
  <2>1. PICK n \in T : \A j \in T : n <= j
    <3>1. T \subseteq Nat
      OBVIOUS
    <3> HIDE DEF T
    <3> QED BY <3>1, LeastNatural
  <2>2. n # 0
    BY <1>3, <2>1
  <2>3. n - 1 \in 0..l /\ n - 1 \notin T /\ n \in 0..l
    BY <2>1, <2>2
  <2>4. Tried(p)[n - 1] = p.start + C(n - 1) * Slot
    BY <2>3
  <2>5. Tried(p)[n] = Wrapped(p, Tried(p)[n - 1] + Slot)
    BY <1>1, <2>2, <2>3, TriedUnfolds
  <2>6. C(n) = IF C(n - 1) + 1 < l THEN C(n - 1) + 1 ELSE 0
    BY <2>2, <2>3
  <2>7. Tried(p)[n] = p.start + C(n) * Slot
    <3>1. C(n - 1) \in 0..(l - 1)
      BY <1>4, <2>3
    <3> HIDE DEF C
    <3> QED BY <1>1, <1>w, <2>4, <2>5, <2>6, <3>1, WrapStep
  <2> QED BY <2>1, <2>7
<1>6. PICK j \in 0..(l - 1) : a = p.start + j * Slot
  BY <1>1
<1> DEFINE k == IF m <= j THEN j - m ELSE j - m + l
<1>7. k \in 0..l /\ C(k) = j
  OBVIOUS
<1>8. Tried(p)[k] = a
  <2>1. k \notin T
    BY <1>5
  <2>2. Tried(p)[k] = p.start + C(k) * Slot
    BY <1>7, <2>1
  <2> QED BY <1>6, <1>7, <2>2
<1> QED BY <1>2, <1>7, <1>8

------------------------------------------------------------------------------
(* The pools' turns.                                                         *)

Full(p) == SlotsOf(p) \subseteq taken

NextBehind == \A p \in Networks : p.start <= next[p.start]

\* A pool given once has been followed, since its turn, by all that are behind it now and
\* have a subnet left.
InTurn ==
  \A i \in 1..Len(pools) :
    (\A j \in 1..Len(pools) : pools[j] = pools[i] => j = i) =>
      \A j \in (i + 1)..Len(pools) : pools[j] \in since[pools[i]] \/ Full(pools[j])

TInv == IInv /\ NextBehind /\ InPools /\ InTurn /\ NoneLeftIsTrue /\ FairTurns

LEMMA NextIsNat == IInv /\ NextBehind => \A p \in Networks : next[p.start] \in Nat /\ p.start <= next[p.start]
BY DEF IInv, TypeOK, NextBehind, Starts

LEMMA MissedIsFull ==
  ASSUME IInv, NextBehind, NEW p \in Networks, Misses(p)
  PROVE  Full(p)
<1>1. next[p.start] \in Nat /\ p.start <= next[p.start]
  BY NextIsNat
<1>2. \A a \in SlotsOf(p) : \E k \in DOMAIN Tried(p) : Tried(p)[k] = a
  BY <1>1, ScanCovers
<1> QED BY <1>2 DEF Misses, Full

\* Where the pools stand after a rotation.
LEMMA RotatedPlaces ==
  ASSUME pools \in Seq(Networks), NEW i \in 1..Len(pools)
  PROVE  /\ Len(Rotated(i)) = Len(pools)
         /\ \A n \in 1..Len(pools) :
              Rotated(i)[n] = pools[IF n <= Len(pools) - i THEN n + i ELSE n - (Len(pools) - i)]
<1> DEFINE behind == SubSeq(pools, i + 1, Len(pools))
           before == SubSeq(pools, 1, i)
<1>1. /\ behind \in Seq(Networks) /\ Len(behind) = Len(pools) - i
      /\ \A n \in 1..(Len(pools) - i) : behind[n] = pools[n + i]
  OBVIOUS
<1>2. /\ before \in Seq(Networks) /\ Len(before) = i
      /\ \A n \in 1..i : before[n] = pools[n]
  OBVIOUS
<1>3. Rotated(i) = behind \o before
  BY DEF Rotated
<1> HIDE DEF behind, before
<1>l. Len(pools) \in Nat /\ i \in Nat
  OBVIOUS
<1>4. /\ Len(behind \o before) = Len(pools)
      /\ \A n \in 1..Len(pools) : (behind \o before)[n] =
           IF n <= Len(pools) - i THEN behind[n] ELSE before[n - (Len(pools) - i)]
  <2>1. /\ Len(behind \o before) = Len(behind) + Len(before)
        /\ \A n \in 1..(Len(behind) + Len(before)) :
             (behind \o before)[n] = IF n <= Len(behind) THEN behind[n] ELSE before[n - Len(behind)]
    BY <1>1, <1>2, ConcatProperties
  <2>2. Len(behind) = Len(pools) - i /\ Len(behind) + Len(before) = Len(pools)
    BY <1>1, <1>2, <1>l
  <2> QED BY <2>1, <2>2
<1>5. \A n \in 1..Len(pools) : n > Len(pools) - i => n - (Len(pools) - i) \in 1..i
  BY <1>l
<1>6. \A n \in 1..Len(pools) : n <= Len(pools) - i => n \in 1..(Len(pools) - i)
  BY <1>l
<1> QED BY <1>1, <1>2, <1>3, <1>4, <1>5, <1>6

LEMMA RotatedSamePools ==
  ASSUME pools \in Seq(Networks), NEW i \in 1..Len(pools), pools' = Rotated(i)
  PROVE  Pools' = Pools
<1> DEFINE l == Len(pools)
           From(n) == IF n <= l - i THEN n + i ELSE n - (l - i)
           To(m) == IF m > i THEN m - i ELSE m + (l - i)
<1>1. Len(pools') = l /\ \A n \in 1..l : pools'[n] = pools[From(n)]
  BY RotatedPlaces
<1>2. \A n \in 1..l : From(n) \in 1..l /\ To(n) \in 1..l /\ From(To(n)) = n
  OBVIOUS
<1>3. pools' \in Seq(Networks)
  BY RotatedIsPools
<1>4. DOMAIN pools = 1..l /\ DOMAIN pools' = 1..l
  BY <1>1, <1>3
<1> HIDE DEF l, From, To
<1>5. Pools' \subseteq Pools
  BY <1>1, <1>2, <1>4 DEF Pools
<1>6. ASSUME NEW m \in 1..l
      PROVE  pools[m] \in Pools'
  <2>1. To(m) \in 1..l /\ pools'[To(m)] = pools[m]
    BY <1>1, <1>2
  <2> QED BY <1>4, <2>1 DEF Pools
<1> QED BY <1>4, <1>5, <1>6 DEF Pools

\* What handing out a subnet does to what has been said of the pools.
LEMMA GrantGrows ==
  ASSUME NEW a, Grant(a)
  PROVE  /\ taken' = taken \cup {a} /\ answer' = "subnet"
         /\ \A p : Full(p) => Full(p)'
BY DEF Grant, Gives, Full

LEMMA NextSubnetTInv ==
  ASSUME TInv, IInv', NextSubnet
  PROVE  TInv'
<1>0. IInv /\ NextBehind /\ InPools /\ InTurn /\ FairTurns /\ pools \in Seq(Networks)
  BY DEF TInv, IInv, TypeOK
<1>1. PICK i \in 1..Len(pools), p \in Pools :
        /\ Reached(i) /\ p = pools[i]
        /\ \E a \in {Tried(p)[k] : k \in DOMAIN Tried(p)} :
             /\ StopsAt(p, a) /\ Multiple(a, Slot)
             /\ Grant(a)
             /\ next' = [next EXCEPT ![p.start] = a + Slot]
             /\ pools' = Rotated(i)
             /\ since' = [q \in Networks |-> IF q = p THEN {} ELSE since[q] \cup {p}]
             /\ skipped' = (skipped \/ TooEarly(i))
  BY DEF NextSubnet
<1>2. PICK a \in {Tried(p)[k] : k \in DOMAIN Tried(p)} :
        /\ Grant(a)
        /\ next' = [next EXCEPT ![p.start] = a + Slot]
        /\ pools' = Rotated(i)
        /\ since' = [q \in Networks |-> IF q = p THEN {} ELSE since[q] \cup {p}]
        /\ skipped' = (skipped \/ TooEarly(i))
  BY <1>1
<1>3. p \in Networks /\ \A j \in 1..Len(pools) : pools[j] \in Networks
  BY <1>0, <1>1
<1>4. Slot \in Nat \ {0} /\ p.start \in Nat
  BY <1>3, SlotAssumption, NetworksAssumption
<1>5. /\ a \in Nat /\ p.start <= a
      /\ Wide(p) => a + Slot <= End(p)
      /\ ~Wide(p) => a = p.start
  <2>1. next[p.start] \in Nat /\ p.start <= next[p.start]
    BY <1>0, <1>3, NextIsNat
  <2>2. PICK k \in 0..MaxSlots(p) : a = Tried(p)[k]
    BY <1>2, <1>3, TriedUnfolds
  <2>3. PICK x \in Nat : p.start <= x /\ a = Wrapped(p, x)
    BY <1>3, <2>1, <2>2, TriedWraps
  <2> QED BY <1>3, <2>3, WrappedFits
<1>6. taken' = taken \cup {a} /\ answer' = "subnet" /\ \A q : Full(q) => Full(q)'
  BY <1>2, GrantGrows
<1>7. NextBehind'
  <2>1. \A q \in Networks : next'[q.start] = IF q.start = p.start THEN a + Slot ELSE next[q.start]
    BY <1>0, <1>2 DEF IInv, TypeOK, Starts
  <2> QED BY <1>0, <1>4, <1>5, <2>1 DEF NextBehind
<1>8. InPools'
  <2>1. Pools' = Pools
    BY <1>0, <1>2, RotatedSamePools
  <2> QED BY <1>0, <1>1, <1>5, <1>6, <2>1 DEF InPools
<1>9. \A j \in 1..Len(pools) : j < i => Full(pools[j])
  BY <1>0, <1>1, <1>3, MissedIsFull DEF Reached
<1>10. FairTurns'
  <2> SUFFICES ASSUME TooEarly(i) PROVE FALSE
    BY <1>0, <1>2 DEF FairTurns
  <2>1. \A j \in 1..Len(pools) : pools[j] = pools[i] => j = i
    BY <1>0 DEF TooEarly
  <2>2. PICK q \in Pools \ (since[pools[i]] \cup {pools[i]}) : SlotsOf(q) \ taken # {}
    BY DEF TooEarly
  <2>3. PICK j \in 1..Len(pools) : q = pools[j]
    BY <1>0, <2>2 DEF Pools
  <2>4. ~Full(q)
    BY <2>2 DEF Full
  <2>5. i # j /\ ~(j < i)
    BY <1>9, <2>2, <2>3, <2>4
  <2>6. j \in (i + 1)..Len(pools)
    BY <2>5
  <2> QED BY <1>0, <2>1, <2>2, <2>3, <2>4, <2>6 DEF InTurn
<1>11. InTurn'
  <2> DEFINE l == Len(pools)
             From(n) == IF n <= l - i THEN n + i ELSE n - (l - i)
             To(m) == IF m > i THEN m - i ELSE m + (l - i)
  <2>1. Len(pools') = l /\ \A n \in 1..l : pools'[n] = pools[From(n)]
    BY <1>0, <1>2, RotatedPlaces
  <2>2. \A n \in 1..l : /\ From(n) \in 1..l /\ To(n) \in 1..l
                        /\ From(To(n)) = n /\ To(From(n)) = n
    OBVIOUS
  <2>3. \A m, n \in 1..l : m < n => \/ From(n) = i
                                    \/ From(m) < From(n) /\ From(m) # i
                                    \/ From(n) < i /\ From(m) # i
    OBVIOUS
  <2> SUFFICES ASSUME NEW m \in 1..l, \A j \in 1..l : pools'[j] = pools'[m] => j = m,
                      NEW n \in (m + 1)..l
               PROVE  pools'[n] \in since'[pools'[m]] \/ Full(pools[n])'
    BY <2>1 DEF InTurn
  <2>4. n \in 1..l /\ m < n
    OBVIOUS
  <2> DEFINE u == From(m)
             v == From(n)
  <2>5. /\ u \in 1..l /\ v \in 1..l /\ pools'[m] = pools[u] /\ pools'[n] = pools[v]
        /\ v = i \/ (u < v /\ u # i) \/ (v < i /\ u # i)
    BY <2>1, <2>2, <2>3, <2>4
  <2> HIDE DEF l, From, To
  <2>6. ASSUME NEW j \in 1..l, pools[j] = pools[u]
        PROVE  j = u
    <3>1. To(j) \in 1..l /\ pools'[To(j)] = pools'[m]
      BY <2>1, <2>2, <2>5, <2>6
    <3>2. To(j) = m
      BY <3>1
    <3> QED BY <2>2, <3>2
  <2>7. pools[u] # pools[v]
    <3>1. pools'[n] # pools'[m]
      BY <2>4
    <3> QED BY <2>5, <3>1
  <2> HIDE DEF u, v
  <2>8. CASE v = i
    <3>1. pools[v] = p /\ pools[u] # p /\ pools[u] \in Networks
      BY <1>1, <1>3, <2>5, <2>7, <2>8 DEF l
    <3>2. p \in since'[pools[u]]
      BY <1>2, <3>1
    <3> QED BY <2>5, <3>1, <3>2 DEF Full
  <2>9. CASE v < i /\ u # i
    <3>1. Full(pools[v])
      BY <1>9, <2>5, <2>9 DEF l
    <3> QED BY <1>6, <2>5, <3>1 DEF Full
  <2>10. CASE u < v /\ u # i
    <3>1. pools[v] \in since[pools[u]] \/ Full(pools[v])
      <4>1. v \in (u + 1)..Len(pools)
        BY <2>5, <2>10 DEF l
      <4> QED BY <1>0, <2>5, <2>6, <4>1 DEF InTurn, l
    <3>2. pools[u] # p /\ pools[u] \in Networks
      BY <1>1, <1>3, <2>5, <2>6, <2>10 DEF l
    <3>3. since[pools[u]] \subseteq since'[pools[u]]
      BY <1>2, <3>2
    <3> QED BY <1>6, <2>5, <3>1, <3>3 DEF Full
  <2> QED BY <2>5, <2>8, <2>9, <2>10
<1>12. NoneLeftIsTrue'
  BY <1>6 DEF NoneLeftIsTrue
<1> QED BY <1>7, <1>8, <1>10, <1>11, <1>12 DEF TInv

LEMMA NextTInv == TInv /\ [Next]_vars => TInv'
<1> SUFFICES ASSUME TInv, [Next]_vars PROVE TInv'
  OBVIOUS
<1>0. IInv /\ NextBehind /\ InPools /\ InTurn /\ NoneLeftIsTrue /\ FairTurns /\ pools \in Seq(Networks)
  BY DEF TInv, IInv, TypeOK
<1>i. IInv'
  BY <1>0, NextIInv
<1>1. CASE NextSubnet
  BY <1>i, <1>1, NextSubnetTInv
<1>2. CASE NextSubnetRaises \/ NoneLeft
  <2>1. UNCHANGED <<pools, next, taken, given, clash, since, skipped>>
    BY <1>2 DEF NextSubnetRaises, NoneLeft, Fails
  <2>2. NoneLeftIsTrue'
    <3>1. CASE NextSubnetRaises
      BY <3>1 DEF NextSubnetRaises, Fails, NoneLeftIsTrue
    <3>2. CASE NoneLeft
      <4>1. \A j \in 1..Len(pools) : Full(pools[j])
        BY <1>0, <3>2, MissedIsFull DEF NoneLeft
      <4>2. \A p \in Pools : Full(p)
        BY <1>0, <4>1 DEF Pools
      <4> QED BY <2>1, <4>2 DEF NoneLeftIsTrue, Full, Pools
    <3> QED BY <1>2, <3>1, <3>2
  <2> QED BY <1>0, <1>i, <2>1, <2>2 DEF TInv, NextBehind, InPools, InTurn, FairTurns, Pools, Full
<1>3. CASE NextRandomSubnet
  <2>1. PICK p \in Pools :
          \E a \in SlotsOf(p) \ taken : Grant(a) /\ UNCHANGED <<pools, next, since, skipped>>
    BY <1>3 DEF NextRandomSubnet
  <2>2. PICK a \in SlotsOf(p) \ taken : Grant(a) /\ UNCHANGED <<pools, next, since, skipped>>
    BY <2>1
  <2>3. p \in Networks
    BY <1>0, <2>1 DEF Pools
  <2>4. taken' = taken \cup {a} /\ answer' = "subnet" /\ \A q : Full(q) => Full(q)'
    BY <2>2, GrantGrows
  <2>5. p.start <= a /\ a + Slot <= End(p)
    <3>1. Wide(p)
      BY <2>2 DEF SlotsOf
    <3>2. PICK s \in Nat, l \in Nat \ {0} :
            /\ p.start = s * Slot /\ p.len = l * Slot
            /\ SlotsOf(p) = {p.start + k * Slot : k \in 0..(l - 1)}
      BY <2>3, <3>1, WideIsRow
    <3>3. PICK k \in 0..(l - 1) : a = p.start + k * Slot
      BY <2>2, <3>2
    <3>4. k * Slot + Slot <= l * Slot
      BY NextMultiple
    <3>5. k * Slot \in Nat /\ p.start \in Nat /\ l * Slot \in Nat /\ Slot \in Nat
      BY <3>2, SlotAssumption
    <3> QED BY <3>2, <3>3, <3>4, <3>5 DEF End
  <2>6. InPools'
    BY <1>0, <2>1, <2>2, <2>4, <2>5 DEF InPools, Pools
  <2>7. InTurn'
    BY <1>0, <2>2, <2>4 DEF InTurn
  <2> QED BY <1>0, <1>i, <2>2, <2>4, <2>6, <2>7 DEF TInv, NextBehind, NoneLeftIsTrue, FairTurns
<1>4. CASE UNCHANGED vars
  BY <1>0, <1>i, <1>4 DEF vars, TInv, NextBehind, InPools, InTurn, NoneLeftIsTrue, FairTurns, Pools, Full
<1> QED BY <1>1, <1>2, <1>3, <1>4 DEF Next

LEMMA InitTInv == Init => TInv
<1> SUFFICES ASSUME Init PROVE TInv
  OBVIOUS
<1>1. IInv
  BY InitIInv
<1>2. NextBehind
  <2>1. \A p \in Networks : p.start \in Nat /\ p.start \in Starts
    BY NetworksAssumption DEF Starts
  <2>2. \A p \in Networks : next[p.start] = p.start
    BY <2>1 DEF Init
  <2> QED BY <2>1, <2>2 DEF NextBehind
<1>3. InTurn
  <2>1. \A i \in 1..Len(pools) : pools[i] \in Networks
    BY <1>1 DEF IInv, TypeOK
  <2> QED BY <2>1 DEF Init, InTurn
<1> QED BY <1>1, <1>2, <1>3 DEF Init, TInv, InPools, NoneLeftIsTrue, FairTurns

THEOREM TurnsInvariance == Spec => []TInv
<1> QED
  BY InitTInv, NextTInv, PTL DEF Spec

\* A subnet lies in one of the pools; only a pool smaller than a /24 is exceeded.
THEOREM SubnetsInPools == Spec => []InPools
<1>1. TInv => InPools
  BY DEF TInv
<1> QED
  BY <1>1, TurnsInvariance, PTL

\* next_subnet only gives up when no pool has a free subnet.
THEOREM GivesUpWhenFull == Spec => []NoneLeftIsTrue
<1>1. TInv => NoneLeftIsTrue
  BY DEF TInv
<1> QED
  BY <1>1, TurnsInvariance, PTL

\* next_subnet does not come back to a pool before every other that has a free subnet.
THEOREM PoolsTakeTurns == Spec => []FairTurns
<1>1. TInv => FairTurns
  BY DEF TInv
<1> QED
  BY <1>1, TurnsInvariance, PTL

HIDE DEF Multiple

-----------------------------------------------------------------------------
(* Traffic *)

FlowsRequest == req \in Flows!Requests

FlowShape ==
  /\ plan = [pc |-> plan.pc, item |-> plan.item, made |-> plan.made, left |-> plan.left,
             flows |-> plan.flows]
  /\ plan.pc \in {"start", "counted", "selected", "done"}
  /\ plan.item \in Nat \ {0} /\ plan.made \in Nat
  /\ plan.flows \in Seq([item : Flows!Items, src : Flows!Hosts, dst : Flows!Hosts,
                         proto : {"TCP", "UDP"}, port : Nat])

\* The flows a host receives by a protocol have used up the ports they have.
Received(dst, proto) ==
  {k \in DOMAIN plan.flows : plan.flows[k].dst = dst /\ plan.flows[k].proto = proto}

PortsTaken ==
  \A k, l \in DOMAIN plan.flows :
    LET f == plan.flows[k]
        g == plan.flows[l] IN
    /\ f.src = f.dst => req.hosts = 1
    /\ f.port <= Cardinality(Received(f.dst, f.proto))
    /\ k # l /\ f.dst = g.dst /\ f.proto = g.proto => f.port # g.port
    /\ k # l /\ f.item = g.item /\ f.item \in Flows!Plain => f.src # g.src

\* Of each item so many flows have been written.
Written(i) == Cardinality(Flows!FlowsOf(i))
Chosen == req.density > 0 /\ Flows!Plain # {}

FlowsCounted ==
  /\ plan.pc = "start" => plan = Flows!Begun
  /\ plan.pc = "counted" =>
       /\ req.hosts > 0 /\ plan.item \in 1..(Len(req.items) + 1)
       /\ plan.item \in Flows!Items => plan.made <= req.items[plan.item].abs
       /\ plan.item \notin Flows!Items => plan.made = 0
       /\ \A i \in Flows!Items :
            Written(i) = IF i < plan.item THEN req.items[i].abs
                         ELSE IF i = plan.item THEN plan.made ELSE 0
  /\ plan.pc = "selected" =>
       /\ req.hosts > 0 /\ plan.left \subseteq Flows!Hosts
       /\ ~Chosen => plan.left = {}
       /\ \A k \in DOMAIN plan.flows :
            plan.flows[k].item \in Flows!Plain => plan.flows[k].src \notin plan.left
  /\ plan.pc \in {"selected", "done"} =>
       \A i \in Flows!Items :
         Written(i) = IF req.hosts = 0 THEN 0
                      ELSE IF Chosen /\ i = Flows!LastPlain
                      THEN Flows!Selected - IF plan.pc = "selected" THEN Cardinality(plan.left) ELSE 0
                      ELSE req.items[i].abs

FlowsInv == FlowShape /\ PortsTaken /\ FlowsCounted

LEMMA FlowsCardinality == \A S : Flows!Cardinality(S) = Cardinality(S)
BY DEF Flows!Cardinality, Cardinality

LEMMA FlowsSizes ==
  ASSUME FlowsRequest
  PROVE  /\ req.hosts \in Nat /\ req.density \in 0..4
         /\ Len(req.items) \in Nat /\ Flows!Items = 1..Len(req.items)
         /\ \A i \in Flows!Items : req.items[i].abs \in Nat
                                   /\ req.items[i].kind \in Flows!Kinds
         /\ Flows!Hosts = 1..req.hosts
<1> DEFINE S == [kind : Flows!Kinds, abs : Nat, factor : Nat]
<1>1. req.hosts \in Nat /\ req.density \in 0..4 /\ req.items \in Seq(S)
  BY DEF FlowsRequest, Flows!Requests
<1>2. Len(req.items) \in Nat /\ DOMAIN req.items = 1..Len(req.items)
      /\ \A i \in DOMAIN req.items : req.items[i] \in S
  <2> HIDE DEF S
  <2> QED BY <1>1
<1>3. \A r \in S : r.abs \in Nat /\ r.kind \in Flows!Kinds
  OBVIOUS
<1> QED
  BY <1>1, <1>2, <1>3 DEF Flows!Items, Flows!Hosts

\* The last item without a count is one of them.
LEMMA LastOfPlain ==
  ASSUME FlowsRequest, Flows!Plain # {}
  PROVE  Flows!LastPlain \in Flows!Plain
<1> DEFINE B == {n \in Nat : \A j \in Flows!Plain : j <= n}
<1>1. Flows!Plain \subseteq 1..Len(req.items) /\ Len(req.items) \in Nat
  BY FlowsSizes DEF Flows!Plain
<1>2. B \subseteq Nat /\ Len(req.items) \in B
  BY <1>1
<1>3. PICK m \in B : \A n \in B : m <= n
  BY <1>2, LeastNatural
<1>4. m \in Flows!Plain
  <2> SUFFICES ASSUME m \notin Flows!Plain PROVE FALSE
    OBVIOUS
  <2>1. PICK j \in Flows!Plain : TRUE
    OBVIOUS
  <2>2. m \in Nat /\ m # 0 /\ \A i \in Flows!Plain : i <= m - 1
    BY <1>1, <1>3, <2>1
  <2>3. m - 1 \in B
    BY <2>2
  <2> QED BY <1>3, <2>2, <2>3
<1>5. \E i \in Flows!Plain : \A j \in Flows!Plain : j <= i
  BY <1>3, <1>4
<1> QED
  BY <1>5 DEF Flows!LastPlain

LEMMA NextHostDiffers ==
  ASSUME NEW h \in Nat \ {0}, NEW n \in Nat, n % h = (n + 1) % h
  PROVE  h = 1
<1>1. PICK q \in Int, r \in Int, p \in Int : n = h * q + r /\ n + 1 = h * p + r
  <2>1. n = h * (n \div h) + (n % h) /\ n + 1 = h * ((n + 1) \div h) + ((n + 1) % h)
    OBVIOUS
  <2> QED BY SMTT(20), <2>1
<1>2. PICK d \in Int : d = p - q
  BY <1>1
<1>3. h * d = 1
  BY <1>1, <1>2
<1>4. CASE d <= 0
  <2>1. h * d <= 0
    BY <1>4
  <2> QED BY <1>3, <2>1
<1>5. CASE d >= 1
  <2>1. h * d >= h
    BY <1>5
  <2> QED BY <1>3, <2>1
<1> QED BY <1>4, <1>5

LEMMA FlowsBegin ==
  ASSUME FlowsRequest, plan = Flows!Begun
  PROVE  FlowsInv
BY DEF Flows!Begun, FlowsInv, FlowShape, PortsTaken, FlowsCounted

\* One more flow is one more of its item, and of its receiver.
Latest == Len(plan.flows) + 1
FlowAdded(i, src, dst, proto) ==
  /\ plan'.flows \in Seq([item : Flows!Items, src : Flows!Hosts, dst : Flows!Hosts,
                          proto : {"TCP", "UDP"}, port : Nat])
  /\ DOMAIN plan'.flows = DOMAIN plan.flows \cup {Latest} /\ Latest \notin DOMAIN plan.flows
  /\ \A k \in DOMAIN plan.flows : plan'.flows[k] = plan.flows[k]
  /\ plan'.flows[Latest].item = i /\ plan'.flows[Latest].src = src
  /\ plan'.flows[Latest].dst = dst /\ plan'.flows[Latest].proto = proto
  /\ plan'.flows[Latest].port = Cardinality(Received(dst, proto)) + 1
  /\ \A d, p : Cardinality(Received(d, p)) \in Nat
               /\ Cardinality(Received(d, p))' =
                    Cardinality(Received(d, p)) + IF d = dst /\ p = proto THEN 1 ELSE 0
  /\ \A j : Written(j) \in Nat /\ Written(j)' = Written(j) + IF j = i THEN 1 ELSE 0

LEMMA FlowWritten ==
  ASSUME FlowsRequest, FlowShape,
         NEW i \in Flows!Items, NEW src \in Flows!Hosts, NEW dst \in Flows!Hosts,
         NEW proto \in {"TCP", "UDP"}, req' = req,
         plan'.flows = Flows!WithFlow(i, src, dst, proto)
  PROVE  FlowAdded(i, src, dst, proto)
<1> DEFINE n == Len(plan.flows) + 1
           port == 1 + Flows!Cardinality(Received(dst, proto))
           f == [item |-> i, src |-> src, dst |-> dst, proto |-> proto, port |-> port]
           S == [item : Flows!Items, src : Flows!Hosts, dst : Flows!Hosts,
                 proto : {"TCP", "UDP"}, port : Nat]
<1>1. plan.flows \in Seq(S)
  BY DEF FlowShape
<1>2. plan'.flows = Append(plan.flows, f)
  BY DEF Flows!WithFlow, Flows!NextPort, Received
<1>3. Len(plan.flows) \in Nat /\ DOMAIN plan.flows = 1..Len(plan.flows)
  <2> HIDE DEF S
  <2> QED BY <1>1
<1>4. ASSUME NEW T \in SUBSET DOMAIN plan.flows
      PROVE  /\ IsFiniteSet(T) /\ Cardinality(T) \in Nat
             /\ Cardinality(T \cup {n}) = Cardinality(T) + 1
  <2>1. IsFiniteSet(1..Len(plan.flows))
    BY <1>3, FS_Interval
  <2>2. IsFiniteSet(T) /\ Cardinality(T) \in Nat
    BY <1>3, <2>1, FS_Subset, FS_CardinalityType
  <2>3. n \notin T
    BY <1>3
  <2> QED BY <2>2, <2>3, FS_AddElement
<1>5. port \in Nat /\ port = Cardinality(Received(dst, proto)) + 1
  <2>1. Received(dst, proto) \in SUBSET DOMAIN plan.flows
    BY DEF Received
  <2>2. Cardinality(Received(dst, proto)) \in Nat
    BY <1>4, <2>1
  <2>3. port = 1 + Cardinality(Received(dst, proto))
    BY FlowsCardinality
  <2> QED BY <2>2, <2>3
<1>6. f \in S
  BY <1>5
<1>7. /\ plan'.flows \in Seq(S) /\ DOMAIN plan'.flows = DOMAIN plan.flows \cup {n}
      /\ n \notin DOMAIN plan.flows /\ plan'.flows[n] = f
      /\ \A k \in DOMAIN plan.flows : plan'.flows[k] = plan.flows[k]
  <2> HIDE DEF S, f
  <2> QED BY <1>1, <1>2, <1>3, <1>6
<1>8. \A d, p : Received(d, p)' = Received(d, p) \cup IF d = dst /\ p = proto THEN {n} ELSE {}
  BY <1>7 DEF Received
<1>9. \A j : Flows!FlowsOf(j)' = Flows!FlowsOf(j) \cup IF j = i THEN {n} ELSE {}
  BY <1>7 DEF Flows!FlowsOf
<1>10. \A d, p : Cardinality(Received(d, p)) \in Nat
                 /\ Cardinality(Received(d, p))' =
                      Cardinality(Received(d, p)) + IF d = dst /\ p = proto THEN 1 ELSE 0
  <2> TAKE d, p
  <2>1. Received(d, p) \in SUBSET DOMAIN plan.flows
    BY DEF Received
  <2>2. /\ Cardinality(Received(d, p)) \in Nat
        /\ Cardinality(Received(d, p) \cup {n}) = Cardinality(Received(d, p)) + 1
    BY <1>4, <2>1
  <2>3. CASE d = dst /\ p = proto
    <3>1. Received(d, p)' = Received(d, p) \cup {n}
      BY <1>8, <2>3
    <3> QED BY <2>2, <2>3, <3>1
  <2>4. CASE ~(d = dst /\ p = proto)
    <3>1. Received(d, p)' = Received(d, p)
      BY <1>8, <2>4
    <3> QED BY <2>2, <2>4, <3>1
  <2> QED BY <2>3, <2>4
<1>11. \A j : Written(j) \in Nat /\ Written(j)' = Written(j) + IF j = i THEN 1 ELSE 0
  <2> TAKE j
  <2>1. Flows!FlowsOf(j) \in SUBSET DOMAIN plan.flows
    BY DEF Flows!FlowsOf
  <2>2. /\ Written(j) \in Nat
        /\ Cardinality(Flows!FlowsOf(j) \cup {n}) = Written(j) + 1
    BY <1>4, <2>1 DEF Written
  <2>3. CASE j = i
    <3>1. Written(j)' = Cardinality(Flows!FlowsOf(j) \cup {n})
      BY <1>9, <2>3 DEF Written
    <3> QED BY <2>2, <2>3, <3>1
  <2>4. CASE j # i
    <3>1. Written(j)' = Written(j)
      BY <1>9, <2>4 DEF Written
    <3> QED BY <2>2, <2>4, <3>1
  <2> QED BY <2>3, <2>4
<1>12. /\ plan'.flows[n].item = i /\ plan'.flows[n].src = src /\ plan'.flows[n].dst = dst
       /\ plan'.flows[n].proto = proto /\ plan'.flows[n].port = port
  BY <1>7
<1> HIDE DEF f, port
<1> QED
  BY <1>5, <1>7, <1>10, <1>11, <1>12 DEF FlowAdded, Latest

\* Ports stay apart when a flow is added that no other flow of its item has the sender of.
LEMMA PortsStayTaken ==
  ASSUME FlowsRequest, FlowShape, PortsTaken,
         NEW i \in Flows!Items, NEW src \in Flows!Hosts, NEW dst \in Flows!Hosts,
         NEW proto \in {"TCP", "UDP"}, req' = req,
         plan'.flows = Flows!WithFlow(i, src, dst, proto),
         src = dst => req.hosts = 1,
         i \in Flows!Plain =>
           \A k \in DOMAIN plan.flows : plan.flows[k].item = i => plan.flows[k].src # src
  PROVE  PortsTaken'
<1> DEFINE n == Len(plan.flows) + 1
           S == [item : Flows!Items, src : Flows!Hosts, dst : Flows!Hosts,
                 proto : {"TCP", "UDP"}, port : Nat]
<1>0. n = Latest
  BY DEF Latest
<1>1. FlowAdded(i, src, dst, proto)
  BY FlowWritten
<1>1a. /\ DOMAIN plan'.flows = DOMAIN plan.flows \cup {n} /\ n \notin DOMAIN plan.flows
       /\ \A k \in DOMAIN plan.flows : plan'.flows[k] = plan.flows[k]
       /\ plan'.flows[n].item = i /\ plan'.flows[n].src = src /\ plan'.flows[n].dst = dst
       /\ plan'.flows[n].proto = proto
       /\ plan'.flows[n].port = Cardinality(Received(dst, proto)) + 1
       /\ \A d, p : Cardinality(Received(d, p)) \in Nat
                    /\ Cardinality(Received(d, p))' =
                         Cardinality(Received(d, p)) + IF d = dst /\ p = proto THEN 1 ELSE 0
  BY <1>0, <1>1 DEF FlowAdded
<1> HIDE DEF n
<1>2. \A k \in DOMAIN plan.flows : plan.flows[k].port \in Nat
  <2>1. plan.flows \in Seq(S)
    BY DEF FlowShape
  <2>2. \A k \in DOMAIN plan.flows : plan.flows[k] \in S
    <3> HIDE DEF S
    <3> QED BY <2>1
  <2> QED BY <2>2
<1>3. Flows!Plain' = Flows!Plain
  BY DEF Flows!Plain, Flows!Counted, Flows!Items
<1> DEFINE Load(d, p) == Cardinality(Received(d, p))
           After(d, p) == Cardinality({k \in DOMAIN plan'.flows :
                                         plan'.flows[k].dst = d /\ plan'.flows[k].proto = p})
<1>3a. \A d, p : Load(d, p) \in Nat
                 /\ After(d, p) = Load(d, p) + IF d = dst /\ p = proto THEN 1 ELSE 0
  <2> TAKE d, p
  <2>1. Cardinality(Received(d, p))' = After(d, p)
    BY DEF Received
  <2>2. Cardinality(Received(d, p)) = Load(d, p)
    OBVIOUS
  <2> HIDE DEF Load, After
  <2> QED BY <1>1a, <2>1, <2>2
<1>4. ASSUME NEW k \in DOMAIN plan.flows
      PROVE  /\ plan.flows[k].src = plan.flows[k].dst => req.hosts = 1
             /\ plan.flows[k].port <= After(plan.flows[k].dst, plan.flows[k].proto)
             /\ plan.flows[k].dst = dst /\ plan.flows[k].proto = proto
                  => plan.flows[k].port # plan'.flows[n].port
             /\ plan.flows[k].item = i /\ i \in Flows!Plain => plan.flows[k].src # src
  <2> DEFINE d == plan.flows[k].dst
             p == plan.flows[k].proto
             port == plan.flows[k].port
  <2>1. (plan.flows[k].src = plan.flows[k].dst => req.hosts = 1) /\ port <= Load(d, p)
    BY DEF PortsTaken
  <2>2. port \in Nat
    BY <1>2
  <2>3. Load(d, p) \in Nat /\ After(d, p) \in Nat /\ After(d, p) >= Load(d, p)
    <3> HIDE DEF d, p, Load, After
    <3> QED BY <1>3a
  <2>4. d = dst /\ p = proto => port # plan'.flows[n].port
    <3>1. plan'.flows[n].port = Load(dst, proto) + 1
      BY <1>1a
    <3> QED BY <2>1, <2>2, <2>3, <3>1
  <2>5. port <= After(d, p)
    <3> HIDE DEF d, p, port, Load, After
    <3> QED BY <2>1, <2>2, <2>3
  <2> QED BY <2>1, <2>4, <2>5
<1>5. /\ plan'.flows[n].src = plan'.flows[n].dst => req.hosts = 1
      /\ plan'.flows[n].port <= After(plan'.flows[n].dst, plan'.flows[n].proto)
  <2>1. Load(dst, proto) \in Nat /\ After(dst, proto) = Load(dst, proto) + 1
    BY <1>3a
  <2>2. plan'.flows[n].port = After(dst, proto)
    BY <1>1a, <2>1
  <2> HIDE DEF After
  <2> QED BY <1>1a, <2>1, <2>2
<1>6. ASSUME NEW k \in DOMAIN plan.flows, NEW l \in DOMAIN plan.flows, k # l
      PROVE  /\ plan.flows[k].dst = plan.flows[l].dst /\ plan.flows[k].proto = plan.flows[l].proto
                  => plan.flows[k].port # plan.flows[l].port
             /\ plan.flows[k].item = plan.flows[l].item /\ plan.flows[k].item \in Flows!Plain
                  => plan.flows[k].src # plan.flows[l].src
  BY <1>6 DEF PortsTaken
<1>7. ASSUME NEW k \in DOMAIN plan'.flows, NEW l \in DOMAIN plan'.flows
      PROVE  /\ plan'.flows[k].src = plan'.flows[k].dst => req.hosts = 1
             /\ plan'.flows[k].port <= After(plan'.flows[k].dst, plan'.flows[k].proto)
             /\ k # l /\ plan'.flows[k].dst = plan'.flows[l].dst
                  /\ plan'.flows[k].proto = plan'.flows[l].proto
                  => plan'.flows[k].port # plan'.flows[l].port
             /\ k # l /\ plan'.flows[k].item = plan'.flows[l].item
                  /\ plan'.flows[k].item \in Flows!Plain
                  => plan'.flows[k].src # plan'.flows[l].src
  <2> HIDE DEF Load, After
  <2>1. CASE k \in DOMAIN plan.flows /\ l \in DOMAIN plan.flows
    BY <1>1a, <1>4, <1>6, <2>1
  <2>2. CASE k = n /\ l \in DOMAIN plan.flows
    BY <1>1a, <1>4, <1>5, <2>2
  <2>3. CASE k \in DOMAIN plan.flows /\ l = n
    BY <1>1a, <1>4, <1>5, <2>3
  <2>4. CASE k = n /\ l = n
    BY <1>5, <2>4
  <2> QED BY <1>1a, <2>1, <2>2, <2>3, <2>4
<1> QED
  BY <1>3, <1>7 DEF PortsTaken, Received

\* What Random stands for is a kind too, and each kind has a protocol.
LEMMA FlowProtocols ==
  ASSUME NEW kind
  PROVE  Flows!Protocol(kind) \in {"TCP", "UDP"}
BY DEF Flows!Protocol

LEMMA FlowsStart ==
  ASSUME FlowsRequest, FlowsInv, Flows!WritesNothing \/ Flows!Starts
  PROVE  FlowsInv'
<1>1. req' = req /\ plan = Flows!Begun /\ FlowShape
  BY DEF Flows!WritesNothing, Flows!Starts, Flows!At, FlowsInv, FlowsCounted
<1>2. /\ plan' = [plan EXCEPT !.pc = plan'.pc]
      /\ \/ plan'.pc = "done" /\ (req.hosts = 0 \/ (req.density = 0 /\ Flows!Counted = {}))
         \/ plan'.pc = "counted" /\ req.hosts > 0
  BY <1>1 DEF Flows!WritesNothing, Flows!Starts, Flows!Begun
<1>3. plan' = [pc |-> plan'.pc, item |-> 1, made |-> 0, left |-> {}, flows |-> <<>>]
  BY <1>1, <1>2 DEF Flows!Begun
<1>4. Flows!Items' = Flows!Items /\ Flows!Hosts' = Flows!Hosts /\ Flows!Plain' = Flows!Plain
  BY <1>1 DEF Flows!Items, Flows!Hosts, Flows!Plain, Flows!Counted
<1>5. FlowShape'
  <2> DEFINE S == [item : Flows!Items, src : Flows!Hosts, dst : Flows!Hosts,
                   proto : {"TCP", "UDP"}, port : Nat]
  <2>1. <<>> \in Seq(S)
    <3> HIDE DEF S
    <3> QED OBVIOUS
  <2> HIDE DEF S
  <2>2a. plan'.flows = <<>> /\ plan'.item = 1 /\ plan'.made = 0
    BY <1>3
  <2>2. plan'.flows \in Seq(S) /\ plan'.item \in Nat \ {0} /\ plan'.made \in Nat
        /\ plan'.pc \in {"start", "counted", "selected", "done"}
    BY <1>2, <2>1, <2>2a
  <2>3. plan' = [pc |-> plan'.pc, item |-> plan'.item, made |-> plan'.made,
                 left |-> plan'.left, flows |-> plan'.flows]
    BY <1>3
  <2>4. S' = S
    BY <1>4 DEF S
  <2>5. plan'.flows \in Seq(S')
    BY <2>2, <2>4
  <2> QED BY <2>2, <2>3, <2>5 DEF FlowShape, S
<1>6. PortsTaken'
  BY <1>3 DEF PortsTaken
<1>7. \A i : Written(i)' = 0
  <2>1. \A i : Flows!FlowsOf(i)' = {}
    BY <1>3 DEF Flows!FlowsOf
  <2> QED BY <2>1, FS_EmptySet DEF Written
<1>8. FlowsCounted'
  <2>1. CASE plan'.pc = "counted"
    <3>1. \A i \in Flows!Items : i >= 1 /\ (i = 1 \/ i > 1)
      <4>1. Flows!Items = 1..Len(req.items) /\ Len(req.items) \in Nat
        BY FlowsSizes DEF Flows!Items
      <4> QED BY <4>1
    <3>2. plan'.item \in 1..(Len(req.items) + 1)
      BY <1>3, FlowsSizes
    <3>3. \A i \in Flows!Items : Written(i)' = IF i < plan'.item THEN req.items[i].abs
                                               ELSE IF i = plan'.item THEN plan'.made ELSE 0
      <4> TAKE i \in Flows!Items
      <4>1. i \in Nat /\ ~(i < 1)
        BY FlowsSizes
      <4>2. plan'.item = 1 /\ plan'.made = 0 /\ Written(i)' = 0
        BY <1>3, <1>7
      <4> QED BY <4>1, <4>2
    <3>4. plan'.item \in Flows!Items => plan'.made <= req.items[plan'.item].abs
      BY <1>3, FlowsSizes
    <3> QED BY <1>1, <1>2, <1>3, <1>4, <2>1, <3>2, <3>3, <3>4 DEF FlowsCounted
  <2>2. CASE plan'.pc = "done"
    <3>1. req.hosts = 0 \/ (~Chosen /\ \A i \in Flows!Items : req.items[i].abs = 0)
      <4>1. CASE req.density = 0 /\ Flows!Counted = {}
        BY <4>1, FlowsSizes DEF Chosen, Flows!Counted
      <4> QED BY <1>2, <2>2, <4>1
    <3>2. Chosen' = Chosen
      BY <1>1, <1>4 DEF Chosen
    <3> QED BY <1>1, <1>4, <1>7, <2>2, <3>1, <3>2 DEF FlowsCounted
  <2> QED BY <1>2, <2>1, <2>2
<1> QED BY <1>5, <1>6, <1>8 DEF FlowsInv

LEMMA FlowsCountsFlow ==
  ASSUME FlowsRequest, FlowsInv, Flows!CountsFlow
  PROVE  FlowsInv'
<1> DEFINE i == plan.item
           host(n) == (n % req.hosts) + 1
<1>1. /\ req' = req /\ plan.pc = "counted" /\ i \in Flows!Items
      /\ FlowShape /\ PortsTaken /\ req.hosts > 0 /\ i \in 1..(Len(req.items) + 1)
      /\ plan.made <= req.items[i].abs
      /\ \A j \in Flows!Items :
           Written(j) = IF j < i THEN req.items[j].abs ELSE IF j = i THEN plan.made ELSE 0
  BY DEF Flows!CountsFlow, Flows!At, FlowsInv, FlowsCounted
<1>2. /\ Flows!Items' = Flows!Items /\ Flows!Hosts' = Flows!Hosts
      /\ req.hosts \in Nat /\ plan.made \in Nat /\ req.items[i].abs \in Nat
      /\ Flows!Items = 1..Len(req.items) /\ Len(req.items) \in Nat
  BY <1>1, FlowsSizes DEF Flows!Items, Flows!Hosts, FlowShape
<1>3. CASE plan.made = req.items[i].abs
  <2>1. /\ plan' = [plan EXCEPT !.item = i + 1, !.made = 0]
    BY <1>1, <1>3 DEF Flows!CountsFlow
  <2>2. /\ plan'.pc = "counted" /\ plan'.item = i + 1 /\ plan'.made = 0 /\ plan'.flows = plan.flows
        /\ plan' = [pc |-> plan'.pc, item |-> plan'.item, made |-> plan'.made,
                    left |-> plan'.left, flows |-> plan'.flows]
    BY <1>1, <2>1 DEF FlowShape
  <2>3. FlowShape'
    BY <1>1, <1>2, <2>2 DEF FlowShape
  <2>4. PortsTaken'
    <3>1. \A d, p : Received(d, p)' = Received(d, p)
      BY <2>2 DEF Received
    <3>2. \A d, p : Cardinality(Received(d, p))' = Cardinality(Received(d, p))
      BY <3>1
    <3>3. Flows!Plain' = Flows!Plain
      BY <1>1 DEF Flows!Plain, Flows!Counted, Flows!Items
    <3> QED BY <1>1, <2>2, <3>2, <3>3 DEF PortsTaken
  <2>5. \A j : Written(j)' = Written(j)
    BY <2>2 DEF Written, Flows!FlowsOf
  <2>6. \A j \in Flows!Items :
          Written(j)' = IF j < plan'.item THEN req.items[j].abs
                        ELSE IF j = plan'.item THEN plan'.made ELSE 0
    BY <1>1, <1>2, <1>3, <2>2, <2>5
  <2>7. plan'.item \in 1..(Len(req.items) + 1)
    BY <1>1, <1>2, <2>2
  <2>8. plan'.item \in Flows!Items => plan'.made <= req.items[plan'.item].abs
    BY <2>2, FlowsSizes
  <2> QED BY <1>1, <1>2, <2>2, <2>3, <2>4, <2>6, <2>7, <2>8 DEF FlowsInv, FlowsCounted
<1>4. CASE plan.made # req.items[i].abs
  <2>1. PICK kind \in Flows!KindsOf(i) :
          plan' = [plan EXCEPT !.made = @ + 1,
                               !.flows = Flows!WithFlow(i, host(plan.made), host(plan.made + 1),
                                                        Flows!Protocol(kind))]
    BY <1>4 DEF Flows!CountsFlow
  <2>2. /\ plan'.flows = Flows!WithFlow(i, host(plan.made), host(plan.made + 1),
                                         Flows!Protocol(kind))
        /\ plan'.pc = "counted" /\ plan'.item = i /\ plan'.made = plan.made + 1
        /\ plan' = [pc |-> plan'.pc, item |-> plan'.item, made |-> plan'.made,
                    left |-> plan'.left, flows |-> plan'.flows]
    BY <1>1, <2>1 DEF FlowShape
  <2>3. /\ host(plan.made) \in Flows!Hosts /\ host(plan.made + 1) \in Flows!Hosts
        /\ Flows!Protocol(kind) \in {"TCP", "UDP"}
    BY SMTT(20), <1>1, <1>2, FlowProtocols, FlowsSizes
  <2>4. host(plan.made) = host(plan.made + 1) => req.hosts = 1
    <3>1. req.hosts \in Nat \ {0} /\ plan.made % req.hosts \in Int
          /\ (plan.made + 1) % req.hosts \in Int
      BY <1>1, <1>2
    <3>2. host(plan.made) = host(plan.made + 1)
            => plan.made % req.hosts = (plan.made + 1) % req.hosts
      BY <3>1
    <3> QED BY <1>2, <3>1, <3>2, NextHostDiffers
  <2>5. PICK src \in Flows!Hosts, dst \in Flows!Hosts, proto \in {"TCP", "UDP"} :
          plan'.flows = Flows!WithFlow(i, src, dst, proto) /\ (src = dst => req.hosts = 1)
    BY <2>2, <2>3, <2>4
  <2>6. i \notin Flows!Plain
    BY <1>1, <1>2, <1>4 DEF Flows!Plain, Flows!Counted
  <2>7. PortsTaken'
    BY <1>1, <2>5, <2>6, PortsStayTaken
  <2>8. FlowAdded(i, src, dst, proto)
    BY <1>1, <2>5, FlowWritten
  <2>9. FlowShape'
    <3>1. plan'.item \in Nat \ {0} /\ plan'.made \in Nat
      BY SMTT(20), <1>1, <1>2, <2>2
    <3>2. plan'.flows \in Seq([item : Flows!Items', src : Flows!Hosts', dst : Flows!Hosts',
                               proto : {"TCP", "UDP"}, port : Nat])
      BY <1>2, <2>8 DEF FlowAdded
    <3> QED BY <2>2, <3>1, <3>2 DEF FlowShape
  <2>10. \A j \in Flows!Items :
           Written(j)' = IF j < plan'.item THEN req.items[j].abs
                         ELSE IF j = plan'.item THEN plan'.made ELSE 0
    <3> TAKE j \in Flows!Items
    <3>1. Written(j) \in Nat /\ Written(j)' = Written(j) + IF j = i THEN 1 ELSE 0
      BY <2>8 DEF FlowAdded
    <3> QED BY SMTT(20), <1>1, <1>2, <2>2, <3>1
  <2> QED BY <1>1, <1>2, <1>4, <2>2, <2>7, <2>9, <2>10 DEF FlowsInv, FlowsCounted
<1> QED BY <1>3, <1>4

\* What the density selects is some hosts.
LEMMA SelectedIsCount ==
  ASSUME FlowsRequest
  PROVE  Flows!Selected \in Nat
<1>1. req.hosts * req.density \in Nat
  BY FlowsSizes
<1>2. (req.hosts * req.density) \div 4 \in Nat
  BY <1>1
<1> DEFINE whole == (req.hosts * req.density) \div 4
           part4 == (req.hosts * req.density) % 4
<1>3. \/ Flows!Selected = 1 \/ Flows!Selected = whole \/ Flows!Selected = whole + 1
  <2> HIDE DEF whole, part4
  <2>1. Flows!Selected = LET rounded == IF part4 > 2 \/ (part4 = 2 /\ whole % 2 = 1)
                                        THEN whole + 1 ELSE whole
                         IN  IF rounded = 0 THEN 1 ELSE rounded
    BY DEF Flows!Selected, whole, part4
  <2> QED BY <2>1
<1> QED
  BY <1>2, <1>3

\* Hosts are finitely many, and a sequence of flows has finitely many of anything.
LEMMA FlowsFinite ==
  ASSUME FlowsRequest, FlowShape
  PROVE  /\ \A S \in SUBSET Flows!Hosts : IsFiniteSet(S) /\ Cardinality(S) \in Nat
         /\ \A i : IsFiniteSet(Flows!FlowsOf(i)) /\ Written(i) \in Nat
<1>1. \A S \in SUBSET Flows!Hosts : IsFiniteSet(S) /\ Cardinality(S) \in Nat
  <2> TAKE S \in SUBSET Flows!Hosts
  <2>1. IsFiniteSet(Flows!Hosts)
    BY SMTT(20), FlowsSizes, FS_Interval
  <2> QED BY <2>1, FS_Subset, FS_CardinalityType
<1>2. \A i : IsFiniteSet(Flows!FlowsOf(i)) /\ Written(i) \in Nat
  <2> TAKE i
  <2>1. IsFiniteSet(DOMAIN plan.flows)
    <3> DEFINE S == [item : Flows!Items, src : Flows!Hosts, dst : Flows!Hosts,
                     proto : {"TCP", "UDP"}, port : Nat]
    <3>1. plan.flows \in Seq(S)
      BY DEF FlowShape
    <3>2. Len(plan.flows) \in Nat /\ DOMAIN plan.flows = 1..Len(plan.flows)
      <4> HIDE DEF S
      <4> QED BY <3>1
    <3>3. \A n \in Nat : IsFiniteSet(1..n)
      BY FS_Interval
    <3> QED BY <3>2, <3>3
  <2>2. Flows!FlowsOf(i) \in SUBSET DOMAIN plan.flows
    BY DEF Flows!FlowsOf
  <2> QED BY <2>1, <2>2, FS_Subset, FS_CardinalityType DEF Written
<1> QED
  BY <1>1, <1>2

LEMMA FlowsSelectsHosts ==
  ASSUME FlowsRequest, FlowsInv, Flows!SelectsHosts
  PROVE  FlowsInv'
<1>1. /\ req' = req /\ plan.pc = "counted" /\ plan.item \notin Flows!Items
      /\ FlowShape /\ PortsTaken /\ req.hosts > 0 /\ plan.item \in 1..(Len(req.items) + 1)
      /\ \A j \in Flows!Items :
           Written(j) = IF j < plan.item THEN req.items[j].abs
                        ELSE IF j = plan.item THEN plan.made ELSE 0
  BY DEF Flows!SelectsHosts, Flows!At, FlowsInv, FlowsCounted
<1>2. PICK hosts \in (IF Chosen THEN Flows!kSubset(Flows!Selected, Flows!Hosts) ELSE {{}}) :
        plan' = [plan EXCEPT !.pc = "selected", !.left = hosts]
  BY DEF Flows!SelectsHosts, Chosen
<1>3. /\ hosts \subseteq Flows!Hosts
      /\ Chosen => Cardinality(hosts) = Flows!Selected
      /\ ~Chosen => hosts = {}
  BY <1>2, FlowsCardinality DEF Flows!kSubset
<1>4. /\ plan'.pc = "selected" /\ plan'.left = hosts /\ plan'.flows = plan.flows
      /\ plan'.item = plan.item /\ plan'.made = plan.made
      /\ plan' = [pc |-> plan'.pc, item |-> plan'.item, made |-> plan'.made,
                  left |-> plan'.left, flows |-> plan'.flows]
  BY <1>1, <1>2 DEF FlowShape
<1>5. /\ Flows!Items' = Flows!Items /\ Flows!Hosts' = Flows!Hosts /\ Flows!Plain' = Flows!Plain
      /\ Flows!Selected' = Flows!Selected /\ Flows!LastPlain' = Flows!LastPlain
      /\ Chosen' = Chosen
  BY <1>1 DEF Flows!Items, Flows!Hosts, Flows!Plain, Flows!Counted, Flows!Selected,
              Flows!LastPlain, Chosen
<1>6. \A j \in Flows!Items : Written(j) = req.items[j].abs
  <2> TAKE j \in Flows!Items
  <2>1. j \in Nat /\ plan.item \in Nat /\ j < plan.item
    BY <1>1, FlowsSizes
  <2> QED BY <1>1, <2>1
<1>7. FlowShape'
  BY <1>1, <1>4, <1>5 DEF FlowShape
<1>8. PortsTaken'
  <2>1. \A d, p : Received(d, p)' = Received(d, p)
    BY <1>4 DEF Received
  <2>2. \A d, p : Cardinality(Received(d, p))' = Cardinality(Received(d, p))
    BY <2>1
  <2> QED BY <1>1, <1>4, <1>5, <2>2 DEF PortsTaken
<1>9. \A j : Written(j)' = Written(j)
  BY <1>4 DEF Written, Flows!FlowsOf
<1>10. \A j \in Flows!Items : j \in Flows!Plain => req.items[j].abs = 0
  BY FlowsSizes DEF Flows!Plain, Flows!Counted
<1>11. \A k \in DOMAIN plan.flows : plan.flows[k].item \notin Flows!Plain
  <2> SUFFICES ASSUME NEW k \in DOMAIN plan.flows, plan.flows[k].item \in Flows!Plain PROVE FALSE
    OBVIOUS
  <2> DEFINE i == plan.flows[k].item
  <2>1. i \in Flows!Items /\ Written(i) = 0
    BY <1>6, <1>10 DEF Flows!Plain
  <2>2. k \in Flows!FlowsOf(i)
    BY DEF Flows!FlowsOf
  <2>3. IsFiniteSet(Flows!FlowsOf(i))
    BY <1>1, FlowsFinite
  <2>4. Cardinality(Flows!FlowsOf(i)) = 0
    BY <2>1 DEF Written
  <2>5. Flows!FlowsOf(i) = {}
    BY <2>3, <2>4, FS_EmptySet
  <2> QED BY <2>2, <2>5
<1>12. \A j \in Flows!Items :
         Written(j)' = IF Chosen /\ j = Flows!LastPlain
                       THEN Flows!Selected - Cardinality(hosts) ELSE req.items[j].abs
  <2> TAKE j \in Flows!Items
  <2>1. CASE Chosen /\ j = Flows!LastPlain
    <3>1. req.items[j].abs = 0
      BY <1>10, <2>1, LastOfPlain DEF Chosen
    <3>2. Cardinality(hosts) = Flows!Selected /\ Flows!Selected \in Nat
      BY <1>3, <2>1, SelectedIsCount
    <3> QED BY <1>6, <1>9, <2>1, <3>1, <3>2
  <2>2. CASE ~(Chosen /\ j = Flows!LastPlain)
    BY <1>6, <1>9, <2>2
  <2> QED BY <2>1, <2>2
<1>13. FlowsCounted'
  <2>1. \A k \in DOMAIN plan'.flows :
          plan'.flows[k].item \in Flows!Plain' => plan'.flows[k].src \notin plan'.left
    BY <1>4, <1>5, <1>11
  <2>2. plan'.left \subseteq Flows!Hosts' /\ (~Chosen' => plan'.left = {})
    BY <1>3, <1>4, <1>5
  <2>3. req'.hosts > 0 /\ req'.hosts # 0
    BY <1>1, FlowsSizes
  <2>4. \A j \in Flows!Items' :
         Written(j)' = IF req'.hosts = 0 THEN 0
                      ELSE IF Chosen' /\ j = Flows!LastPlain'
                      THEN Flows!Selected' - IF plan'.pc = "selected" THEN Cardinality(plan'.left) ELSE 0
                      ELSE req'.items[j].abs
    BY <1>1, <1>4, <1>5, <1>12, <2>3
  <2> QED BY <1>4, <2>1, <2>2, <2>3, <2>4 DEF FlowsCounted
<1> QED BY <1>7, <1>8, <1>13 DEF FlowsInv

LEMMA FlowsSendsFlow ==
  ASSUME FlowsRequest, FlowsInv, Flows!SendsFlow
  PROVE  FlowsInv'
<1> DEFINE i == Flows!LastPlain
<1>1. /\ req' = req /\ plan.pc = "selected"
      /\ FlowShape /\ PortsTaken /\ req.hosts > 0 /\ plan.left \subseteq Flows!Hosts
      /\ (~Chosen => plan.left = {})
      /\ \A k \in DOMAIN plan.flows :
           plan.flows[k].item \in Flows!Plain => plan.flows[k].src \notin plan.left
      /\ \A j \in Flows!Items :
           Written(j) = IF req.hosts = 0 THEN 0
                        ELSE IF Chosen /\ j = i THEN Flows!Selected - Cardinality(plan.left)
                        ELSE req.items[j].abs
  BY DEF Flows!SendsFlow, Flows!At, FlowsInv, FlowsCounted
<1>2. PICK src \in plan.left :
        \E dst \in (IF req.hosts = 1 THEN Flows!Hosts ELSE Flows!Hosts \ {src}),
           kind \in Flows!KindsOf(i) :
          plan' = [plan EXCEPT !.left = @ \ {src},
                               !.flows = Flows!WithFlow(i, src, dst, Flows!Protocol(kind))]
  BY DEF Flows!SendsFlow
<1>3. PICK dst \in (IF req.hosts = 1 THEN Flows!Hosts ELSE Flows!Hosts \ {src}),
           kind \in Flows!KindsOf(i) :
          plan' = [plan EXCEPT !.left = @ \ {src},
                               !.flows = Flows!WithFlow(i, src, dst, Flows!Protocol(kind))]
  BY <1>2
<1>4. /\ plan'.flows = Flows!WithFlow(i, src, dst, Flows!Protocol(kind))
      /\ plan'.pc = "selected" /\ plan'.item = plan.item /\ plan'.made = plan.made
      /\ plan'.left = plan.left \ {src}
      /\ plan' = [pc |-> plan'.pc, item |-> plan'.item, made |-> plan'.made,
                  left |-> plan'.left, flows |-> plan'.flows]
  BY <1>1, <1>3 DEF FlowShape
<1>5. /\ Flows!Items' = Flows!Items /\ Flows!Hosts' = Flows!Hosts /\ Flows!Plain' = Flows!Plain
      /\ Flows!Selected' = Flows!Selected /\ Flows!LastPlain' = Flows!LastPlain
      /\ Chosen' = Chosen
  BY <1>1 DEF Flows!Items, Flows!Hosts, Flows!Plain, Flows!Counted, Flows!Selected,
              Flows!LastPlain, Chosen
<1>6. Chosen /\ i \in Flows!Plain /\ i \in Flows!Items
  BY <1>1, <1>2, LastOfPlain DEF Chosen, Flows!Plain
<1>7. /\ src \in Flows!Hosts /\ dst \in Flows!Hosts
      /\ src = dst => req.hosts = 1
      /\ Flows!Protocol(kind) \in {"TCP", "UDP"}
  BY <1>1, <1>3, FlowProtocols
<1> HIDE DEF i
<1>8. PICK proto \in {"TCP", "UDP"} : plan'.flows = Flows!WithFlow(i, src, dst, proto)
  BY <1>4, <1>7
<1>9. PortsTaken'
  BY <1>1, <1>6, <1>7, <1>8, PortsStayTaken
<1>10. FlowAdded(i, src, dst, proto)
  BY <1>1, <1>6, <1>7, <1>8, FlowWritten
<1>11. FlowShape'
  <2>1. plan'.flows \in Seq([item : Flows!Items', src : Flows!Hosts', dst : Flows!Hosts',
                             proto : {"TCP", "UDP"}, port : Nat])
    BY <1>5, <1>10 DEF FlowAdded
  <2>2. plan'.item \in Nat \ {0} /\ plan'.made \in Nat
    BY <1>1, <1>4 DEF FlowShape
  <2> QED BY <1>4, <2>1, <2>2 DEF FlowShape
<1>12. \A k \in DOMAIN plan'.flows :
         plan'.flows[k].item \in Flows!Plain => plan'.flows[k].src \notin plan'.left
  <2> TAKE k \in DOMAIN plan'.flows
  <2>1. CASE k \in DOMAIN plan.flows
    BY <1>1, <1>4, <1>10, <2>1 DEF FlowAdded
  <2>2. CASE k = Latest
    BY <1>4, <1>10, <2>2 DEF FlowAdded
  <2> QED BY <1>10, <2>1, <2>2 DEF FlowAdded
<1>13. /\ Cardinality(plan.left) \in Nat
       /\ Cardinality(plan'.left) = Cardinality(plan.left) - 1
  <2>1. IsFiniteSet(plan.left) /\ Cardinality(plan.left) \in Nat
    BY <1>1, FlowsFinite
  <2>2. Cardinality(plan.left \ {src}) = Cardinality(plan.left) - 1
    BY <1>2, <2>1, FS_RemoveElement
  <2> QED BY <1>4, <2>1, <2>2
<1>14. req.hosts # 0
  BY <1>1, FlowsSizes
<1>15. \A j \in Flows!Items :
         Written(j)' = IF j = i THEN Flows!Selected - Cardinality(plan'.left)
                       ELSE req.items[j].abs
  <2> TAKE j \in Flows!Items
  <2>1. Written(j) \in Nat /\ Written(j)' = Written(j) + IF j = i THEN 1 ELSE 0
    BY <1>10 DEF FlowAdded
  <2>2. CASE j = i
    <3>1. Written(j) = Flows!Selected - Cardinality(plan.left)
      BY <1>1, <1>6, <1>14, <2>2
    <3>2. Flows!Selected \in Nat
      BY SelectedIsCount
    <3> QED BY <1>13, <2>1, <2>2, <3>1, <3>2
  <2>3. CASE j # i
    BY <1>1, <1>14, <2>1, <2>3
  <2> QED BY <2>2, <2>3
<1>16. FlowsCounted'
  <2>1. plan'.left \subseteq Flows!Hosts' /\ Chosen'
    BY <1>1, <1>4, <1>5, <1>6
  <2>2. \A j \in Flows!Items' :
         Written(j)' = IF req'.hosts = 0 THEN 0
                      ELSE IF Chosen' /\ j = Flows!LastPlain'
                      THEN Flows!Selected' - IF plan'.pc = "selected" THEN Cardinality(plan'.left) ELSE 0
                      ELSE req'.items[j].abs
    BY <1>1, <1>4, <1>5, <1>6, <1>14, <1>15 DEF i
  <2> QED BY <1>1, <1>4, <1>5, <1>12, <2>1, <2>2 DEF FlowsCounted
<1> QED BY <1>9, <1>11, <1>16 DEF FlowsInv

LEMMA FlowsWritesSummary ==
  ASSUME FlowsRequest, FlowsInv, Flows!WritesSummary
  PROVE  FlowsInv'
<1>1. /\ req' = req /\ plan.pc = "selected" /\ FlowShape /\ PortsTaken /\ plan.left = {}
      /\ \A j \in Flows!Items :
           Written(j) = IF req.hosts = 0 THEN 0
                        ELSE IF Chosen /\ j = Flows!LastPlain
                        THEN Flows!Selected - Cardinality(plan.left)
                        ELSE req.items[j].abs
  BY DEF Flows!WritesSummary, Flows!At, FlowsInv, FlowsCounted
<1>2. /\ plan'.pc = "done" /\ plan'.flows = plan.flows /\ plan'.item = plan.item
      /\ plan'.made = plan.made /\ plan'.left = plan.left
      /\ plan' = [pc |-> plan'.pc, item |-> plan'.item, made |-> plan'.made,
                  left |-> plan'.left, flows |-> plan'.flows]
  BY <1>1 DEF Flows!WritesSummary, FlowShape
<1>3. /\ Flows!Items' = Flows!Items /\ Flows!Hosts' = Flows!Hosts /\ Flows!Plain' = Flows!Plain
      /\ Flows!Selected' = Flows!Selected /\ Flows!LastPlain' = Flows!LastPlain
      /\ Chosen' = Chosen
  BY <1>1 DEF Flows!Items, Flows!Hosts, Flows!Plain, Flows!Counted, Flows!Selected,
              Flows!LastPlain, Chosen
<1>4. FlowShape'
  BY <1>1, <1>2, <1>3 DEF FlowShape
<1>5. PortsTaken'
  <2>1. \A d, p : Received(d, p)' = Received(d, p)
    BY <1>2 DEF Received
  <2>2. \A d, p : Cardinality(Received(d, p))' = Cardinality(Received(d, p))
    BY <2>1
  <2> QED BY <1>1, <1>2, <1>3, <2>2 DEF PortsTaken
<1>6. \A j : Written(j)' = Written(j)
  BY <1>2 DEF Written, Flows!FlowsOf
<1>7. Cardinality(plan.left) = 0 /\ Flows!Selected \in Nat
  BY <1>1, FS_EmptySet, SelectedIsCount
<1>8. \A j \in Flows!Items' :
         Written(j)' = IF req'.hosts = 0 THEN 0
                      ELSE IF Chosen' /\ j = Flows!LastPlain'
                      THEN Flows!Selected' - IF plan'.pc = "selected" THEN Cardinality(plan'.left) ELSE 0
                      ELSE req'.items[j].abs
  BY <1>1, <1>2, <1>3, <1>6, <1>7
<1>9. FlowsCounted'
  BY <1>2, <1>8 DEF FlowsCounted
<1> QED BY <1>4, <1>5, <1>9 DEF FlowsInv

LEMMA FlowsStep ==
  ASSUME FlowsRequest, FlowsInv, Flows!Next
  PROVE  FlowsRequest' /\ FlowsInv'
<1>1. FlowsRequest'
  BY DEF FlowsRequest, Flows!Next, Flows!WritesNothing, Flows!Starts, Flows!CountsFlow,
         Flows!SelectsHosts, Flows!SendsFlow, Flows!WritesSummary, Flows!At, Flows!Requests
<1> QED
  BY <1>1, FlowsStart, FlowsCountsFlow, FlowsSelectsHosts, FlowsSendsFlow, FlowsWritesSummary
     DEF Flows!Next

LEMMA FlowsWait ==
  ASSUME FlowsRequest, FlowsInv, UNCHANGED <<req, plan>>
  PROVE  FlowsRequest' /\ FlowsInv'
<1>1. \A d, p : Received(d, p)' = Received(d, p)
  BY DEF Received
<1>2. \A d, p : Cardinality(Received(d, p))' = Cardinality(Received(d, p))
  BY <1>1
<1>3. /\ Flows!Items' = Flows!Items /\ Flows!Hosts' = Flows!Hosts /\ Flows!Plain' = Flows!Plain
      /\ Flows!Selected' = Flows!Selected /\ Flows!LastPlain' = Flows!LastPlain
      /\ Chosen' = Chosen /\ FlowsRequest' = FlowsRequest
  BY DEF Flows!Items, Flows!Hosts, Flows!Plain, Flows!Counted, Flows!Selected,
         Flows!LastPlain, Chosen, FlowsRequest, Flows!Requests
<1>4. \A j : Written(j)' = Written(j)
  BY DEF Written, Flows!FlowsOf
<1>5. FlowShape'
  BY <1>3 DEF FlowsInv, FlowShape
<1>6. PortsTaken'
  BY <1>2, <1>3 DEF FlowsInv, PortsTaken
<1>7. FlowsCounted'
  BY <1>3, <1>4 DEF FlowsInv, FlowsCounted, Flows!Begun
<1> QED
  BY <1>3, <1>5, <1>6, <1>7 DEF FlowsInv

LEMMA FlowsPromise ==
  ASSUME FlowsRequest, FlowsInv
  PROVE  Flows!FlowsAsAsked
<1>1. ASSUME plan.pc = "done", NEW i \in Flows!Items
      PROVE  Flows!Cardinality(Flows!FlowsOf(i)) =
               IF req.hosts = 0 THEN 0
               ELSE IF i \in Flows!Counted THEN req.items[i].abs
               ELSE IF i = Flows!LastPlain /\ req.density > 0 THEN Flows!Selected ELSE 0
  <2>1. Flows!Cardinality(Flows!FlowsOf(i)) = Written(i)
    BY FlowsCardinality DEF Written
  <2>2. Written(i) = IF req.hosts = 0 THEN 0
                     ELSE IF Chosen /\ i = Flows!LastPlain THEN Flows!Selected - 0
                     ELSE req.items[i].abs
    BY <1>1 DEF FlowsInv, FlowsCounted
  <2>3. Flows!Selected - 0 = Flows!Selected
    BY SelectedIsCount
  <2>4. i \in Flows!Counted \/ i \in Flows!Plain
    BY DEF Flows!Plain
  <2>5. i \in Flows!Plain => i \notin Flows!Counted /\ req.items[i].abs = 0
    BY FlowsSizes DEF Flows!Plain, Flows!Counted
  <2>6. Chosen /\ i = Flows!LastPlain => i \in Flows!Plain
    BY LastOfPlain DEF Chosen
  <2>7. CASE req.hosts = 0
    BY <2>1, <2>2, <2>7
  <2>8. CASE req.hosts # 0 /\ i \in Flows!Counted
    BY <2>1, <2>2, <2>5, <2>6, <2>8
  <2>9. CASE req.hosts # 0 /\ i \in Flows!Plain /\ i = Flows!LastPlain /\ req.density > 0
    BY <2>1, <2>2, <2>3, <2>5, <2>9 DEF Chosen
  <2>10. CASE req.hosts # 0 /\ i \in Flows!Plain /\ ~(i = Flows!LastPlain /\ req.density > 0)
    BY <2>1, <2>2, <2>5, <2>10 DEF Chosen
  <2> QED BY <2>4, <2>7, <2>8, <2>9, <2>10
<1>2. \A k, l \in DOMAIN plan.flows :
        /\ plan.flows[k].src = plan.flows[k].dst => req.hosts = 1
        /\ k # l /\ plan.flows[k].dst = plan.flows[l].dst /\ plan.flows[k].proto = plan.flows[l].proto
             => plan.flows[k].port # plan.flows[l].port
        /\ k # l /\ plan.flows[k].item = plan.flows[l].item /\ plan.flows[k].item \in Flows!Plain
             => plan.flows[k].src # plan.flows[l].src
  BY DEF FlowsInv, PortsTaken
<1> QED
  BY <1>1, <1>2 DEF Flows!FlowsAsAsked

\* For every request: each item's flows are as many as were asked of it, no two flows to one
\* destination share a protocol and a port, and no host sends to itself unless it is alone
\* (generate_traffic_scripts).
THEOREM FlowsCorrect == Flows!Spec => []Flows!FlowsAsAsked
<1>1. Flows!Init => FlowsRequest /\ FlowsInv
  BY FlowsBegin DEF Flows!Init, FlowsRequest
<1>2. FlowsRequest /\ FlowsInv /\ [Flows!Next]_Flows!vars => FlowsRequest' /\ FlowsInv'
  BY FlowsStep, FlowsWait DEF Flows!vars
<1> QED
  BY <1>1, <1>2, FlowsPromise, PTL DEF Flows!Spec


-----------------------------------------------------------------------------
(* Scripts of previews and runs *)

ScriptRequest == req \in Scripts!Requests

Dirs == Scripts!Seeds \cup {Scripts!Runtime}

IsFunction(f) == f = [x \in DOMAIN f |-> f[x]]

ScriptsShape ==
  /\ plan = [dir |-> plan.dir, newer |-> plan.newer, pc |-> plan.pc, job |-> plan.job,
             todo |-> plan.todo, touched |-> plan.touched]
  /\ DOMAIN plan.dir = Dirs
  /\ \A d \in Dirs : IsFunction(plan.dir[d])
  /\ plan.pc \in [Scripts!Users -> {"idle", "clean", "fill", "done"}]
  /\ plan.job \in [Scripts!Users -> 1..2]
  /\ DOMAIN plan.todo = Scripts!Users
  /\ plan.touched \in [Dirs -> [Scripts!Users -> SUBSET Scripts!Users]]
  /\ DOMAIN plan.newer \subseteq Scripts!Seeds
  /\ \A u \in Scripts!Users : plan.job[u] = 2 => req.users[u].kind = "preview"

\* What a preview has written to the directory of its seed.
Planned(u) == [n \in req.users[u].names |-> [by |-> u, job |-> "plan"]]

\* A directory nobody else has changed since a user listed it holds what the user listed
\* and has not removed, then what the user has written.
OwnWhile(u) ==
  LET d == Scripts!Target(u) IN
  /\ plan.pc[u] = "clean" /\ Scripts!Undisturbed(u, d) => DOMAIN plan.dir[d] = plan.todo[u]
  /\ plan.pc[u] = "fill" /\ Scripts!Undisturbed(u, d) /\ Scripts!Job(u) # "copy" =>
       /\ plan.todo[u] \subseteq req.users[u].names
       /\ plan.dir[d] = [n \in req.users[u].names \ plan.todo[u] |-> [by |-> u, job |-> Scripts!Job(u)]]
  /\ plan.pc[u] = "fill" /\ Scripts!Undisturbed(u, d) /\ Scripts!Job(u) = "copy"
       /\ Scripts!Undisturbed(u, Scripts!Seed(u)) =>
       /\ plan.todo[u] \subseteq req.users[u].names
       /\ plan.dir[d] = [n \in req.users[u].names \ plan.todo[u] |-> [by |-> u, job |-> "plan"]]
  /\ plan.job[u] = 2 /\ plan.pc[u] # "done" /\ Scripts!Undisturbed(u, Scripts!Seed(u)) =>
       plan.dir[Scripts!Seed(u)] = Planned(u)

OwnAfter(u) ==
  /\ plan.pc[u] = "done"
  /\ Scripts!Undisturbed(u, Scripts!Runtime)
  /\ req.users[u].kind = "run" \/ Scripts!Undisturbed(u, Scripts!Seed(u))
  => plan.dir[Scripts!Runtime] = Scripts!Own(u)

ScriptsInv == ScriptsShape /\ \A u \in Scripts!Users : OwnWhile(u) /\ OwnAfter(u)

LEMMA ScriptUsers ==
  ASSUME ScriptRequest, NEW u \in Scripts!Users
  PROVE  /\ req.users[u].kind \in {"preview", "run"}
         /\ Scripts!Seed(u) # Scripts!Runtime
         /\ req.users[u].kind = "preview" => Scripts!Seed(u) \in Scripts!Seeds
         /\ Scripts!Runtime \in Dirs /\ Scripts!Runtime \notin Scripts!Seeds
<1>1. /\ req.users[u] \in [kind : {"preview", "run"}, seed : Nat \ {0}, names : SUBSET Nat]
      /\ \A v \in Scripts!Users : req.users[v].seed \in Nat \ {0}
  <2> DEFINE S == [kind : {"preview", "run"}, seed : Nat \ {0}, names : SUBSET Nat]
  <2>1. req.users \in Seq(S)
    BY DEF ScriptRequest, Scripts!Requests, Scripts!Kinds
  <2>2. \A v \in DOMAIN req.users : req.users[v] \in S
    <3> HIDE DEF S
    <3> QED BY <2>1
  <2>3. \A r \in S : r.seed \in Nat \ {0}
    OBVIOUS
  <2> QED BY <2>2, <2>3 DEF Scripts!Users
<1> QED
  BY <1>1 DEF Scripts!Seed, Scripts!Runtime, Scripts!Seeds, Scripts!Previews, Dirs

\* The job of a user, and the directory it fills.
LEMMA ScriptJobs ==
  ASSUME ScriptRequest, ScriptsShape, NEW u \in Scripts!Users
  PROVE  /\ Scripts!Job(u) \in {"apply", "plan", "copy"}
         /\ Scripts!Job(u) = "apply" <=> req.users[u].kind = "run"
         /\ Scripts!Job(u) = "plan" <=> req.users[u].kind = "preview" /\ plan.job[u] = 1
         /\ Scripts!Job(u) = "copy" <=> plan.job[u] = 2
         /\ Scripts!Target(u) = IF Scripts!Job(u) = "plan" THEN Scripts!Seed(u) ELSE Scripts!Runtime
         /\ Scripts!Target(u) \in Dirs
<1>1. plan.job[u] \in {1, 2} /\ (plan.job[u] = 2 => req.users[u].kind = "preview")
  BY DEF ScriptsShape
<1>2. req.users[u].kind \in {"preview", "run"}
  BY ScriptUsers
<1>3. /\ Scripts!Job(u) \in {"apply", "plan", "copy"}
      /\ Scripts!Job(u) = "apply" <=> req.users[u].kind = "run"
      /\ Scripts!Job(u) = "plan" <=> req.users[u].kind = "preview" /\ plan.job[u] = 1
      /\ Scripts!Job(u) = "copy" <=> plan.job[u] = 2
  BY <1>1, <1>2 DEF Scripts!Job, Scripts!Jobs
<1> QED
  BY <1>3, ScriptUsers DEF Scripts!Target, Dirs

LEMMA ScriptsBegin ==
  ASSUME ScriptRequest, plan = Scripts!Begun
  PROVE  ScriptsInv
<1>1. ScriptsShape
  BY DEF Scripts!Begun, ScriptsShape, Dirs, Scripts!Empty, IsFunction
<1> QED
  BY <1>1 DEF ScriptsInv, OwnWhile, OwnAfter, Scripts!Begun

\* A step of another user keeps what is said of this one: it changes no directory that
\* matters here, or leaves its mark there.
LEMMA ScriptsOfOthers ==
  ASSUME ScriptRequest, ScriptsShape, NEW u \in Scripts!Users, OwnWhile(u), OwnAfter(u),
         req' = req, plan'.pc[u] = plan.pc[u], plan'.job[u] = plan.job[u],
         plan'.todo[u] = plan.todo[u],
         \A d \in Dirs : plan.touched[d][u] \subseteq plan'.touched[d][u],
         \A d \in Dirs :
           d = Scripts!Runtime \/ (d = Scripts!Seed(u) /\ req.users[u].kind = "preview"
                                   /\ Scripts!AtWork(u))
           => plan'.dir[d] = plan.dir[d] \/ ~(plan'.touched[d][u] \subseteq {u})
  PROVE  OwnWhile(u)' /\ OwnAfter(u)'
<1>1. /\ Scripts!Job(u)' = Scripts!Job(u) /\ Scripts!Target(u)' = Scripts!Target(u)
      /\ Scripts!Seed(u)' = Scripts!Seed(u) /\ Scripts!Own(u)' = Scripts!Own(u)
      /\ Planned(u)' = Planned(u)
  BY DEF Scripts!Job, Scripts!Target, Scripts!Seed, Scripts!Own, Scripts!Final, Planned
<1>2. /\ req.users[u].kind \in {"preview", "run"} /\ Scripts!Runtime \in Dirs
      /\ req.users[u].kind = "preview" => Scripts!Seed(u) \in Dirs
  BY ScriptUsers DEF Dirs
<1>3. /\ Scripts!Job(u) \in {"apply", "plan", "copy"}
      /\ Scripts!Job(u) = "plan" => req.users[u].kind = "preview"
      /\ Scripts!Job(u) = "copy" => req.users[u].kind = "preview" /\ plan.job[u] = 2
      /\ plan.job[u] = 2 => req.users[u].kind = "preview"
      /\ Scripts!Target(u) = IF Scripts!Job(u) = "plan" THEN Scripts!Seed(u) ELSE Scripts!Runtime
  BY ScriptJobs DEF ScriptsShape
<1>4. \A d \in Dirs : Scripts!Undisturbed(u, d)' => Scripts!Undisturbed(u, d)
  BY DEF Scripts!Undisturbed
<1>5. \A d \in Dirs :
        /\ Scripts!Undisturbed(u, d)'
        /\ d = Scripts!Runtime \/ (d = Scripts!Seed(u) /\ req.users[u].kind = "preview"
                                   /\ Scripts!AtWork(u))
        => plan'.dir[d] = plan.dir[d]
  BY DEF Scripts!Undisturbed
<1>6. plan.pc[u] \in {"clean", "fill"} => Scripts!AtWork(u)
  BY DEF Scripts!AtWork
<1>7. plan.job[u] = 2 /\ plan.pc[u] # "done" => Scripts!AtWork(u)
  BY DEF Scripts!AtWork, ScriptsShape
<1>8. OwnWhile(u)'
  BY <1>1, <1>2, <1>3, <1>4, <1>5, <1>6, <1>7 DEF OwnWhile, Scripts!Undisturbed
<1>9. OwnAfter(u)'
  BY <1>1, <1>2, <1>4, <1>5 DEF OwnAfter, Scripts!Undisturbed
<1> QED BY <1>8, <1>9

LEMMA ScriptsLists ==
  ASSUME ScriptRequest, ScriptsInv, NEW w \in Scripts!Users, Scripts!Lists(w)
  PROVE  ScriptsInv'
<1> DEFINE d == Scripts!Target(w)
<1>1. req' = req /\ plan.pc[w] = "idle" /\ ScriptsShape /\ d \in Dirs
  BY ScriptJobs DEF Scripts!Lists, Scripts!At, ScriptsInv
<1>2. /\ plan'.pc = [plan.pc EXCEPT ![w] = "clean"]
      /\ plan'.todo = [plan.todo EXCEPT ![w] = DOMAIN plan.dir[d]]
      /\ plan'.newer = Scripts!Used(d) /\ plan'.job = plan.job /\ plan'.dir = plan.dir
      /\ plan'.touched = [plan.touched EXCEPT ![d] = [@ EXCEPT ![w] = {}]]
      /\ plan' = [dir |-> plan'.dir, newer |-> plan'.newer, pc |-> plan'.pc, job |-> plan'.job,
                  todo |-> plan'.todo, touched |-> plan'.touched]
  BY <1>1 DEF Scripts!Lists, ScriptsShape
<1>3. Scripts!Users' = Scripts!Users /\ Scripts!Seeds' = Scripts!Seeds /\ Dirs' = Dirs
  BY <1>1 DEF Scripts!Users, Scripts!Seeds, Scripts!Previews, Dirs
<1>4. ScriptsShape'
  <2>1. DOMAIN plan'.newer \subseteq Scripts!Seeds
    BY <1>1, <1>2 DEF Scripts!Used, Dirs, ScriptsShape
  <2>2. plan'.touched \in [Dirs -> [Scripts!Users -> SUBSET Scripts!Users]]
    BY <1>1, <1>2 DEF ScriptsShape
  <2> QED BY <1>1, <1>2, <1>3, <2>1, <2>2 DEF ScriptsShape
<1>5. ASSUME NEW u \in Scripts!Users, u # w
      PROVE  OwnWhile(u)' /\ OwnAfter(u)'
  <2>1. \A e \in Dirs : plan'.touched[e][u] = plan.touched[e][u]
    BY <1>1, <1>2, <1>5 DEF ScriptsShape
  <2>2. plan'.pc[u] = plan.pc[u] /\ plan'.job[u] = plan.job[u] /\ plan'.todo[u] = plan.todo[u]
    BY <1>1, <1>2, <1>5 DEF ScriptsShape
  <2> QED BY <1>1, <1>2, <2>1, <2>2, ScriptsOfOthers DEF ScriptsInv
<1>6. OwnWhile(w)' /\ OwnAfter(w)'
  <2>1. plan'.pc[w] = "clean" /\ plan'.todo[w] = DOMAIN plan'.dir[d] /\ plan'.job[w] = plan.job[w]
    BY <1>1, <1>2 DEF ScriptsShape
  <2>2. /\ Scripts!Target(w)' = d /\ Scripts!Seed(w)' = Scripts!Seed(w) /\ Planned(w)' = Planned(w)
    BY <1>1, <1>2 DEF Scripts!Target, Scripts!Job, Scripts!Seed, Planned
  <2>3. plan'.job[w] = 2 /\ Scripts!Undisturbed(w, Scripts!Seed(w))' =>
          plan'.dir[Scripts!Seed(w)] = Planned(w)
    <3> SUFFICES ASSUME plan.job[w] = 2, Scripts!Undisturbed(w, Scripts!Seed(w))'
                 PROVE  plan.dir[Scripts!Seed(w)] = Planned(w)
      BY <1>2, <2>1
    <3>1. d = Scripts!Runtime /\ Scripts!Seed(w) # Scripts!Runtime /\ Scripts!Seed(w) \in Dirs
      BY <1>1, ScriptJobs, ScriptUsers DEF ScriptsShape, Dirs
    <3>2. Scripts!Undisturbed(w, Scripts!Seed(w))
      BY <1>1, <1>2, <2>2, <3>1 DEF Scripts!Undisturbed, ScriptsShape
    <3> QED BY <1>1, <3>2 DEF ScriptsInv, OwnWhile
  <2> QED BY <2>1, <2>2, <2>3 DEF OwnWhile, OwnAfter
<1> QED
  BY <1>3, <1>4, <1>5, <1>6 DEF ScriptsInv

LEMMA ScriptsUnlinks ==
  ASSUME ScriptRequest, ScriptsInv, NEW w \in Scripts!Users, Scripts!Unlinks(w)
  PROVE  ScriptsInv'
<1> DEFINE d == Scripts!Target(w)
<1>1. req' = req /\ plan.pc[w] = "clean" /\ ScriptsShape /\ d \in Dirs
  BY ScriptJobs DEF Scripts!Unlinks, Scripts!At, ScriptsInv
<1>2. PICK n \in plan.todo[w] :
        /\ plan'.pc = plan.pc /\ plan'.job = plan.job /\ plan'.newer = plan.newer
        /\ plan'.todo = [plan.todo EXCEPT ![w] = @ \ {n}]
        /\ plan'.dir = [plan.dir EXCEPT ![d] = Scripts!Restrict(@, DOMAIN @ \ {n})]
        /\ plan'.touched = Scripts!Touches(w)
        /\ plan' = [dir |-> plan'.dir, newer |-> plan'.newer, pc |-> plan'.pc, job |-> plan'.job,
                    todo |-> plan'.todo, touched |-> plan'.touched]
  BY <1>1 DEF Scripts!Unlinks, ScriptsShape
<1>3. Scripts!Users' = Scripts!Users /\ Scripts!Seeds' = Scripts!Seeds /\ Dirs' = Dirs
  BY <1>1 DEF Scripts!Users, Scripts!Seeds, Scripts!Previews, Dirs
<1>4. plan'.touched = [plan.touched EXCEPT ![d] = [v \in Scripts!Users |-> @[v] \cup {w}]]
  BY <1>2 DEF Scripts!Touches
<1>5. ScriptsShape'
  <2>1. plan'.touched \in [Dirs -> [Scripts!Users -> SUBSET Scripts!Users]]
    BY <1>1, <1>4 DEF ScriptsShape
  <2>2. DOMAIN plan'.dir = Dirs /\ \A e \in Dirs : IsFunction(plan'.dir[e])
    BY <1>1, <1>2 DEF ScriptsShape, IsFunction, Scripts!Restrict
  <2> QED BY <1>1, <1>2, <1>3, <2>1, <2>2 DEF ScriptsShape
<1>6. ASSUME NEW u \in Scripts!Users, u # w
      PROVE  OwnWhile(u)' /\ OwnAfter(u)'
  <2>1. /\ \A e \in Dirs : plan.touched[e][u] \subseteq plan'.touched[e][u]
        /\ w \in plan'.touched[d][u]
    BY <1>1, <1>4 DEF ScriptsShape
  <2>2. \A e \in Dirs : plan'.dir[e] = plan.dir[e] \/ ~(plan'.touched[e][u] \subseteq {u})
    BY <1>1, <1>2, <1>6, <2>1 DEF ScriptsShape
  <2>3. plan'.pc[u] = plan.pc[u] /\ plan'.job[u] = plan.job[u] /\ plan'.todo[u] = plan.todo[u]
    BY <1>1, <1>2, <1>6 DEF ScriptsShape
  <2> QED BY <1>1, <2>1, <2>2, <2>3, ScriptsOfOthers DEF ScriptsInv
<1>7. OwnWhile(w)' /\ OwnAfter(w)'
  <2>1. /\ plan'.pc[w] = "clean" /\ plan'.todo[w] = plan.todo[w] \ {n}
        /\ plan'.job[w] = plan.job[w] /\ DOMAIN plan'.dir[d] = DOMAIN plan.dir[d] \ {n}
    BY <1>1, <1>2 DEF ScriptsShape, Scripts!Restrict
  <2>2. /\ Scripts!Target(w)' = d /\ Scripts!Seed(w)' = Scripts!Seed(w) /\ Planned(w)' = Planned(w)
    BY <1>1, <1>2 DEF Scripts!Target, Scripts!Job, Scripts!Seed, Planned
  <2>3. /\ Scripts!Undisturbed(w, d)' => Scripts!Undisturbed(w, d)
        /\ \A e \in Dirs \ {d} : plan'.dir[e] = plan.dir[e]
                                 /\ (Scripts!Undisturbed(w, e)' <=> Scripts!Undisturbed(w, e))
    <3>1. \A e \in Dirs \ {d} : plan'.dir[e] = plan.dir[e] /\ plan'.touched[e] = plan.touched[e]
      BY <1>1, <1>2, <1>4 DEF ScriptsShape
    <3>2. plan'.touched[d][w] = plan.touched[d][w] \cup {w}
      BY <1>1, <1>4 DEF ScriptsShape
    <3> QED BY <2>2, <3>1, <3>2 DEF Scripts!Undisturbed
  <2>4. OwnWhile(w)
    BY DEF ScriptsInv
  <2>5. plan'.job[w] = 2 /\ Scripts!Undisturbed(w, Scripts!Seed(w))' =>
          plan'.dir[Scripts!Seed(w)] = Planned(w)
    <3> SUFFICES ASSUME plan.job[w] = 2, Scripts!Undisturbed(w, Scripts!Seed(w))'
                 PROVE  plan'.dir[Scripts!Seed(w)] = Planned(w)
      BY <2>1
    <3>1. d # Scripts!Seed(w) /\ Scripts!Seed(w) \in Dirs
      BY <1>1, ScriptJobs, ScriptUsers DEF ScriptsShape, Dirs
    <3>2. Scripts!Undisturbed(w, Scripts!Seed(w))
      BY <2>2, <2>3, <3>1 DEF Scripts!Undisturbed
    <3> QED BY <1>1, <2>3, <2>4, <3>1, <3>2 DEF OwnWhile
  <2>6. Scripts!Undisturbed(w, d)' => DOMAIN plan'.dir[d] = plan'.todo[w]
    BY <1>1, <2>1, <2>3, <2>4 DEF OwnWhile
  <2> QED BY <2>1, <2>2, <2>5, <2>6 DEF OwnWhile, OwnAfter, Scripts!Undisturbed
<1> QED
  BY <1>3, <1>5, <1>6, <1>7 DEF ScriptsInv

LEMMA ScriptsCleaned ==
  ASSUME ScriptRequest, ScriptsInv, NEW w \in Scripts!Users, Scripts!Cleaned(w)
  PROVE  ScriptsInv'
<1> DEFINE d == Scripts!Target(w)
<1>1. /\ req' = req /\ plan.pc[w] = "clean" /\ plan.todo[w] = {} /\ ScriptsShape /\ d \in Dirs
      /\ OwnWhile(w)
  BY ScriptJobs DEF Scripts!Cleaned, Scripts!At, ScriptsInv
<1>2. /\ plan'.job = plan.job /\ plan'.newer = plan.newer /\ plan'.dir = plan.dir
      /\ plan'.touched = plan.touched /\ plan'.pc = [plan.pc EXCEPT ![w] = "fill"]
      /\ plan'.todo = [plan.todo EXCEPT ![w] = IF Scripts!Job(w) = "copy"
                                               THEN DOMAIN plan.dir[Scripts!Seed(w)]
                                               ELSE req.users[w].names]
      /\ plan' = [dir |-> plan'.dir, newer |-> plan'.newer, pc |-> plan'.pc, job |-> plan'.job,
                  todo |-> plan'.todo, touched |-> plan'.touched]
  BY <1>1 DEF Scripts!Cleaned, ScriptsShape
<1>3. Scripts!Users' = Scripts!Users /\ Scripts!Seeds' = Scripts!Seeds /\ Dirs' = Dirs
  BY <1>1 DEF Scripts!Users, Scripts!Seeds, Scripts!Previews, Dirs
<1>4. ScriptsShape'
  BY <1>1, <1>2, <1>3 DEF ScriptsShape
<1>5. ASSUME NEW u \in Scripts!Users, u # w
      PROVE  OwnWhile(u)' /\ OwnAfter(u)'
  <2>1. plan'.pc[u] = plan.pc[u] /\ plan'.job[u] = plan.job[u] /\ plan'.todo[u] = plan.todo[u]
    BY <1>1, <1>2, <1>5 DEF ScriptsShape
  <2> QED BY <1>1, <1>2, <2>1, ScriptsOfOthers DEF ScriptsInv
<1>6. OwnWhile(w)' /\ OwnAfter(w)'
  <2>1. /\ plan'.pc[w] = "fill" /\ plan'.job[w] = plan.job[w]
        /\ plan'.todo[w] = IF Scripts!Job(w) = "copy" THEN DOMAIN plan.dir[Scripts!Seed(w)]
                           ELSE req.users[w].names
    BY <1>1, <1>2 DEF ScriptsShape
  <2>2. /\ Scripts!Target(w)' = d /\ Scripts!Seed(w)' = Scripts!Seed(w) /\ Planned(w)' = Planned(w)
        /\ Scripts!Job(w)' = Scripts!Job(w)
    BY <1>1, <1>2 DEF Scripts!Target, Scripts!Job, Scripts!Seed, Planned
  <2>3. \A e : Scripts!Undisturbed(w, e)' <=> Scripts!Undisturbed(w, e)
    BY <1>2 DEF Scripts!Undisturbed
  <2>4. Scripts!Undisturbed(w, d) => DOMAIN plan.dir[d] = {}
    BY <1>1 DEF OwnWhile
  <2>5. ASSUME Scripts!Undisturbed(w, d), NEW c
        PROVE  plan.dir[d] = [n \in req.users[w].names \ req.users[w].names |-> c]
    BY <1>1, <2>4, <2>5 DEF ScriptsShape, IsFunction
  <2>6. CASE Scripts!Job(w) = "copy"
    <3>1. plan.job[w] = 2
      BY <1>1, <2>6, ScriptJobs
    <3>2. Scripts!Undisturbed(w, Scripts!Seed(w)) =>
            /\ plan.dir[Scripts!Seed(w)] = Planned(w)
            /\ plan'.todo[w] = req.users[w].names
      BY <1>1, <2>1, <2>6, <3>1 DEF OwnWhile, Planned
    <3> QED BY <1>1, <1>2, <2>1, <2>2, <2>3, <2>5, <2>6, <3>1, <3>2 DEF OwnWhile, OwnAfter
  <2>7. CASE Scripts!Job(w) # "copy"
    <3>1. plan.job[w] # 2
      BY <1>1, <2>7, ScriptJobs
    <3> QED BY <1>1, <1>2, <2>1, <2>2, <2>3, <2>5, <2>7, <3>1 DEF OwnWhile, OwnAfter
  <2> QED BY <2>6, <2>7
<1> QED
  BY <1>3, <1>4, <1>5, <1>6 DEF ScriptsInv

LEMMA ScriptsWrites ==
  ASSUME ScriptRequest, ScriptsInv, NEW w \in Scripts!Users, Scripts!Writes(w)
  PROVE  ScriptsInv'
<1> DEFINE d == Scripts!Target(w)
           e == Scripts!Seed(w)
           copy == Scripts!Job(w) = "copy"
           names == req.users[w].names
<1>1. /\ req' = req /\ plan.pc[w] = "fill" /\ ScriptsShape /\ d \in Dirs /\ OwnWhile(w)
  BY ScriptJobs DEF Scripts!Writes, Scripts!At, ScriptsInv
<1>2. PICK n \in plan.todo[w] :
        LET content == IF copy THEN plan.dir[e][n] ELSE [by |-> w, job |-> Scripts!Job(w)]
            gone == copy /\ n \notin DOMAIN plan.dir[e]
        IN  /\ plan'.pc = plan.pc /\ plan'.job = plan.job /\ plan'.newer = Scripts!Used(d)
            /\ plan'.todo = [plan.todo EXCEPT ![w] = @ \ {n}]
            /\ plan'.dir = [plan.dir EXCEPT ![d] = IF gone THEN @ ELSE Scripts!With(@, n, content)]
            /\ plan'.touched = IF gone THEN plan.touched ELSE Scripts!Touches(w)
            /\ plan' = [dir |-> plan'.dir, newer |-> plan'.newer, pc |-> plan'.pc,
                        job |-> plan'.job, todo |-> plan'.todo, touched |-> plan'.touched]
  BY <1>1 DEF Scripts!Writes, ScriptsShape
<1> DEFINE content == IF copy THEN plan.dir[e][n] ELSE [by |-> w, job |-> Scripts!Job(w)]
           gone == copy /\ n \notin DOMAIN plan.dir[e]
<1>3. Scripts!Users' = Scripts!Users /\ Scripts!Seeds' = Scripts!Seeds /\ Dirs' = Dirs
  BY <1>1 DEF Scripts!Users, Scripts!Seeds, Scripts!Previews, Dirs
<1>4. plan'.touched = IF gone THEN plan.touched
                      ELSE [plan.touched EXCEPT ![d] = [v \in Scripts!Users |-> @[v] \cup {w}]]
  BY <1>2 DEF Scripts!Touches
<1>5. ScriptsShape'
  <2>1. plan'.touched \in [Dirs -> [Scripts!Users -> SUBSET Scripts!Users]]
    BY <1>1, <1>4 DEF ScriptsShape
  <2>2. DOMAIN plan'.dir = Dirs /\ \A f \in Dirs : IsFunction(plan'.dir[f])
    <3>1. DOMAIN plan'.dir = Dirs /\ \A f \in Dirs \ {d} : plan'.dir[f] = plan.dir[f]
      BY <1>1, <1>2 DEF ScriptsShape
    <3>2. plan'.dir[d] = IF gone THEN plan.dir[d] ELSE Scripts!With(plan.dir[d], n, content)
      BY <1>1, <1>2 DEF ScriptsShape
    <3>3. IsFunction(Scripts!With(plan.dir[d], n, content))
      BY DEF IsFunction, Scripts!With
    <3> QED BY <1>1, <3>1, <3>2, <3>3 DEF ScriptsShape
  <2>3. DOMAIN plan'.newer \subseteq Scripts!Seeds
    BY <1>1, <1>2 DEF Scripts!Used, Dirs, ScriptsShape
  <2>4. plan'.pc = plan.pc /\ plan'.job = plan.job /\ DOMAIN plan'.todo = Scripts!Users
    BY <1>1, <1>2 DEF ScriptsShape
  <2>5. plan' = [dir |-> plan'.dir, newer |-> plan'.newer, pc |-> plan'.pc,
                 job |-> plan'.job, todo |-> plan'.todo, touched |-> plan'.touched]
    BY <1>2
  <2> QED BY <1>1, <1>3, <2>1, <2>2, <2>3, <2>4, <2>5 DEF ScriptsShape
<1>6. ASSUME NEW u \in Scripts!Users, u # w
      PROVE  OwnWhile(u)' /\ OwnAfter(u)'
  <2>1. /\ \A f \in Dirs : plan.touched[f][u] \subseteq plan'.touched[f][u]
        /\ gone \/ w \in plan'.touched[d][u]
    BY <1>1, <1>4 DEF ScriptsShape
  <2>2. \A f \in Dirs : plan'.dir[f] = plan.dir[f] \/ ~(plan'.touched[f][u] \subseteq {u})
    <3>1. \A f \in Dirs \ {d} : plan'.dir[f] = plan.dir[f]
      BY <1>1, <1>2 DEF ScriptsShape
    <3>2. gone => plan'.dir[d] = plan.dir[d]
      BY <1>1, <1>2 DEF ScriptsShape
    <3> QED BY <1>6, <2>1, <3>1, <3>2
  <2>3. plan'.pc[u] = plan.pc[u] /\ plan'.job[u] = plan.job[u] /\ plan'.todo[u] = plan.todo[u]
    BY <1>1, <1>2, <1>6 DEF ScriptsShape
  <2> QED BY <1>1, <2>1, <2>2, <2>3, ScriptsOfOthers DEF ScriptsInv
<1>7. OwnWhile(w)' /\ OwnAfter(w)'
  <2>1. /\ plan'.pc[w] = "fill" /\ plan'.todo[w] = plan.todo[w] \ {n}
        /\ plan'.job[w] = plan.job[w]
        /\ plan'.dir[d] = IF gone THEN plan.dir[d] ELSE Scripts!With(plan.dir[d], n, content)
    BY <1>1, <1>2 DEF ScriptsShape
  <2>2. /\ Scripts!Target(w)' = d /\ Scripts!Seed(w)' = e /\ Planned(w)' = Planned(w)
        /\ Scripts!Job(w)' = Scripts!Job(w)
    BY <1>1, <1>2 DEF Scripts!Target, Scripts!Job, Scripts!Seed, Planned
  <2>3. /\ Scripts!Undisturbed(w, d)' => Scripts!Undisturbed(w, d)
        /\ \A f \in Dirs \ {d} : plan'.dir[f] = plan.dir[f]
                                 /\ (Scripts!Undisturbed(w, f)' <=> Scripts!Undisturbed(w, f))
    <3>1. \A f \in Dirs \ {d} : plan'.dir[f] = plan.dir[f] /\ plan'.touched[f] = plan.touched[f]
      BY <1>1, <1>2, <1>4 DEF ScriptsShape
    <3>2. plan.touched[d][w] \subseteq plan'.touched[d][w]
      BY <1>1, <1>4 DEF ScriptsShape
    <3> QED BY <2>2, <3>1, <3>2 DEF Scripts!Undisturbed
  <2>4. CASE copy
    <3>1. plan.job[w] = 2 /\ d = Scripts!Runtime /\ e # d /\ e \in Dirs
      BY <1>1, <2>4, ScriptJobs, ScriptUsers DEF ScriptsShape, Dirs
    <3>2. Scripts!Undisturbed(w, e)' => plan'.dir[e] = Planned(w) /\ plan.dir[e] = Planned(w)
      BY <1>1, <2>2, <2>3, <3>1 DEF OwnWhile, Scripts!Undisturbed
    <3>3. ASSUME Scripts!Undisturbed(w, d)', Scripts!Undisturbed(w, e)'
          PROVE  /\ plan'.todo[w] \subseteq names
                 /\ plan'.dir[d] = [m \in names \ plan'.todo[w] |-> [by |-> w, job |-> "plan"]]
      <4>1. /\ plan.todo[w] \subseteq names
            /\ plan.dir[d] = [m \in names \ plan.todo[w] |-> [by |-> w, job |-> "plan"]]
        BY <1>1, <2>2, <2>3, <2>4, <3>1, <3>3 DEF OwnWhile, Scripts!Undisturbed
      <4>2. ~gone /\ content = [by |-> w, job |-> "plan"]
        BY <2>4, <3>2, <3>3, <4>1 DEF Planned
      <4> QED BY <2>1, <4>1, <4>2 DEF Scripts!With
    <3> QED BY <1>1, <2>1, <2>2, <2>4, <3>1, <3>2, <3>3 DEF OwnWhile, OwnAfter, Scripts!Undisturbed
  <2>5. CASE ~copy
    <3>1. plan.job[w] # 2
      BY <1>1, <2>5, ScriptJobs
    <3>2. ASSUME Scripts!Undisturbed(w, d)'
          PROVE  /\ plan'.todo[w] \subseteq names
                 /\ plan'.dir[d] = [m \in names \ plan'.todo[w] |-> [by |-> w, job |-> Scripts!Job(w)]]
      <4>1. /\ plan.todo[w] \subseteq names
            /\ plan.dir[d] = [m \in names \ plan.todo[w] |-> [by |-> w, job |-> Scripts!Job(w)]]
        BY <1>1, <2>2, <2>3, <2>5, <3>2 DEF OwnWhile, Scripts!Undisturbed
      <4> QED BY <2>1, <2>5, <4>1 DEF Scripts!With
    <3> QED BY <1>1, <2>1, <2>2, <2>5, <3>1, <3>2 DEF OwnWhile, OwnAfter, Scripts!Undisturbed
  <2> QED BY <2>4, <2>5
<1> QED
  BY <1>3, <1>5, <1>6, <1>7 DEF ScriptsInv

LEMMA ScriptsFilled ==
  ASSUME ScriptRequest, ScriptsInv, NEW w \in Scripts!Users, Scripts!Filled(w)
  PROVE  ScriptsInv'
<1> DEFINE last == plan.job[w] = Len(Scripts!Jobs(req.users[w].kind))
<1>1. /\ req' = req /\ plan.pc[w] = "fill" /\ plan.todo[w] = {} /\ ScriptsShape /\ OwnWhile(w)
  BY DEF Scripts!Filled, Scripts!At, ScriptsInv
<1>2. PICK old \in SUBSET (DOMAIN plan.newer \ Scripts!InUse) :
        /\ plan'.todo = plan.todo /\ plan'.touched = plan.touched
        /\ plan'.pc = [plan.pc EXCEPT ![w] = IF last THEN "done" ELSE "idle"]
        /\ plan'.job = [plan.job EXCEPT ![w] = IF last THEN @ ELSE @ + 1]
        /\ plan'.dir = [d \in DOMAIN plan.dir |-> IF d \in old THEN Scripts!Empty ELSE plan.dir[d]]
        /\ plan'.newer = [d \in DOMAIN plan.newer \ old |-> plan.newer[d] \ old]
        /\ plan' = [dir |-> plan'.dir, newer |-> plan'.newer, pc |-> plan'.pc,
                    job |-> plan'.job, todo |-> plan'.todo, touched |-> plan'.touched]
  BY ZenonT(40), <1>1 DEF Scripts!Filled, ScriptsShape
<1>3. Scripts!Users' = Scripts!Users /\ Scripts!Seeds' = Scripts!Seeds /\ Dirs' = Dirs
  BY <1>1 DEF Scripts!Users, Scripts!Seeds, Scripts!Previews, Dirs
<1>4. /\ last <=> Scripts!Job(w) # "plan"
      /\ ~last => plan.job[w] = 1 /\ req.users[w].kind = "preview"
  BY <1>1, ScriptJobs, ScriptUsers DEF Scripts!Jobs, ScriptsShape
<1>5. ScriptsShape'
  <2>1. DOMAIN plan'.dir = Dirs /\ \A f \in Dirs : IsFunction(plan'.dir[f])
    BY <1>1, <1>2 DEF ScriptsShape, IsFunction, Scripts!Empty
  <2>2. plan'.pc \in [Scripts!Users -> {"idle", "clean", "fill", "done"}]
    BY <1>1, <1>2 DEF ScriptsShape
  <2>3. /\ plan'.job \in [Scripts!Users -> 1..2]
        /\ \A u \in Scripts!Users : plan'.job[u] = 2 => req.users[u].kind = "preview"
    BY <1>1, <1>2, <1>4 DEF ScriptsShape
  <2> QED BY <1>1, <1>2, <1>3, <2>1, <2>2, <2>3 DEF ScriptsShape
<1>6. Scripts!Runtime \notin old /\ Scripts!Runtime \in Dirs
  BY <1>1, ScriptUsers DEF ScriptsShape
<1>7. ASSUME NEW u \in Scripts!Users, req.users[u].kind = "preview", Scripts!AtWork(u)
      PROVE  Scripts!Seed(u) \notin old /\ Scripts!Seed(u) \in Dirs
  BY <1>7, ScriptUsers DEF Scripts!InUse, Scripts!Previews, Dirs
<1>8. ASSUME NEW u \in Scripts!Users, u # w
      PROVE  OwnWhile(u)' /\ OwnAfter(u)'
  <2>1. plan'.pc[u] = plan.pc[u] /\ plan'.job[u] = plan.job[u] /\ plan'.todo[u] = plan.todo[u]
    BY <1>1, <1>2, <1>8 DEF ScriptsShape
  <2>2. \A d \in Dirs : d \notin old => plan'.dir[d] = plan.dir[d]
    BY <1>1, <1>2 DEF ScriptsShape
  <2> QED BY <1>1, <1>2, <1>6, <1>7, <2>1, <2>2, ScriptsOfOthers DEF ScriptsInv
<1>9. OwnWhile(w)' /\ OwnAfter(w)'
  <2>1. /\ plan'.pc[w] = IF last THEN "done" ELSE "idle"
        /\ plan'.job[w] = IF last THEN plan.job[w] ELSE plan.job[w] + 1
    BY <1>1, <1>2 DEF ScriptsShape
  <2>2. /\ Scripts!Seed(w)' = Scripts!Seed(w) /\ Planned(w)' = Planned(w)
        /\ Scripts!Own(w)' = Scripts!Own(w)
        /\ \A d : Scripts!Undisturbed(w, d)' <=> Scripts!Undisturbed(w, d)
    BY <1>1, <1>2 DEF Scripts!Seed, Planned, Scripts!Own, Scripts!Final, Scripts!Undisturbed
  <2>3. plan'.dir[Scripts!Runtime] = plan.dir[Scripts!Runtime]
    BY <1>1, <1>2, <1>6 DEF ScriptsShape
  <2>4. Scripts!AtWork(w)
    BY <1>1 DEF Scripts!AtWork
  <2>5. \A S : S \ {} = S
    OBVIOUS
  <2>6. CASE ~last
    <3>1. Scripts!Job(w) = "plan" /\ Scripts!Target(w) = Scripts!Seed(w)
      BY <1>1, <1>4, <2>6, ScriptJobs
    <3>2. Scripts!Undisturbed(w, Scripts!Seed(w)) => plan.dir[Scripts!Seed(w)] = Planned(w)
      BY <1>1, <2>5, <3>1 DEF OwnWhile, Planned
    <3>3. plan'.dir[Scripts!Seed(w)] = plan.dir[Scripts!Seed(w)]
      BY <1>1, <1>2, <1>4, <1>7, <2>4, <2>6 DEF ScriptsShape
    <3> QED BY <2>1, <2>2, <2>6, <3>2, <3>3 DEF OwnWhile, OwnAfter, Scripts!Undisturbed
  <2>7. CASE last
    <3>1. /\ Scripts!Job(w) \in {"apply", "copy"} /\ Scripts!Target(w) = Scripts!Runtime
          /\ Scripts!Job(w) = "apply" <=> req.users[w].kind = "run"
      BY <1>1, <1>4, <2>7, ScriptJobs
    <3>2. /\ Scripts!Undisturbed(w, Scripts!Runtime)
          /\ req.users[w].kind = "run" \/ Scripts!Undisturbed(w, Scripts!Seed(w))
          => plan.dir[Scripts!Runtime] = Scripts!Own(w)
      BY <1>1, <2>5, <3>1 DEF OwnWhile, Scripts!Own, Scripts!Final
    <3> QED BY <1>1, <2>1, <2>2, <2>3, <2>7, <3>2 DEF OwnWhile, OwnAfter, Scripts!Undisturbed
  <2> QED BY <2>6, <2>7
<1> QED
  BY <1>3, <1>5, <1>8, <1>9 DEF ScriptsInv

LEMMA ScriptsStep ==
  ASSUME ScriptRequest, ScriptsInv, Scripts!Next
  PROVE  ScriptRequest' /\ ScriptsInv'
<1>1. PICK u \in Scripts!Users : \/ Scripts!Lists(u) \/ Scripts!Unlinks(u) \/ Scripts!Cleaned(u)
                                 \/ Scripts!Writes(u) \/ Scripts!Filled(u)
  BY DEF Scripts!Next
<1>2. req' = req
  BY <1>1 DEF Scripts!Lists, Scripts!Unlinks, Scripts!Cleaned, Scripts!Writes, Scripts!Filled,
              Scripts!At
<1> QED
  BY <1>1, <1>2, ScriptsLists, ScriptsUnlinks, ScriptsCleaned, ScriptsWrites, ScriptsFilled
  DEF ScriptRequest, Scripts!Requests

LEMMA ScriptsWait ==
  ASSUME ScriptRequest, ScriptsInv, UNCHANGED <<req, plan>>
  PROVE  ScriptRequest' /\ ScriptsInv'
<1>1. ScriptRequest' /\ Dirs' = Dirs /\ Scripts!Users' = Scripts!Users
      /\ Scripts!Seeds' = Scripts!Seeds
  BY DEF ScriptRequest, Scripts!Requests, Dirs, Scripts!Users, Scripts!Seeds, Scripts!Previews
<1>2. ScriptsShape'
  BY <1>1 DEF ScriptsInv, ScriptsShape
<1>3. \A u \in Scripts!Users : OwnWhile(u)' /\ OwnAfter(u)'
  BY <1>1, ScriptsOfOthers DEF ScriptsInv
<1> QED BY <1>1, <1>2, <1>3 DEF ScriptsInv

\* For any previews and runs, with any seeds: whoever is done has its own scripts in the
\* runtime directory, unless another has changed a directory since it was listed
\* (build_full_preview, clean_stale_preview_dirs).
THEOREM ScriptsCorrect == Scripts!Spec => []Scripts!OwnScriptsUnlessTouched
<1>1. Scripts!Init => ScriptRequest /\ ScriptsInv
  BY ScriptsBegin DEF Scripts!Init, ScriptRequest
<1>2. ScriptRequest /\ ScriptsInv /\ [Scripts!Next]_Scripts!vars => ScriptRequest' /\ ScriptsInv'
  BY ScriptsStep, ScriptsWait DEF Scripts!vars
<1>3. ScriptsInv => Scripts!OwnScriptsUnlessTouched
  BY DEF ScriptsInv, OwnAfter, Scripts!OwnScriptsUnlessTouched
<1> QED
  BY <1>1, <1>2, <1>3, PTL DEF Scripts!Spec

-----------------------------------------------------------------------------
(* Segmentation *)

SegmentRequest == req \in Segments!Requests

SegmentRule ==
  [node : Nat, type : Segments!Drops \cup {"none", "nat", "custom", "allow", "dnat"},
   chain : {"", "FORWARD", "INPUT", "OUTPUT"}, src : SUBSET Int, dst : SUBSET Int, port : Nat]

SegmentPlan ==
  [pc : {"slots", "allow", "dnat", "done"}, slot : Nat, node : Nat, more : Nat,
   service : BOOLEAN, flow : Nat \ {0}, rules : Seq(SegmentRule), enabled : SUBSET Nat,
   used : SUBSET Nat, nat : SUBSET Nat, fw : SUBSET Nat, reported : SUBSET Nat]

\* The routers no earlier run put a script on that matters to a slot, the slots that have
\* had a node so far, and the slots for NAT, which come first.
FoundFirst ==
  {req.prior[i].node : i \in {j \in DOMAIN req.prior :
                                req.prior[j].type \in Segments!Drops \cup {"nat"}}}
CleanFirst == Segments!Routers \ FoundFirst
Taken == plan.slot - 1 + IF plan.more > 0 THEN 1 ELSE 0
NatSlots == Len(Segments!Counted("NAT"))
NatNodes == Segments!NodesOf({"nat"})
DropNodes == Segments!NodesOf(Segments!Drops)

\* What the planner counts as taken is what its rules are on, or was found.
SegmentNodes ==
  /\ NatNodes \subseteq plan.nat \cap Segments!Routers
  /\ DropNodes \subseteq plan.fw
  /\ plan.nat \cup plan.fw \subseteq FoundFirst \cup plan.used
  /\ NatNodes \cap DropNodes = {}
  /\ \A i, j \in DOMAIN plan.rules :
       /\ i # j /\ plan.rules[i].type = "nat" /\ plan.rules[j].type = "nat"
       => plan.rules[i].node # plan.rules[j].node

\* As long as there are clean routers each slot takes a node of its own.
SegmentSlots ==
  /\ plan.slot <= Segments!Slots + 1
  /\ IsFiniteSet(plan.used)
  /\ Taken <= Cardinality(CleanFirst) => Cardinality(plan.used) = Taken
  /\ NatSlots <= Cardinality(CleanFirst) =>
       Cardinality(NatNodes) >= IF plan.slot > NatSlots THEN NatSlots ELSE plan.slot - 1

SegmentMore ==
  plan.more > 0 =>
    /\ plan.pc = "slots"
    /\ plan.slot \in 1..Segments!Slots /\ plan.slot > NatSlots
    /\ plan.node \in plan.used /\ plan.node \notin NatNodes
    /\ plan.node \in Segments!Routers \cup Segments!Hosts

\* A rule that accepts a flow at a node.
Allows(i, n, chain, f) ==
  LET r == plan.rules[i]
  IN  /\ r.type = "allow" /\ r.node = n /\ r.chain = chain /\ r.port = f.port
      /\ f.src \in r.src /\ f.dst \in r.dst

LetThrough(f) ==
  /\ \A n \in Segments!Routers : \E i \in DOMAIN plan.rules : Allows(i, n, "FORWARD", f)
  /\ \E i \in DOMAIN plan.rules : Allows(i, f.dst, "INPUT", f)

\* The rules let each flow done so far through wherever it may have been blocked.
SegmentFlows ==
  /\ plan.pc = "slots" => plan.flow = 1
  /\ \A k \in DOMAIN req.flows :
       /\ plan.pc \in {"dnat", "done"} \/ (plan.pc = "allow" /\ k < plan.flow)
       /\ Segments!Blocked(req.flows[k])
       => LetThrough(req.flows[k])

SegmentInv ==
  /\ plan \in SegmentPlan
  /\ plan.pc = "slots" /\ plan.slot = 0 => plan = Segments!Begun
  /\ SegmentMore
  /\ plan.slot > 0 => SegmentNodes /\ SegmentSlots
  /\ SegmentFlows

-----------------------------------------------------------------------------
LEMMA SegmentCardinality ==
  \A S : Segments!Cardinality(S) = Cardinality(S) /\ (Segments!IsFiniteSet(S) <=> IsFiniteSet(S))
BY DEF Segments!Cardinality, Cardinality, Segments!IsFiniteSet, IsFiniteSet

LEMMA SegmentSizes ==
  ASSUME SegmentRequest
  PROVE  /\ req.routers \in Nat /\ Segments!Routers = 1..req.routers
         /\ Segments!Hosts \subseteq Nat /\ IsFiniteSet(Segments!Hosts)
         /\ Segments!Hosts \cap Segments!Routers = {}
         /\ \A h \in Segments!Hosts : req.net[h] \in Nat /\ req.net[h] \in Segments!Nets
         /\ Segments!Nets \subseteq Nat /\ IsFiniteSet(Segments!Nets)
         /\ \A r \in Segments!Routers : req.primary[r] \in Nat
         /\ req.density \in Nat /\ req.prior \in Seq(SegmentRule)
         /\ Len(req.items) \in Nat /\ DOMAIN req.items = 1..Len(req.items)
         /\ \A i \in DOMAIN req.items :
              req.items[i].abs \in Nat /\ req.items[i].name \in Segments!Kinds \cup {"Random"}
         /\ Len(req.flows) \in Nat /\ DOMAIN req.flows = 1..Len(req.flows)
         /\ \A k \in DOMAIN req.flows :
              /\ req.flows[k].src \in Segments!Hosts /\ req.flows[k].dst \in Segments!Hosts
              /\ req.flows[k].port \in Nat
<1> DEFINE I == [name : Segments!Kinds \cup {"Random"}, abs : Nat, factor : Nat]
           F == [src : Nat, dst : Nat, port : Nat]
<1>1. /\ req.routers \in Nat /\ req.net \in UNION {[S -> Nat] : S \in SUBSET Nat}
      /\ req.primary \in Seq(Nat) /\ req.items \in Seq(I) /\ req.density \in Nat
      /\ req.prior \in Seq(SegmentRule) /\ req.flows \in Seq(F)
      /\ Segments!IsFiniteSet(DOMAIN req.net) /\ DOMAIN req.net \cap 1..req.routers = {}
      /\ Len(req.primary) = req.routers
      /\ \A i \in DOMAIN req.flows : {req.flows[i].src, req.flows[i].dst} \subseteq DOMAIN req.net
  BY DEF SegmentRequest, Segments!Requests, SegmentRule
<1>2. PICK S \in SUBSET Nat : req.net \in [S -> Nat]
  BY <1>1
<1>3. IsFiniteSet(S) /\ S = Segments!Hosts /\ S \cap 1..req.routers = {}
  BY <1>1, <1>2, SegmentCardinality DEF Segments!Hosts
<1>4. Segments!Nets = {req.net[h] : h \in S}
  BY <1>2 DEF Segments!Nets, Segments!Range
<1>5. IsFiniteSet(Segments!Nets) /\ Segments!Nets \subseteq Nat
  <2>1. req.net \in Surjection(S, Segments!Nets)
    BY <1>2, <1>4 DEF Surjection
  <2> QED
    BY <1>2, <1>3, <1>4, <2>1, FS_Surjection
<1>6. \A r \in 1..req.routers : req.primary[r] \in Nat
  BY <1>1
<1>9. Len(req.items) \in Nat /\ DOMAIN req.items = 1..Len(req.items)
      /\ \A i \in DOMAIN req.items : req.items[i] \in I
  <2> HIDE DEF I
  <2> QED BY <1>1
<1>10. \A x \in I : x.abs \in Nat /\ x.name \in Segments!Kinds \cup {"Random"}
  OBVIOUS
<1>11. Len(req.flows) \in Nat /\ DOMAIN req.flows = 1..Len(req.flows)
       /\ \A k \in DOMAIN req.flows : req.flows[k] \in F
  <2> HIDE DEF F
  <2> QED BY <1>1
<1>12. \A f \in F : f.port \in Nat
  OBVIOUS
<1>13. \A k \in DOMAIN req.flows : req.flows[k].src \in S /\ req.flows[k].dst \in S
                                   /\ req.flows[k].port \in Nat
  <2> HIDE DEF F
  <2> QED BY <1>1, <1>3, <1>11, <1>12 DEF Segments!Hosts
<1>14. \A h \in S : req.net[h] \in Nat /\ req.net[h] \in Segments!Nets
  BY <1>2, <1>4
<1>16. \A i \in DOMAIN req.items :
         req.items[i].abs \in Nat /\ req.items[i].name \in Segments!Kinds \cup {"Random"}
  <2> HIDE DEF I
  <2> QED BY <1>9, <1>10
<1> HIDE DEF I, F
<1> QED
  BY <1>1, <1>3, <1>2, <1>5, <1>6, <1>9, <1>11, <1>13, <1>14, <1>16
  DEF Segments!Routers

\* The concatenation of sequences of one kind is one of them.
LEMMA FlattenOf ==
  ASSUME NEW S, NEW seqs \in Seq(Seq(S))
  PROVE  Segments!FlattenSeq(seqs) \in Seq(S)
<1> DEFINE n == Len(seqs)
           Defines(f, m) == f = [i \in 1..m |-> IF i = 1 THEN seqs[i] ELSE f[i - 1] \o seqs[i]]
           Made(f, m) == Defines(f, m) /\ \A i \in 1..m : f[i] \in Seq(S)
           T == {m \in 1..n : ~ \E f : Defines(f, m)}
           flatten == CHOOSE f : Defines(f, n)
<1>1. n \in Nat /\ \A i \in 1..n : seqs[i] \in Seq(S)
  OBVIOUS
<1>2. CASE n = 0
  <2>1. seqs \in Seq(S)
    BY <1>2
  <2> QED BY <1>2, <2>1 DEF Segments!FlattenSeq
<1>3. CASE n # 0
  <2>1. T = {}
    <3> SUFFICES ASSUME T # {} PROVE FALSE
      OBVIOUS
    <3>1. PICK m \in T : \A k \in T : m <= k
      <4>1. T \subseteq Nat
        <5> HIDE DEF Defines
        <5> QED BY <1>1
      <4> HIDE DEF T
      <4> QED BY <4>1, LeastNatural
    <3>2. m \in 1..n
      BY <3>1
    <3>3. CASE m = 1
      <4> DEFINE f == [i \in 1..1 |-> seqs[1]]
      <4>1. \A i \in 1..1 : i = 1
        OBVIOUS
      <4>2. Defines(f, 1)
        BY <4>1
      <4> QED BY <3>1, <3>3, <4>2
    <3>4. CASE m # 1
      <4>1. m - 1 \in 1..n /\ m - 1 \notin T
        <5>1. m - 1 \in 1..n
          BY <1>1, <3>2, <3>4
        <5>2. m - 1 \notin T
          <6>1. m \in Nat
            BY <1>1, <3>2
          <6> HIDE DEF T
          <6> QED BY <3>1, <6>1
        <5> QED BY <5>1, <5>2
      <4>2. PICK g : Defines(g, m - 1)
        BY <4>1
      <4> DEFINE f == [i \in 1..m |-> IF i = m THEN g[m - 1] \o seqs[m] ELSE g[i]]
      <4>3. \A i \in 1..m : f[i] = IF i = 1 THEN seqs[i] ELSE f[i - 1] \o seqs[i]
        <5> SUFFICES ASSUME NEW i \in 1..m
                     PROVE  f[i] = IF i = 1 THEN seqs[i] ELSE f[i - 1] \o seqs[i]
          OBVIOUS
        <5>1. CASE i = m
          <6>1. i # 1 /\ i - 1 = m - 1 /\ i - 1 # m /\ i - 1 \in 1..m
            BY <3>2, <3>4, <5>1
          <6> QED BY <5>1, <6>1
        <5>2. CASE i # m
          <6>1. i \in 1..(m - 1)
            BY <3>2, <5>2
          <6>2. g[i] = IF i = 1 THEN seqs[i] ELSE g[i - 1] \o seqs[i]
            BY <4>2, <6>1
          <6>3. i # 1 => i - 1 \in 1..m /\ i - 1 # m
            BY <3>2, <6>1
          <6> QED BY <5>2, <6>2, <6>3
        <5> QED BY <5>1, <5>2
      <4>4. Defines(f, m)
        BY <4>3
      <4> QED BY <3>1, <4>4
    <3> QED BY <3>3, <3>4
  <2>2. Defines(flatten, n)
    <3>1. \E f : Defines(f, n)
      <4>1. n \in 1..n
        BY <1>1, <1>3
      <4> QED BY <2>1, <4>1
    <3> HIDE DEF Defines
    <3> QED BY <3>1
  <2> DEFINE U == {i \in 1..n : flatten[i] \notin Seq(S)}
  <2> HIDE DEF flatten
  <2>3. U = {}
    <3> SUFFICES ASSUME U # {} PROVE FALSE
      OBVIOUS
    <3>1. PICK i \in U : \A j \in U : i <= j
      <4>1. U \subseteq Nat
        OBVIOUS
      <4> HIDE DEF U
      <4> QED BY <4>1, LeastNatural
    <3>2. flatten[i] = IF i = 1 THEN seqs[i] ELSE flatten[i - 1] \o seqs[i]
      BY <2>2, <3>1
    <3>3. i # 1 => i - 1 \in 1..n /\ i - 1 \notin U
      BY <3>1
    <3>4. i # 1 => flatten[i - 1] \in Seq(S)
      BY <3>3
    <3>5. seqs[i] \in Seq(S)
      BY <1>1, <3>1
    <3>6. flatten[i] \in Seq(S)
      BY <3>2, <3>4, <3>5
    <3> QED BY <3>1, <3>6
  <2>4. Segments!FlattenSeq(seqs) = flatten[n]
    BY <1>3 DEF Segments!FlattenSeq, flatten
  <2> QED BY <1>1, <1>3, <2>3, <2>4
<1> QED BY <1>2, <1>3

\* A set is made a sequence of just its elements.
LEMMA SetToSeqOf ==
  ASSUME NEW S, IsFiniteSet(S)
  PROVE  Segments!SetToSeq(S) \in Seq(S) /\ Segments!Range(Segments!SetToSeq(S)) = S
<1> DEFINE n == Cardinality(S)
           f == Segments!SetToSeq(S)
<1>1. n \in Nat /\ ExistsBijection(1..n, S)
  BY FS_CardinalityType
<1>2. \E g \in [1..n -> S] : Segments!IsInjective(g)
  BY <1>1 DEF ExistsBijection, Bijection, Injection, IsInjective, Segments!IsInjective
<1>3. f \in [1..n -> S] /\ Segments!IsInjective(f)
  BY <1>2, SegmentCardinality DEF Segments!SetToSeq
<1>4. f \in Injection(1..n, S)
  BY <1>3 DEF Injection, IsInjective, Segments!IsInjective
<1>5. IsFiniteSet(1..n) /\ Cardinality(1..n) = n
  BY <1>1, FS_Interval
<1>6. f \in Surjection(1..n, S)
  <2> HIDE DEF f
  <2> QED BY <1>4, <1>5, FS_Injection
<1> QED
  BY <1>1, <1>3, <1>6 DEF Surjection, Segments!Range

LEMMA SegmentCounts ==
  ASSUME SegmentRequest
  PROVE  /\ NatSlots \in Nat /\ Segments!Slots \in Nat /\ NatSlots <= Segments!Slots
         /\ NatSlots <= Len(Segments!Sequence)
         /\ \A i \in 1..NatSlots : Segments!Sequence[i] = "NAT"
         /\ IsFiniteSet(CleanFirst) /\ Cardinality(CleanFirst) \in Nat
<1> DEFINE Names == Segments!Kinds \cup {"Random"}
           Items(name) == [i \in DOMAIN req.items |->
                             IF (req.items[i].name = "NAT") = (name = "NAT")
                             THEN [k \in 1..req.items[i].abs |-> req.items[i].name] ELSE <<>>]
<1>1. Items("NAT") \in Seq(Seq({"NAT"})) /\ Items("others") \in Seq(Seq(Names))
  <2>1. \A i \in DOMAIN req.items :
          /\ req.items[i].name = "NAT" => [k \in 1..req.items[i].abs |-> req.items[i].name] \in Seq({"NAT"})
          /\ [k \in 1..req.items[i].abs |-> req.items[i].name] \in Seq(Names)
    BY SegmentSizes
  <2>2. ASSUME NEW i \in DOMAIN req.items
        PROVE  Items("NAT")[i] \in Seq({"NAT"}) /\ Items("others")[i] \in Seq(Names)
    <3>1. <<>> \in Seq({"NAT"}) /\ <<>> \in Seq(Names)
      OBVIOUS
    <3>2. CASE req.items[i].name = "NAT"
      <4>1. Items("NAT")[i] = [k \in 1..req.items[i].abs |-> req.items[i].name]
            /\ Items("others")[i] = <<>>
        BY <3>2, Zenon
      <4> HIDE DEF Items, Names
      <4> QED BY <2>1, <3>1, <3>2, <4>1
    <3>3. CASE req.items[i].name # "NAT"
      <4>1. Items("others")[i] = [k \in 1..req.items[i].abs |-> req.items[i].name]
            /\ Items("NAT")[i] = <<>>
        BY <3>3, Zenon
      <4> HIDE DEF Items, Names
      <4> QED BY <2>1, <3>1, <3>3, <4>1
    <3> QED BY <3>2, <3>3
  <2>3. DOMAIN Items("NAT") = 1..Len(req.items) /\ DOMAIN Items("others") = 1..Len(req.items)
        /\ Len(req.items) \in Nat
    BY SegmentSizes
  <2>4. Items("NAT") = [i \in 1..Len(req.items) |-> Items("NAT")[i]]
        /\ Items("others") = [i \in 1..Len(req.items) |-> Items("others")[i]]
    BY <2>3
  <2> HIDE DEF Items, Names
  <2> QED
    BY <2>2, <2>3, <2>4
<1>2. Segments!Counted("NAT") = Segments!FlattenSeq(Items("NAT"))
      /\ Segments!Counted("others") = Segments!FlattenSeq(Items("others"))
  BY DEF Segments!Counted
<1> HIDE DEF Items
<1>3. Segments!Counted("NAT") \in Seq({"NAT"}) /\ Segments!Counted("others") \in Seq(Names)
  BY <1>1, <1>2, FlattenOf
<1>4. PICK s \in Seq({"NAT"}), t \in Seq(Names) : NatSlots = Len(s) /\ Segments!Sequence = s \o t
  BY <1>3 DEF NatSlots, Segments!Sequence
<1>5. Len(s) \in Nat /\ Len(t) \in Nat /\ Len(s \o t) = Len(s) + Len(t)
      /\ \A i \in 1..Len(s) : s[i] = "NAT" /\ (s \o t)[i] = s[i]
  <2>1. "NAT" \in Names
    BY DEF Segments!Kinds
  <2>2. s \in Seq(Names)
    BY <2>1
  <2>3. \A i \in 1..Len(s) : s[i] = "NAT"
    OBVIOUS
  <2> HIDE DEF Names
  <2> QED BY <2>2, <2>3
<1>6. Segments!DensitySlots \in Nat
  <2>1. Cardinality(Segments!Nets) \in Nat /\ req.density \in Nat
    BY SegmentSizes, FS_CardinalityType
  <2>2. Cardinality(Segments!Nets) * req.density \in Nat
    BY <2>1
  <2>3. \A q \in Nat : Segments!Rounded(q) \in Nat
    <3> SUFFICES ASSUME NEW q \in Nat PROVE Segments!Rounded(q) \in Nat
      OBVIOUS
    <3>1. q \div 4 \in Nat
      BY SMT
    <3> QED BY <3>1 DEF Segments!Rounded
  <2>4. \A q \in Nat : Segments!OneAtLeast(q) \in Nat
    BY DEF Segments!OneAtLeast
  <2> QED
    BY <2>1, <2>2, <2>3, <2>4, SegmentCardinality DEF Segments!DensitySlots
<1>7. IsFiniteSet(CleanFirst) /\ Cardinality(CleanFirst) \in Nat
  <2>1. IsFiniteSet(Segments!Routers)
    <3>1. req.routers \in Int /\ Segments!Routers = 1..req.routers
      BY SegmentSizes
    <3> QED BY <3>1, FS_Interval
  <2>2. CleanFirst \in SUBSET Segments!Routers
    BY DEF CleanFirst
  <2> QED BY <2>1, <2>2, FS_Subset, FS_CardinalityType
<1> QED
  BY <1>4, <1>5, <1>6, <1>7 DEF Segments!Slots

LEMMA SegmentSame ==
  ASSUME req' = req
  PROVE  /\ SegmentRequest <=> SegmentRequest'
         /\ Segments!Routers' = Segments!Routers /\ Segments!Hosts' = Segments!Hosts
         /\ FoundFirst' = FoundFirst /\ CleanFirst' = CleanFirst
         /\ NatSlots' = NatSlots /\ Segments!Slots' = Segments!Slots
<1>1. /\ SegmentRequest <=> SegmentRequest'
      /\ Segments!Routers' = Segments!Routers /\ Segments!Hosts' = Segments!Hosts
      /\ FoundFirst' = FoundFirst
  BY DEF SegmentRequest, Segments!Requests, Segments!Routers, Segments!Hosts, FoundFirst
<1>2. CleanFirst' = CleanFirst
  BY <1>1 DEF CleanFirst
<1>3. NatSlots' = NatSlots /\ Segments!Sequence' = Segments!Sequence
  BY DEF NatSlots, Segments!Sequence, Segments!Counted
<1>4. Segments!DensitySlots' = Segments!DensitySlots
  BY DEF Segments!DensitySlots, Segments!Weighted, Segments!Nets
<1> QED
  BY <1>1, <1>2, <1>3, <1>4 DEF Segments!Slots

\* The rules there were stay where they are, and those of R are added.
Grown(R) ==
  /\ plan'.rules \in Seq(SegmentRule)
  /\ DOMAIN plan.rules \subseteq DOMAIN plan'.rules
  /\ \A i \in DOMAIN plan.rules : plan'.rules[i] = plan.rules[i]
  /\ \A i \in DOMAIN plan'.rules \ DOMAIN plan.rules : plan'.rules[i] \in R
  /\ \A x \in R : \E i \in DOMAIN plan'.rules : plan'.rules[i] = x

LEMMA PlanFields ==
  ASSUME plan \in SegmentPlan
  PROVE  /\ plan.rules \in Seq(SegmentRule) /\ plan.slot \in Nat /\ plan.more \in Nat
         /\ plan.flow \in Nat \ {0} /\ plan.pc \in {"slots", "allow", "dnat", "done"}
         /\ plan.enabled \subseteq Nat /\ plan.used \subseteq Nat /\ plan.nat \subseteq Nat
         /\ plan.fw \subseteq Nat /\ plan.node \in Nat
BY DEF SegmentPlan

LEMMA GrownByNone ==
  ASSUME plan \in SegmentPlan, plan'.rules = plan.rules
  PROVE  Grown({})
BY PlanFields DEF Grown

LEMMA GrownByOne ==
  ASSUME plan \in SegmentPlan, NEW rule \in SegmentRule, plan'.rules = Append(plan.rules, rule)
  PROVE  /\ Grown({rule})
         /\ DOMAIN plan'.rules = DOMAIN plan.rules \cup {Len(plan.rules) + 1}
         /\ Len(plan.rules) + 1 \notin DOMAIN plan.rules
         /\ plan'.rules[Len(plan.rules) + 1] = rule
<1>1. \A s \in Seq(SegmentRule) :
        /\ Append(s, rule) \in Seq(SegmentRule)
        /\ DOMAIN Append(s, rule) = DOMAIN s \cup {Len(s) + 1}
        /\ Len(s) + 1 \notin DOMAIN s
        /\ \A i \in DOMAIN s : Append(s, rule)[i] = s[i]
        /\ Append(s, rule)[Len(s) + 1] = rule
  OBVIOUS
<1> QED
  BY <1>1, PlanFields DEF Grown

LEMMA GrownByMany ==
  ASSUME plan \in SegmentPlan, NEW new \in Seq(SegmentRule), plan'.rules = plan.rules \o new
  PROVE  Grown(Segments!Range(new))
<1> DEFINE s == plan.rules
<1>1. s \in Seq(SegmentRule)
  BY PlanFields
<1> HIDE DEF s
<1>2. /\ s \o new \in Seq(SegmentRule) /\ Len(s) \in Nat /\ Len(new) \in Nat
      /\ DOMAIN s = 1..Len(s) /\ DOMAIN new = 1..Len(new)
      /\ DOMAIN (s \o new) = 1..(Len(s) + Len(new))
      /\ \A i \in 1..Len(s) : (s \o new)[i] = s[i]
      /\ \A i \in 1..Len(new) : Len(s) + i \in 1..(Len(s) + Len(new)) /\ (s \o new)[Len(s) + i] = new[i]
  <2>1. s \o new \in Seq(SegmentRule) /\ Len(s) \in Nat /\ Len(new) \in Nat
        /\ DOMAIN s = 1..Len(s) /\ DOMAIN new = 1..Len(new) /\ Len(s \o new) = Len(s) + Len(new)
    BY <1>1
  <2>2. \A i \in 1..Len(s) : (s \o new)[i] = s[i]
    BY <1>1
  <2>3. \A i \in 1..Len(new) : (s \o new)[Len(s) + i] = new[i]
    BY <1>1, <2>1
  <2> QED BY <2>1, <2>2, <2>3
<1>3. ASSUME NEW i \in DOMAIN (s \o new) \ DOMAIN s PROVE (s \o new)[i] \in Segments!Range(new)
  <2>1. i \in Nat /\ i - Len(s) \in 1..Len(new) /\ i = Len(s) + (i - Len(s))
    BY <1>2, <1>3
  <2>2. (s \o new)[i] = new[i - Len(s)]
    BY <1>2, <2>1
  <2> QED BY <1>2, <2>1, <2>2 DEF Segments!Range
<1>4. ASSUME NEW x \in Segments!Range(new) PROVE \E i \in DOMAIN (s \o new) : (s \o new)[i] = x
  <2>1. PICK j \in 1..Len(new) : x = new[j]
    BY <1>2, <1>4 DEF Segments!Range
  <2> QED BY <1>2, <2>1
<1>5. DOMAIN s \subseteq DOMAIN (s \o new)
  BY <1>2
<1> QED
  BY <1>2, <1>3, <1>4, <1>5 DEF Grown, s

\* Nodes with NAT or a firewall, once there are more rules.
LEMMA NodesGrow ==
  ASSUME NEW R, Grown(R)
  PROVE  /\ NatNodes' = NatNodes \cup {x.node : x \in {y \in R : y.type = "nat"}}
         /\ DropNodes' = DropNodes \cup {x.node : x \in {y \in R : y.type \in Segments!Drops}}
BY DEF Grown, Segments!NodesOf, NatNodes, DropNodes

\* Rules of other kinds change nothing for NAT and firewalls.
LEMMA NodesKept ==
  ASSUME SegmentNodes, req' = req, NEW R, Grown(R),
         \A x \in R : x.type \notin Segments!Drops \cup {"nat"},
         plan'.nat = plan.nat, plan'.fw = plan.fw, plan.used \subseteq plan'.used
  PROVE  SegmentNodes' /\ NatNodes' = NatNodes /\ DropNodes' = DropNodes
<1>1. NatNodes' = NatNodes /\ DropNodes' = DropNodes
  <2>1. {y \in R : y.type = "nat"} = {} /\ {y \in R : y.type \in Segments!Drops} = {}
    OBVIOUS
  <2> QED BY <2>1, NodesGrow
<1>2. \A i, j \in DOMAIN plan'.rules :
        /\ i # j /\ plan'.rules[i].type = "nat" /\ plan'.rules[j].type = "nat"
        => plan'.rules[i].node # plan'.rules[j].node
  BY DEF Grown, SegmentNodes
<1>3. /\ NatNodes' \subseteq plan'.nat \cap Segments!Routers'
      /\ DropNodes' \subseteq plan'.fw
      /\ plan'.nat \cup plan'.fw \subseteq FoundFirst' \cup plan'.used
      /\ NatNodes' \cap DropNodes' = {}
  BY <1>1, SegmentSame DEF SegmentNodes
<1> QED
  BY <1>1, <1>2, <1>3 DEF SegmentNodes

\* Rules of other kinds block no flow, and what lets one through stays.
LEMMA FlowsKept ==
  ASSUME req' = req, NEW R, Grown(R), NEW f, Segments!Blocked(f)',
         \A x \in R : x.type \notin Segments!Drops \cup {"nat", "none"}
  PROVE  Segments!Blocked(f)
<1>1. Segments!NodesOf({"nat"})' = Segments!NodesOf({"nat"})
  <2>1. {y \in R : y.type = "nat"} = {}
    OBVIOUS
  <2>2. NatNodes' = NatNodes
    BY <2>1, NodesGrow
  <2> QED BY <2>2 DEF NatNodes
<1>2. \A i \in DOMAIN plan'.rules :
        plan'.rules[i].type \in Segments!Drops \cup {"nat", "none"} =>
          i \in DOMAIN plan.rules /\ plan'.rules[i] = plan.rules[i]
  BY DEF Grown
<1> QED
  BY <1>1, <1>2 DEF Segments!Blocked, Segments!Denies, Segments!SameLan

LEMMA AllowsKept ==
  ASSUME req' = req, NEW R, Grown(R), NEW f, LetThrough(f)
  PROVE  LetThrough(f)'
<1>1. Segments!Routers' = Segments!Routers
  BY SegmentSame
<1>2. \A i \in DOMAIN plan.rules : i \in DOMAIN plan'.rules /\ plan'.rules[i] = plan.rules[i]
  BY DEF Grown
<1>3. ASSUME NEW i \in DOMAIN plan.rules, NEW n, NEW chain, Allows(i, n, chain, f)
      PROVE  i \in DOMAIN plan'.rules /\ Allows(i, n, chain, f)'
  BY <1>2, <1>3 DEF Allows
<1> QED
  BY <1>1, <1>3 DEF LetThrough

\* While slots get their nodes no flow is done yet.
LEMMA SlotsKeepFlows ==
  ASSUME SegmentFlows, req' = req, plan.pc = "slots", plan'.pc = "slots",
         plan'.flow = plan.flow
  PROVE  SegmentFlows'
BY DEF SegmentFlows

\* Selectors are sets of addresses.
LEMMA SelectorsTyped ==
  ASSUME SegmentRequest
  PROVE  /\ \A n \in Nat : Segments!Sel(n) \in SUBSET Int
         /\ Segments!All \in SUBSET Int
         /\ Segments!Largest \subseteq Segments!Nets
<1>1. \A n \in Nat : Segments!Sel(n) \in SUBSET Int
  BY SegmentSizes DEF Segments!Sel
<1>2. Segments!All \in SUBSET Int
  BY <1>1, SegmentSizes DEF Segments!All
<1> QED
  BY <1>1, <1>2 DEF Segments!Largest

LEMMA RuleTyped ==
  ASSUME NEW node \in Nat, NEW type \in Segments!Drops \cup {"nat", "custom", "none"},
         NEW chain \in {"", "FORWARD", "INPUT", "OUTPUT"},
         NEW src \in SUBSET Int, NEW dst \in SUBSET Int
  PROVE  /\ Segments!Rule(node, type, chain, src, dst) \in SegmentRule
         /\ Segments!Rule(node, type, chain, src, dst).node = node
         /\ Segments!Rule(node, type, chain, src, dst).type = type
BY DEF Segments!Rule, SegmentRule

\* A slot there is a clean router for finds one that is unused.
LEMMA CleanUnused ==
  ASSUME SegmentRequest, plan \in SegmentPlan, SegmentNodes, SegmentSlots, plan.more = 0,
         plan.slot > 0, plan.slot <= Cardinality(CleanFirst)
  PROVE  /\ Cardinality(plan.used) = plan.slot - 1
         /\ Segments!Unused(Segments!Clean) # {}
<1>1. Taken = plan.slot - 1 /\ Cardinality(plan.used) = plan.slot - 1
  BY SegmentCounts, PlanFields DEF SegmentSlots, Taken
<1>2. PICK c \in CleanFirst : c \notin plan.used
  <2> SUFFICES ASSUME CleanFirst \subseteq plan.used PROVE FALSE
    OBVIOUS
  <2>1. IsFiniteSet(plan.used) /\ CleanFirst \in SUBSET plan.used
    BY DEF SegmentSlots
  <2>2. Cardinality(CleanFirst) <= Cardinality(plan.used)
    BY <2>1, FS_Subset
  <2> QED BY <1>1, <2>2, SegmentCounts, PlanFields
<1>3. c \in Segments!Clean
  BY <1>2 DEF CleanFirst, Segments!Clean, SegmentNodes
<1> QED
  BY <1>1, <1>2, <1>3 DEF Segments!Unused

\* A slot that takes a node of its own, or is skipped for want of one, keeps the count.
LEMMA SlotsAdvance ==
  ASSUME SegmentRequest, plan \in SegmentPlan, SegmentNodes, SegmentSlots, plan.more = 0,
         plan.slot \in 1..Segments!Slots, req' = req, IsFiniteSet(plan'.used),
         Taken' = plan.slot, plan'.slot \in {plan.slot, plan.slot + 1},
         plan.slot <= Cardinality(CleanFirst) =>
           \E n : n \notin plan.used /\ plan'.used = plan.used \cup {n},
         NatSlots <= Cardinality(CleanFirst) => Cardinality(NatNodes)' >= Cardinality(NatNodes),
         NatSlots <= Cardinality(CleanFirst) /\ plan.slot <= NatSlots =>
           Cardinality(NatNodes)' > Cardinality(NatNodes),
         Cardinality(NatNodes) \in Nat, Cardinality(NatNodes)' \in Nat
  PROVE  SegmentSlots'
<1>1. plan'.slot <= Segments!Slots' + 1
  BY SegmentSame, SegmentCounts, PlanFields
<1>2. Taken' <= Cardinality(CleanFirst)' => Cardinality(plan'.used) = Taken'
  <2> SUFFICES ASSUME Taken' <= Cardinality(CleanFirst)' PROVE Cardinality(plan'.used) = Taken'
    OBVIOUS
  <2>1. plan.slot <= Cardinality(CleanFirst)
    BY SegmentSame
  <2>2. Cardinality(plan.used) = plan.slot - 1
    BY <2>1, CleanUnused, PlanFields
  <2>3. PICK n : n \notin plan.used /\ plan'.used = plan.used \cup {n}
    BY <2>1
  <2>4. Cardinality(plan'.used) = Cardinality(plan.used) + 1
    BY <2>3, FS_AddElement DEF SegmentSlots
  <2> QED BY <2>2, <2>4, PlanFields
<1>3. NatSlots' <= Cardinality(CleanFirst)' =>
        Cardinality(NatNodes)' >= IF plan'.slot > NatSlots' THEN NatSlots' ELSE plan'.slot - 1
  BY SegmentSame, SegmentCounts, PlanFields DEF SegmentSlots
<1> QED
  BY <1>1, <1>2, <1>3 DEF SegmentSlots

LEMMA NatNodesFinite ==
  ASSUME SegmentRequest, SegmentNodes
  PROVE  IsFiniteSet(NatNodes) /\ Cardinality(NatNodes) \in Nat
<1>1. req.routers \in Int /\ Segments!Routers = 1..req.routers
  BY SegmentSizes
<1>2. IsFiniteSet(Segments!Routers)
  BY <1>1, FS_Interval
<1>3. NatNodes \in SUBSET Segments!Routers
  BY DEF SegmentNodes
<1> QED BY <1>2, <1>3, FS_Subset, FS_CardinalityType

LEMMA SegmentsBegin ==
  ASSUME SegmentRequest, plan = Segments!Begun
  PROVE  SegmentInv
<1>1. req.prior \in Seq(SegmentRule)
  BY SegmentSizes
<1>2. plan \in SegmentPlan
  BY <1>1 DEF Segments!Begun, SegmentPlan
<1>3. SegmentFlows
  BY DEF SegmentFlows, Segments!Begun
<1> QED
  BY <1>2, <1>3 DEF SegmentInv, SegmentMore, Segments!Begun

LEMMA SegmentsSkips ==
  ASSUME SegmentRequest, SegmentInv, Segments!Skips
  PROVE  SegmentInv'
<1>1. plan = Segments!Begun /\ req' = req /\ plan' = [plan EXCEPT !.pc = "allow"]
  BY DEF SegmentInv, Segments!Skips, Segments!At
<1>2. plan' \in SegmentPlan
  BY <1>1 DEF SegmentInv, SegmentPlan
<1>3. plan'.rules = plan.rules /\ plan'.enabled = plan.enabled /\ plan'.pc = "allow"
      /\ plan'.flow = 1 /\ plan'.slot = 0 /\ plan'.more = 0
  BY <1>1 DEF Segments!Begun
<1>4. SegmentFlows'
  <2>1. \A k \in DOMAIN req'.flows : ~(k < plan'.flow)
    BY <1>1, <1>3, SegmentSizes
  <2> QED BY <1>3, <2>1 DEF SegmentFlows
<1> QED
  BY <1>2, <1>3, <1>4 DEF SegmentInv, SegmentMore

LEMMA SegmentsStarts ==
  ASSUME SegmentRequest, SegmentInv, Segments!Starts
  PROVE  SegmentInv'
<1>1. /\ plan = Segments!Begun /\ req' = req
      /\ plan' = [plan EXCEPT !.slot = 1, !.rules = <<>>,
                              !.nat = Segments!NodesOf({"nat"}),
                              !.fw = Segments!NodesOf(Segments!Drops)]
  BY DEF SegmentInv, Segments!Starts, Segments!At
<1>2. plan.rules = req.prior /\ req.prior \in Seq(SegmentRule)
  BY <1>1, SegmentSizes DEF Segments!Begun
<1>3. \A i \in DOMAIN plan.rules : plan.rules[i].node \in Nat
  <2>1. \A x \in SegmentRule : x.node \in Nat
    BY DEF SegmentRule
  <2> QED BY <1>2, <2>1
<1>4. NatNodes \subseteq Nat /\ DropNodes \subseteq Nat
      /\ NatNodes \cup DropNodes \subseteq FoundFirst
  BY <1>2, <1>3 DEF NatNodes, DropNodes, Segments!NodesOf, FoundFirst
<1>5. <<>> \in Seq(SegmentRule)
  OBVIOUS
<1>6. plan' \in SegmentPlan
  BY <1>1, <1>4, <1>5 DEF SegmentInv, SegmentPlan, NatNodes, DropNodes
<1>7. plan'.rules = <<>> /\ plan'.pc = "slots" /\ plan'.slot = 1 /\ plan'.more = 0
      /\ plan'.used = {} /\ plan'.flow = 1 /\ plan'.nat = NatNodes /\ plan'.fw = DropNodes
  BY <1>1 DEF Segments!Begun, NatNodes, DropNodes
<1>8. NatNodes' = {} /\ DropNodes' = {}
  BY <1>7 DEF NatNodes, DropNodes, Segments!NodesOf
<1>9. SegmentNodes'
  BY <1>1, <1>4, <1>7, <1>8, SegmentSame DEF SegmentNodes
<1>10. SegmentSlots'
  <2>1. Taken' = 0 /\ Cardinality({}) = 0 /\ IsFiniteSet({})
    BY <1>7, FS_EmptySet DEF Taken
  <2>2. 1 <= Segments!Slots' + 1 /\ NatSlots' \in Nat
    BY <1>1, SegmentSame, SegmentCounts
  <2> QED BY <1>7, <1>8, <2>1, <2>2 DEF SegmentSlots
<1>11. SegmentFlows'
  BY <1>7 DEF SegmentFlows
<1> QED
  BY <1>6, <1>7, <1>9, <1>10, <1>11 DEF SegmentInv, SegmentMore

LEMMA SlotFacts ==
  ASSUME SegmentRequest, SegmentInv, NEW service, Segments!SlotFor(service)
  PROVE  /\ plan \in SegmentPlan /\ SegmentNodes /\ SegmentSlots /\ SegmentFlows
         /\ plan.pc = "slots" /\ plan.more = 0 /\ req' = req
         /\ plan.slot \in 1..Segments!Slots /\ plan.slot \in Nat /\ plan.slot > 0
         /\ plan.slot <= NatSlots => service = "NAT"
<1>1. /\ plan.pc = "slots" /\ plan.more = 0 /\ req' = req
      /\ plan.slot \in 1..Segments!Slots /\ service \in Segments!Services
  BY DEF Segments!SlotFor, Segments!At
<1>2. plan \in SegmentPlan /\ SegmentFlows /\ plan.slot \in Nat /\ plan.slot > 0
  BY <1>1, SegmentCounts DEF SegmentInv
<1>3. plan.slot <= NatSlots => service = "NAT"
  <2> SUFFICES ASSUME plan.slot <= NatSlots PROVE service = "NAT"
    OBVIOUS
  <2>1. plan.slot <= Len(Segments!Sequence) /\ Segments!Sequence[plan.slot] = "NAT"
        /\ Len(Segments!Sequence) \in Int
    BY <1>2, SegmentCounts DEF Segments!Slots
  <2> QED BY <1>1, <2>1 DEF Segments!Services
<1> QED
  BY <1>1, <1>2, <1>3 DEF SegmentInv

LEMMA SegmentsPlacesNat ==
  ASSUME SegmentRequest, SegmentInv, Segments!PlacesNat
  PROVE  SegmentInv'
<1> DEFINE clean == Segments!Unused(Segments!Clean)
<1>1. PICK r \in (IF clean # {} THEN clean ELSE Segments!Clean) :
        \E internal \in (IF req.primary[r] = 0 THEN Segments!Largest ELSE {req.primary[r]}) :
          \E external \in (IF Segments!Nets = {internal} THEN {Segments!All}
                           ELSE {Segments!Sel(n) : n \in Segments!Nets \ {internal}}) :
            plan' = [plan EXCEPT
                      !.slot = @ + 1, !.used = @ \cup {r}, !.nat = @ \cup {r},
                      !.enabled = @ \cup {r},
                      !.rules = Append(@, Segments!Rule(r, "nat", "", Segments!Sel(internal), external))]
  BY DEF Segments!PlacesNat
<1>2. Segments!SlotFor("NAT")
  BY DEF Segments!PlacesNat
<1>3. /\ plan \in SegmentPlan /\ SegmentNodes /\ SegmentSlots /\ SegmentFlows
      /\ plan.pc = "slots" /\ plan.more = 0 /\ req' = req
      /\ plan.slot \in 1..Segments!Slots /\ plan.slot \in Nat /\ plan.slot > 0
  BY <1>2, SlotFacts
<1>4. r \in Segments!Clean /\ (clean # {} => r \notin plan.used)
  BY <1>1 DEF Segments!Unused
<1> HIDE DEF clean
<1>5. r \in Segments!Routers /\ r \in Nat /\ r \notin plan.nat /\ r \notin plan.fw
  BY <1>4, SegmentSizes DEF Segments!Clean
<1>6. PICK src \in SUBSET Int, dst \in SUBSET Int :
        plan' = [plan EXCEPT !.slot = @ + 1, !.used = @ \cup {r}, !.nat = @ \cup {r},
                             !.enabled = @ \cup {r},
                             !.rules = Append(@, Segments!Rule(r, "nat", "", src, dst))]
  <2>0. PICK internal \in (IF req.primary[r] = 0 THEN Segments!Largest ELSE {req.primary[r]}) :
          \E external \in (IF Segments!Nets = {internal} THEN {Segments!All}
                           ELSE {Segments!Sel(n) : n \in Segments!Nets \ {internal}}) :
            plan' = [plan EXCEPT
                      !.slot = @ + 1, !.used = @ \cup {r}, !.nat = @ \cup {r},
                      !.enabled = @ \cup {r},
                      !.rules = Append(@, Segments!Rule(r, "nat", "", Segments!Sel(internal), external))]
    BY <1>1
  <2>1. PICK external \in (IF Segments!Nets = {internal} THEN {Segments!All}
                           ELSE {Segments!Sel(n) : n \in Segments!Nets \ {internal}}) :
          plan' = [plan EXCEPT
                    !.slot = @ + 1, !.used = @ \cup {r}, !.nat = @ \cup {r},
                    !.enabled = @ \cup {r},
                    !.rules = Append(@, Segments!Rule(r, "nat", "", Segments!Sel(internal), external))]
    BY <2>0
  <2>2. internal \in Nat
    BY <1>5, SegmentSizes, SelectorsTyped
  <2>3. Segments!Sel(internal) \in SUBSET Int
    BY <2>2, SelectorsTyped
  <2>4. external \in SUBSET Int
    BY SegmentSizes, SelectorsTyped
  <2> QED BY <2>1, <2>3, <2>4
<1> DEFINE rule == Segments!Rule(r, "nat", "", src, dst)
<1>7. rule \in SegmentRule /\ rule.node = r /\ rule.type = "nat"
  <2>1. "nat" \in Segments!Drops \cup {"nat", "custom", "none"}
        /\ "" \in {"", "FORWARD", "INPUT", "OUTPUT"}
    OBVIOUS
  <2>2. src \in SUBSET Int /\ dst \in SUBSET Int
    BY <1>6
  <2>3. rule = [node |-> r, type |-> "nat", chain |-> "", src |-> src, dst |-> dst, port |-> 0]
    BY DEF Segments!Rule
  <2> HIDE DEF rule
  <2> QED BY <1>5, <2>1, <2>2, <2>3 DEF SegmentRule
<1> HIDE DEF rule
<1>8. plan' \in SegmentPlan
  <2>1. \A s \in Seq(SegmentRule) : Append(s, rule) \in Seq(SegmentRule)
    BY <1>7
  <2>2. plan' = [plan EXCEPT !.slot = @ + 1, !.used = @ \cup {r}, !.nat = @ \cup {r},
                             !.enabled = @ \cup {r}, !.rules = Append(@, rule)]
    BY <1>6 DEF rule
  <2>3. /\ Append(plan.rules, rule) \in Seq(SegmentRule) /\ plan.slot + 1 \in Nat
        /\ plan.used \cup {r} \in SUBSET Nat /\ plan.nat \cup {r} \in SUBSET Nat
        /\ plan.enabled \cup {r} \in SUBSET Nat
    BY <1>3, <1>5, <2>1, PlanFields
  <2> QED BY <1>3, <2>2, <2>3 DEF SegmentPlan
<1>9. /\ plan'.pc = "slots" /\ plan'.slot = plan.slot + 1 /\ plan'.more = 0
      /\ plan'.used = plan.used \cup {r} /\ plan'.nat = plan.nat \cup {r} /\ plan'.fw = plan.fw
      /\ plan'.enabled = plan.enabled \cup {r} /\ plan'.rules = Append(plan.rules, rule)
      /\ plan'.flow = plan.flow
  BY <1>3, <1>6 DEF SegmentPlan, rule
<1>10. /\ Grown({rule})
       /\ DOMAIN plan'.rules = DOMAIN plan.rules \cup {Len(plan.rules) + 1}
       /\ Len(plan.rules) + 1 \notin DOMAIN plan.rules
       /\ plan'.rules[Len(plan.rules) + 1] = rule
  BY <1>3, <1>7, <1>9, GrownByOne
<1>11. NatNodes' = NatNodes \cup {r} /\ DropNodes' = DropNodes
  <2>1. {x.node : x \in {y \in {rule} : y.type = "nat"}} = {r}
    BY <1>7
  <2>2. {x.node : x \in {y \in {rule} : y.type \in Segments!Drops}} = {}
    BY <1>7 DEF Segments!Drops
  <2>3. /\ NatNodes' = NatNodes \cup {x.node : x \in {y \in {rule} : y.type = "nat"}}
        /\ DropNodes' = DropNodes \cup {x.node : x \in {y \in {rule} : y.type \in Segments!Drops}}
    BY <1>10, NodesGrow
  <2> QED BY <2>1, <2>2, <2>3
<1>12. r \notin NatNodes /\ r \notin DropNodes
  BY <1>3, <1>5 DEF SegmentNodes
<1>13. SegmentNodes'
  <2>1. \A i \in DOMAIN plan.rules : plan.rules[i].type = "nat" => plan.rules[i].node # r
    BY <1>12 DEF NatNodes, Segments!NodesOf
  <2>2. \A i, j \in DOMAIN plan'.rules :
          /\ i # j /\ plan'.rules[i].type = "nat" /\ plan'.rules[j].type = "nat"
          => plan'.rules[i].node # plan'.rules[j].node
    BY <1>3, <1>7, <1>10, <2>1 DEF Grown, SegmentNodes
  <2>3. /\ NatNodes' \subseteq plan'.nat \cap Segments!Routers'
        /\ DropNodes' \subseteq plan'.fw
        /\ plan'.nat \cup plan'.fw \subseteq FoundFirst' \cup plan'.used
        /\ NatNodes' \cap DropNodes' = {}
    BY <1>3, <1>5, <1>9, <1>11, <1>12, SegmentSame DEF SegmentNodes
  <2> QED BY <2>2, <2>3 DEF SegmentNodes
<1>14. SegmentSlots'
  <2>1. IsFiniteSet(plan'.used)
    <3>1. IsFiniteSet(plan.used)
      BY <1>3 DEF SegmentSlots
    <3>2. IsFiniteSet(plan.used \cup {r})
      BY <3>1, FS_AddElement
    <3> QED BY <1>9, <3>2
  <2>2. Taken' = plan.slot
    BY <1>3, <1>9 DEF Taken
  <2>3. plan.slot <= Cardinality(CleanFirst) =>
          \E n : n \notin plan.used /\ plan'.used = plan.used \cup {n}
    BY <1>3, <1>4, <1>9, CleanUnused DEF clean
  <2>4. Cardinality(NatNodes) \in Nat /\ Cardinality(NatNodes)' = Cardinality(NatNodes) + 1
    BY <1>3, <1>11, <1>12, NatNodesFinite, FS_AddElement
  <2> QED
    BY <1>3, <1>9, <2>1, <2>2, <2>3, <2>4, SlotsAdvance
<1>15. SegmentFlows'
  BY <1>3, <1>9, SlotsKeepFlows
<1> QED
  BY <1>3, <1>8, <1>9, <1>13, <1>14, <1>15 DEF SegmentInv, SegmentMore

\* A slot that adds no rule, or one no other looks at.
LEMMA SlotPasses ==
  ASSUME SegmentRequest, SegmentInv, NEW service, Segments!SlotFor(service), service # "NAT",
         plan' \in SegmentPlan, plan'.pc = "slots", plan'.flow = plan.flow, NEW R, Grown(R),
         \A x \in R : x.type \notin Segments!Drops \cup {"nat"},
         plan'.nat = plan.nat, plan'.fw = plan.fw,
         IsFiniteSet(plan'.used), plan.used \subseteq plan'.used,
         plan.slot <= Cardinality(CleanFirst) =>
           \E n : n \notin plan.used /\ plan'.used = plan.used \cup {n},
         \/ plan'.slot = plan.slot + 1 /\ plan'.more = 0
         \/ /\ plan'.slot = plan.slot /\ plan'.more > 0
            /\ plan'.node \in plan'.used /\ plan'.node \notin NatNodes
            /\ plan'.node \in Segments!Routers \cup Segments!Hosts
  PROVE  SegmentInv'
<1>1. /\ plan \in SegmentPlan /\ SegmentNodes /\ SegmentSlots /\ SegmentFlows
      /\ plan.pc = "slots" /\ plan.more = 0 /\ req' = req
      /\ plan.slot \in 1..Segments!Slots /\ plan.slot \in Nat /\ plan.slot > 0
      /\ ~(plan.slot <= NatSlots)
  BY SlotFacts
<1>2. SegmentNodes' /\ NatNodes' = NatNodes
  BY <1>1, NodesKept
<1>3. Cardinality(NatNodes) \in Nat
  BY <1>1, NatNodesFinite
<1>5. Taken' = plan.slot
  BY <1>1 DEF Taken
<1>6. Cardinality(NatNodes)' = Cardinality(NatNodes)
  BY <1>2
<1>7. SegmentSlots'
  BY <1>1, <1>3, <1>5, <1>6, SlotsAdvance
<1>8. SegmentFlows'
  BY <1>1, SlotsKeepFlows
<1>9. SegmentMore'
  <2> SUFFICES ASSUME plan'.more > 0 PROVE SegmentMore'
    BY DEF SegmentMore
  <2>1. plan'.slot = plan.slot /\ plan'.node \in plan'.used /\ plan'.node \notin NatNodes
        /\ plan'.node \in Segments!Routers \cup Segments!Hosts
    OBVIOUS
  <2>2. plan'.node \notin NatNodes'
    BY <1>1, <1>2, <2>1 DEF SegmentNodes
  <2>3. plan'.slot \in 1..Segments!Slots' /\ plan'.slot > NatSlots'
    BY <1>1, <2>1, SegmentSame, SegmentCounts
  <2> QED BY <1>1, <2>1, <2>2, <2>3, SegmentSame DEF SegmentMore
<1> QED
  BY <1>1, <1>2, <1>7, <1>8, <1>9 DEF SegmentInv

LEMMA SegmentsSkipsNat ==
  ASSUME SegmentRequest, SegmentInv, Segments!SkipsNat
  PROVE  SegmentInv'
<1>1. Segments!SlotFor("NAT") /\ Segments!Clean = {} /\ plan' = [plan EXCEPT !.slot = @ + 1]
  BY DEF Segments!SkipsNat
<1>2. /\ plan \in SegmentPlan /\ SegmentNodes /\ SegmentSlots /\ SegmentFlows
      /\ plan.pc = "slots" /\ plan.more = 0 /\ req' = req
      /\ plan.slot \in 1..Segments!Slots /\ plan.slot \in Nat /\ plan.slot > 0
  BY <1>1, SlotFacts
<1>3. plan' \in SegmentPlan /\ plan'.slot = plan.slot + 1 /\ plan'.more = 0
      /\ plan'.pc = "slots" /\ plan'.rules = plan.rules /\ plan'.used = plan.used
      /\ plan'.flow = plan.flow
      /\ plan'.nat = plan.nat /\ plan'.fw = plan.fw /\ plan'.enabled = plan.enabled
  BY <1>1, <1>2 DEF SegmentPlan
<1>4. Grown({})
  BY <1>2, <1>3, GrownByNone
<1>5. SegmentNodes' /\ NatNodes' = NatNodes
  BY <1>2, <1>3, <1>4, NodesKept
<1>6. ~(plan.slot <= Cardinality(CleanFirst))
  BY <1>1, <1>2, CleanUnused DEF Segments!Unused
<1>7. SegmentSlots'
  <2>1. IsFiniteSet(plan'.used) /\ Taken' = plan.slot
    BY <1>2, <1>3 DEF SegmentSlots, Taken
  <2>2. Cardinality(NatNodes) \in Nat /\ Cardinality(NatNodes)' = Cardinality(NatNodes)
    BY <1>2, <1>5, NatNodesFinite
  <2>3. ~(NatSlots <= Cardinality(CleanFirst) /\ plan.slot <= NatSlots)
    BY <1>2, <1>6, SegmentCounts
  <2> QED
    BY <1>2, <1>3, <1>6, <2>1, <2>2, <2>3, SlotsAdvance
<1>8. SegmentFlows'
  BY <1>2, <1>3, SlotsKeepFlows
<1> QED
  BY <1>2, <1>3, <1>5, <1>7, <1>8 DEF SegmentInv, SegmentMore

\* What is free is unused, and while there are clean routers something is.
LEMMA FreeNodes ==
  ASSUME SegmentRequest, SegmentInv, NEW service, Segments!SlotFor(service)
  PROVE  /\ \A n \in Segments!Free(Segments!Routers) : n \in Nat /\ n \notin plan.used
         /\ \A n \in Segments!Free(Segments!Routers \ plan.nat) :
              /\ n \in Nat /\ n \notin plan.used /\ n \notin NatNodes
              /\ n \in Segments!Routers \cup Segments!Hosts
         /\ plan.slot <= Cardinality(CleanFirst) =>
              Segments!Free(Segments!Routers) # {} /\ Segments!Free(Segments!Routers \ plan.nat) # {}
<1>1. plan \in SegmentPlan /\ SegmentNodes /\ SegmentSlots /\ plan.more = 0 /\ plan.slot > 0
  BY SlotFacts
<1>2. Segments!Routers \subseteq Nat /\ Segments!Hosts \subseteq Nat
      /\ Segments!Hosts \cap Segments!Routers = {}
  BY SegmentSizes
<1>3. NatNodes \subseteq plan.nat \cap Segments!Routers
  BY <1>1 DEF SegmentNodes
<1>4. \A n \in Segments!Free(Segments!Routers) : n \in Nat /\ n \notin plan.used
  BY <1>2 DEF Segments!Free, Segments!Unused
<1>5. \A n \in Segments!Free(Segments!Routers \ plan.nat) :
        /\ n \in Nat /\ n \notin plan.used /\ n \notin NatNodes
        /\ n \in Segments!Routers \cup Segments!Hosts
  BY <1>2, <1>3 DEF Segments!Free, Segments!Unused
<1>6. ASSUME plan.slot <= Cardinality(CleanFirst)
      PROVE  Segments!Free(Segments!Routers) # {} /\ Segments!Free(Segments!Routers \ plan.nat) # {}
  <2>1. Segments!Unused(Segments!Clean) # {}
    BY <1>1, <1>6, CleanUnused
  <2> QED BY <2>1 DEF Segments!Unused, Segments!Free, Segments!Clean
<1> QED BY <1>4, <1>5, <1>6

LEMMA SegmentsPlacesCustom ==
  ASSUME SegmentRequest, SegmentInv, Segments!PlacesCustom
  PROVE  SegmentInv'
<1>1. Segments!SlotFor("CUSTOM")
  BY DEF Segments!PlacesCustom
<1>2. plan \in SegmentPlan /\ plan.pc = "slots" /\ plan.more = 0 /\ SegmentSlots
  BY <1>1, SlotFacts
<1>3. PICK n \in Segments!Free(Segments!Routers) :
        plan' = [plan EXCEPT !.slot = @ + 1, !.used = @ \cup {n},
                             !.rules = Append(@, Segments!Rule(n, "custom", "", {}, {}))]
  BY DEF Segments!PlacesCustom
<1>4. n \in Nat /\ n \notin plan.used
  BY <1>1, <1>3, FreeNodes
<1> DEFINE rule == Segments!Rule(n, "custom", "", {}, {})
<1>5. rule \in SegmentRule /\ rule.type = "custom"
  <2>1. "custom" \in Segments!Drops \cup {"nat", "custom", "none"}
        /\ "" \in {"", "FORWARD", "INPUT", "OUTPUT"} /\ {} \in SUBSET Int
    OBVIOUS
  <2>2. rule = [node |-> n, type |-> "custom", chain |-> "", src |-> {}, dst |-> {}, port |-> 0]
    BY DEF Segments!Rule
  <2> HIDE DEF rule
  <2> QED BY <1>4, <2>1, <2>2 DEF SegmentRule
<1>6. plan' = [plan EXCEPT !.slot = @ + 1, !.used = @ \cup {n}, !.rules = Append(@, rule)]
  BY <1>3
<1> HIDE DEF rule
<1>7. plan' \in SegmentPlan
  <2>1. \A s \in Seq(SegmentRule) : Append(s, rule) \in Seq(SegmentRule)
    BY <1>5
  <2>2. /\ Append(plan.rules, rule) \in Seq(SegmentRule) /\ plan.slot + 1 \in Nat
        /\ plan.used \cup {n} \in SUBSET Nat
    BY <1>2, <1>4, <2>1, PlanFields
  <2> QED BY <1>2, <1>6, <2>2 DEF SegmentPlan
<1>8. /\ plan'.pc = "slots" /\ plan'.slot = plan.slot + 1 /\ plan'.more = 0
      /\ plan'.used = plan.used \cup {n} /\ plan'.nat = plan.nat /\ plan'.fw = plan.fw
      /\ plan'.enabled = plan.enabled /\ plan'.rules = Append(plan.rules, rule)
      /\ plan'.flow = plan.flow
  BY <1>2, <1>6 DEF SegmentPlan
<1>9. Grown({rule})
  BY <1>2, <1>5, <1>8, GrownByOne
<1>10. \A x \in {rule} : x.type \notin Segments!Drops \cup {"nat"}
  BY <1>5 DEF Segments!Drops
<1>11. IsFiniteSet(plan'.used)
  <2>1. IsFiniteSet(plan.used)
    BY <1>2 DEF SegmentSlots
  <2>2. IsFiniteSet(plan.used \cup {n})
    BY <2>1, FS_AddElement
  <2> QED BY <1>8, <2>2
<1>12. "CUSTOM" # "NAT"
  OBVIOUS
<1> QED
  BY <1>1, <1>4, <1>7, <1>8, <1>9, <1>10, <1>11, <1>12, SlotPasses

LEMMA SegmentsPlacesFirewall ==
  ASSUME SegmentRequest, SegmentInv, Segments!PlacesFirewall
  PROVE  SegmentInv'
<1>1. PICK service \in {"Firewall", "Random"} :
        /\ Segments!SlotFor(service)
        /\ \E n \in Segments!Free(Segments!Routers \ plan.nat), more \in 1..Segments!MaxFirewallRules :
             plan' = [plan EXCEPT !.node = n, !.more = more, !.used = @ \cup {n},
                                  !.service = service = "Firewall"]
  BY DEF Segments!PlacesFirewall
<1>2. /\ plan \in SegmentPlan /\ plan.pc = "slots" /\ SegmentSlots /\ SegmentNodes /\ SegmentFlows
      /\ req' = req /\ plan.more = 0
      /\ plan.slot \in 1..Segments!Slots /\ plan.slot > 0 /\ ~(plan.slot <= NatSlots)
  BY <1>1, SlotFacts
<1>3. PICK n \in Segments!Free(Segments!Routers \ plan.nat), more \in 1..Segments!MaxFirewallRules :
        plan' = [plan EXCEPT !.node = n, !.more = more, !.used = @ \cup {n},
                             !.service = service = "Firewall"]
  BY <1>1
<1>4. /\ n \in Nat /\ n \notin plan.used /\ n \notin NatNodes
      /\ n \in Segments!Routers \cup Segments!Hosts
  BY <1>1, <1>3, FreeNodes
<1>5. more \in Nat /\ more > 0
  BY <1>3 DEF Segments!MaxFirewallRules
<1>6. plan' \in SegmentPlan
  <2>1. plan.used \cup {n} \in SUBSET Nat /\ (service = "Firewall") \in BOOLEAN
    BY <1>2, <1>4, PlanFields
  <2> QED BY <1>2, <1>3, <1>4, <1>5, <2>1 DEF SegmentPlan
<1>7. /\ plan'.pc = "slots" /\ plan'.slot = plan.slot /\ plan'.more = more /\ plan'.node = n
      /\ plan'.used = plan.used \cup {n} /\ plan'.nat = plan.nat /\ plan'.fw = plan.fw
      /\ plan'.enabled = plan.enabled /\ plan'.rules = plan.rules
      /\ plan'.flow = plan.flow
  BY <1>2, <1>3 DEF SegmentPlan
<1>8. Grown({})
  BY <1>2, <1>7, GrownByNone
<1>9. IsFiniteSet(plan'.used)
  <2>1. IsFiniteSet(plan.used)
    BY <1>2 DEF SegmentSlots
  <2>2. IsFiniteSet(plan.used \cup {n})
    BY <2>1, FS_AddElement
  <2> QED BY <1>7, <2>2
<1> QED
  BY <1>1, <1>4, <1>5, <1>6, <1>7, <1>8, <1>9, SlotPasses

LEMMA SegmentsSkipsOther ==
  ASSUME SegmentRequest, SegmentInv, Segments!SkipsOther
  PROVE  SegmentInv'
<1>1. PICK service \in {"CUSTOM", "Firewall", "Random"} :
        /\ Segments!SlotFor(service)
        /\ Segments!Free(IF service = "CUSTOM" THEN Segments!Routers
                         ELSE Segments!Routers \ plan.nat) = {}
  BY DEF Segments!SkipsOther
<1>2. plan' = [plan EXCEPT !.slot = @ + 1]
  BY DEF Segments!SkipsOther
<1>3. plan \in SegmentPlan /\ plan.pc = "slots" /\ plan.more = 0 /\ SegmentSlots
  BY <1>1, SlotFacts
<1>4. ~(plan.slot <= Cardinality(CleanFirst))
  BY <1>1, FreeNodes
<1>5. plan' \in SegmentPlan /\ plan'.slot = plan.slot + 1 /\ plan'.more = 0
      /\ plan'.pc = "slots" /\ plan'.rules = plan.rules /\ plan'.used = plan.used
      /\ plan'.flow = plan.flow
      /\ plan'.nat = plan.nat /\ plan'.fw = plan.fw /\ plan'.enabled = plan.enabled
  BY <1>2, <1>3 DEF SegmentPlan
<1>6. Grown({})
  BY <1>3, <1>5, GrownByNone
<1>7. IsFiniteSet(plan'.used)
  BY <1>3, <1>5 DEF SegmentSlots
<1> QED
  BY <1>1, <1>4, <1>5, <1>6, <1>7, SlotPasses

LEMMA DraftTyped ==
  ASSUME SegmentRequest, NEW n \in Nat, n \in Segments!Routers \cup Segments!Hosts,
         NEW draft \in Segments!Drafts(n)
  PROVE  draft \in SegmentRule /\ draft.node = n /\ draft.type \in Segments!Drops
<1> DEFINE chain == IF n \in Segments!Routers THEN "FORWARD" ELSE "INPUT"
<1>1. \E type \in Segments!Drops, src \in SUBSET Int, dst \in SUBSET Int :
        draft = Segments!Rule(n, type, chain, src, dst)
  <2> DEFINE router == n \in Segments!Routers
             own == IF ~router THEN {req.net[n]}
                    ELSE IF req.primary[n] = 0 THEN Segments!Nets ELSE {req.primary[n]}
  <2>1. own \subseteq Nat
    BY SegmentSizes
  <2> HIDE DEF own
  <2>2. CASE \E e \in {f \in Segments!Nets \X own : f[1] # f[2]} :
               draft = Segments!Rule(n, "subnet_block", chain, Segments!Sel(e[1]), Segments!Sel(e[2]))
    <3>1. PICK e \in Segments!Nets \X own :
            draft = Segments!Rule(n, "subnet_block", chain, Segments!Sel(e[1]), Segments!Sel(e[2]))
      BY <2>2
    <3>2. e[1] \in Nat /\ e[2] \in Nat
      BY <2>1, <3>1, SegmentSizes
    <3>3. Segments!Sel(e[1]) \in SUBSET Int /\ Segments!Sel(e[2]) \in SUBSET Int
      BY <3>2, SelectorsTyped
    <3>4. "subnet_block" \in Segments!Drops
      BY DEF Segments!Drops
    <3> HIDE DEF chain
    <3> QED BY <3>1, <3>3, <3>4
  <2>3. CASE \E e \in {f \in Segments!Hosts \X (IF router THEN Segments!Hosts ELSE {n}) : f[1] # f[2]} :
               draft = Segments!Rule(n, "host_block", chain, {e[1]}, {e[2]})
    <3>1. PICK e \in Segments!Hosts \X (IF router THEN Segments!Hosts ELSE {n}) :
            draft = Segments!Rule(n, "host_block", chain, {e[1]}, {e[2]})
      BY <2>3
    <3>2. e[1] \in Nat /\ e[2] \in Nat
      BY <3>1, SegmentSizes
    <3>3. {e[1]} \in SUBSET Int /\ {e[2]} \in SUBSET Int
      BY <3>2
    <3>4. "host_block" \in Segments!Drops
      BY DEF Segments!Drops
    <3> HIDE DEF chain
    <3> QED BY <3>1, <3>3, <3>4
  <2>4. CASE \E i \in Segments!Nets :
               draft = Segments!Rule(n, "protect_internal", chain, Segments!All \ Segments!Sel(i),
                                     Segments!Sel(i))
    <3>1. PICK i \in Segments!Nets :
            draft = Segments!Rule(n, "protect_internal", chain, Segments!All \ Segments!Sel(i),
                                  Segments!Sel(i))
      BY <2>4
    <3>2. Segments!Sel(i) \in SUBSET Int /\ Segments!All \ Segments!Sel(i) \in SUBSET Int
      BY <3>1, SegmentSizes, SelectorsTyped
    <3>3. "protect_internal" \in Segments!Drops
      BY DEF Segments!Drops
    <3> HIDE DEF chain
    <3> QED BY <3>1, <3>2, <3>3
  <2> QED
    BY <2>2, <2>3, <2>4, Zenon DEF Segments!Drafts, own
<1>2. PICK type \in Segments!Drops, src \in SUBSET Int, dst \in SUBSET Int :
        draft = [node |-> n, type |-> type, chain |-> chain, src |-> src, dst |-> dst, port |-> 0]
  BY <1>1 DEF Segments!Rule
<1>3. chain \in {"", "FORWARD", "INPUT", "OUTPUT"}
  OBVIOUS
<1> HIDE DEF chain
<1> QED BY <1>2, <1>3 DEF SegmentRule

LEMMA SegmentsAddsRule ==
  ASSUME SegmentRequest, SegmentInv, Segments!AddsRule
  PROVE  SegmentInv'
<1>1. /\ plan \in SegmentPlan /\ plan.pc = "slots" /\ plan.more > 0 /\ req' = req
      /\ plan.slot \in 1..Segments!Slots /\ plan.slot > NatSlots /\ plan.slot > 0
      /\ plan.node \in plan.used /\ plan.node \notin NatNodes /\ plan.node \in Nat
      /\ plan.node \in Segments!Routers \cup Segments!Hosts
      /\ SegmentNodes /\ SegmentSlots /\ SegmentFlows
  <2>1. plan \in SegmentPlan /\ plan.pc = "slots" /\ plan.more > 0 /\ req' = req
    BY DEF SegmentInv, Segments!AddsRule, Segments!At
  <2>2. plan.slot \in 1..Segments!Slots /\ plan.slot > NatSlots
        /\ plan.node \in plan.used /\ plan.node \notin NatNodes
        /\ plan.node \in Segments!Routers \cup Segments!Hosts
    BY <2>1 DEF SegmentInv, SegmentMore
  <2>3. plan.slot > 0
    BY <2>2, SegmentCounts
  <2> QED BY <2>1, <2>2, <2>3, PlanFields DEF SegmentInv
<1>2. PICK draft \in Segments!Drafts(plan.node), repeats \in BOOLEAN :
        \E rule :
          /\ rule = IF repeats THEN Segments!Rule(draft.node, "none", draft.chain, {}, {}) ELSE draft
          /\ plan' = [plan EXCEPT
                       !.more = @ - 1,
                       !.slot = IF plan.more = 1 THEN @ + 1 ELSE @,
                       !.enabled = IF plan.service THEN @ \cup {draft.node} ELSE @,
                       !.fw = IF repeats THEN @ ELSE @ \cup {draft.node},
                       !.rules = Append(@, rule)]
  <2>1. \A d : Segments!Repeats(d) \in BOOLEAN
    BY DEF Segments!Repeats
  <2> QED BY <2>1 DEF Segments!AddsRule
<1>3. PICK rule :
        /\ rule = IF repeats THEN Segments!Rule(draft.node, "none", draft.chain, {}, {}) ELSE draft
        /\ plan' = [plan EXCEPT
                     !.more = @ - 1,
                     !.slot = IF plan.more = 1 THEN @ + 1 ELSE @,
                     !.enabled = IF plan.service THEN @ \cup {draft.node} ELSE @,
                     !.fw = IF repeats THEN @ ELSE @ \cup {draft.node},
                     !.rules = Append(@, rule)]
  BY <1>2
<1>4. draft \in SegmentRule /\ draft.node = plan.node /\ draft.type \in Segments!Drops
  BY <1>1, <1>2, DraftTyped
<1>5. /\ rule \in SegmentRule /\ rule.node = plan.node
      /\ rule.type = "none" \/ (~repeats /\ rule.type \in Segments!Drops)
  <2>1. CASE repeats
    <3>1. rule = [node |-> plan.node, type |-> "none", chain |-> draft.chain, src |-> {},
                  dst |-> {}, port |-> 0]
      BY <1>3, <1>4, <2>1 DEF Segments!Rule
    <3>2. draft.chain \in {"", "FORWARD", "INPUT", "OUTPUT"}
      BY <1>4 DEF SegmentRule
    <3> QED BY <1>1, <3>1, <3>2 DEF SegmentRule
  <2> QED BY <1>3, <1>4, <2>1
<1>6. rule.type \notin {"nat"}
  BY <1>5 DEF Segments!Drops
<1>7. plan' \in SegmentPlan
  <2>1. \A s \in Seq(SegmentRule) : Append(s, rule) \in Seq(SegmentRule)
    BY <1>5
  <2>2. /\ Append(plan.rules, rule) \in Seq(SegmentRule) /\ plan.more - 1 \in Nat
        /\ (IF plan.more = 1 THEN plan.slot + 1 ELSE plan.slot) \in Nat
        /\ (IF plan.service THEN plan.enabled \cup {draft.node} ELSE plan.enabled) \in SUBSET Nat
        /\ (IF repeats THEN plan.fw ELSE plan.fw \cup {draft.node}) \in SUBSET Nat
    BY <1>1, <1>4, <2>1, PlanFields
  <2>3. plan' = [plan EXCEPT
                   !.more = @ - 1,
                   !.slot = IF plan.more = 1 THEN @ + 1 ELSE @,
                   !.enabled = IF plan.service THEN @ \cup {draft.node} ELSE @,
                   !.fw = IF repeats THEN @ ELSE @ \cup {draft.node},
                   !.rules = Append(@, rule)]
    BY <1>3
  <2> QED BY <1>1, <2>2, <2>3 DEF SegmentPlan
<1>8. /\ plan'.pc = "slots" /\ plan'.more = plan.more - 1
      /\ plan'.slot = (IF plan.more = 1 THEN plan.slot + 1 ELSE plan.slot)
      /\ plan'.node = plan.node
      /\ plan'.used = plan.used /\ plan'.nat = plan.nat
      /\ plan'.fw = IF repeats THEN plan.fw ELSE plan.fw \cup {plan.node}
      /\ plan.enabled \subseteq plan'.enabled /\ plan'.rules = Append(plan.rules, rule)
      /\ plan'.flow = plan.flow
  BY <1>1, <1>3, <1>4 DEF SegmentPlan
<1>9. /\ Grown({rule})
      /\ DOMAIN plan'.rules = DOMAIN plan.rules \cup {Len(plan.rules) + 1}
      /\ plan'.rules[Len(plan.rules) + 1] = rule
  BY <1>1, <1>5, <1>8, GrownByOne
<1>10. /\ NatNodes' = NatNodes
      /\ DropNodes' = DropNodes \cup (IF rule.type = "none" THEN {} ELSE {plan.node})
  <2>1. {x.node : x \in {y \in {rule} : y.type = "nat"}} = {}
    BY <1>6
  <2>2. {x.node : x \in {y \in {rule} : y.type \in Segments!Drops}} =
          IF rule.type = "none" THEN {} ELSE {plan.node}
    BY <1>5 DEF Segments!Drops
  <2>3. /\ NatNodes' = NatNodes \cup {x.node : x \in {y \in {rule} : y.type = "nat"}}
        /\ DropNodes' = DropNodes \cup {x.node : x \in {y \in {rule} : y.type \in Segments!Drops}}
    BY <1>9, NodesGrow
  <2> QED BY <2>1, <2>2, <2>3
<1>11. SegmentNodes'
  <2>1. \A i, j \in DOMAIN plan'.rules :
          /\ i # j /\ plan'.rules[i].type = "nat" /\ plan'.rules[j].type = "nat"
          => plan'.rules[i].node # plan'.rules[j].node
    BY <1>1, <1>6, <1>9 DEF Grown, SegmentNodes
  <2>2. /\ NatNodes' \subseteq plan'.nat \cap Segments!Routers'
        /\ DropNodes' \subseteq plan'.fw
    BY <1>1, <1>5, <1>8, <1>10, SegmentSame DEF SegmentNodes, Segments!Drops
  <2>3. /\ plan'.nat \cup plan'.fw \subseteq FoundFirst' \cup plan'.used
        /\ NatNodes' \cap DropNodes' = {}
    BY <1>1, <1>8, <1>10, SegmentSame DEF SegmentNodes
  <2> QED BY <2>1, <2>2, <2>3 DEF SegmentNodes
<1>12. SegmentSlots'
  <2>1. Taken' = Taken /\ IsFiniteSet(plan'.used)
    BY <1>1, <1>8, PlanFields DEF Taken, SegmentSlots
  <2>2. plan'.slot <= Segments!Slots' + 1 /\ plan'.slot > NatSlots'
    BY <1>1, <1>8, SegmentSame, SegmentCounts
  <2>3. NatSlots <= Cardinality(CleanFirst) => Cardinality(NatNodes) >= NatSlots
    BY <1>1 DEF SegmentSlots
  <2>4. CleanFirst' = CleanFirst /\ NatSlots' = NatSlots
    BY <1>1, SegmentSame
  <2>5. Taken' <= Cardinality(CleanFirst)' => Cardinality(plan'.used) = Taken'
    BY <1>1, <1>8, <2>1, <2>4 DEF SegmentSlots
  <2> QED
    BY <1>10, <2>1, <2>2, <2>3, <2>4, <2>5 DEF SegmentSlots
<1>13. SegmentFlows'
  BY <1>1, <1>8, SlotsKeepFlows
<1>14. SegmentMore'
  BY <1>1, <1>8, <1>10, SegmentSame, PlanFields DEF SegmentMore
<1> QED
  BY <1>1, <1>7, <1>8, <1>11, <1>12, <1>13, <1>14, SegmentCounts DEF SegmentInv

\* After the slots nothing changes what they have placed.
LEMMA SlotsStay ==
  ASSUME SegmentRequest, SegmentInv, req' = req, plan.more = 0, NEW R, Grown(R),
         \A x \in R : x.type \notin Segments!Drops \cup {"nat"},
         plan'.slot = plan.slot, plan'.more = plan.more, plan'.used = plan.used,
         plan'.nat = plan.nat, plan'.fw = plan.fw
  PROVE  SegmentMore' /\ (plan'.slot > 0 => SegmentNodes' /\ SegmentSlots')
<1>1. SegmentMore'
  BY DEF SegmentMore
<1>2. ASSUME plan.slot > 0 PROVE SegmentNodes' /\ SegmentSlots'
  <2>1. SegmentNodes /\ SegmentSlots
    BY <1>2 DEF SegmentInv
  <2>2. SegmentNodes' /\ NatNodes' = NatNodes
    BY <2>1, NodesKept
  <2>3. Taken' = Taken /\ CleanFirst' = CleanFirst /\ NatSlots' = NatSlots
        /\ Segments!Slots' = Segments!Slots
    BY SegmentSame DEF Taken
  <2> QED BY <2>1, <2>2, <2>3 DEF SegmentSlots
<1> QED BY <1>1, <1>2

LEMMA SegmentsEndsSlots ==
  ASSUME SegmentRequest, SegmentInv, Segments!EndsSlots
  PROVE  SegmentInv'
<1>1. /\ plan \in SegmentPlan /\ SegmentFlows /\ plan.pc = "slots" /\ plan.more = 0 /\ req' = req
      /\ plan' = [plan EXCEPT !.pc = "allow"] /\ plan.slot > Segments!Slots
  BY DEF SegmentInv, Segments!EndsSlots, Segments!At
<1>2. plan' \in SegmentPlan /\ plan'.pc = "allow" /\ plan'.slot = plan.slot /\ plan'.more = 0
      /\ plan'.rules = plan.rules /\ plan'.used = plan.used /\ plan'.nat = plan.nat
      /\ plan'.fw = plan.fw /\ plan'.enabled = plan.enabled /\ plan'.flow = plan.flow
  BY <1>1 DEF SegmentPlan
<1>3. Grown({})
  BY <1>1, <1>2, GrownByNone
<1>4. SegmentMore' /\ (plan'.slot > 0 => SegmentNodes' /\ SegmentSlots')
  BY <1>1, <1>2, <1>3, SlotsStay
<1>5. SegmentFlows'
  <2>1. plan.flow = 1
    BY <1>1 DEF SegmentFlows
  <2>2. \A k \in DOMAIN req'.flows : ~(k < plan'.flow)
    BY <1>1, <1>2, <2>1, SegmentSizes
  <2> QED BY <1>2, <2>2 DEF SegmentFlows
<1> QED
  BY <1>1, <1>2, <1>4, <1>5, PlanFields DEF SegmentInv

\* The flow whose turn it is.
LEMMA FlowFacts ==
  ASSUME SegmentRequest, SegmentInv, NEW pc \in {"allow", "dnat"}, Segments!AtFlow(pc)
  PROVE  /\ plan \in SegmentPlan /\ SegmentFlows /\ plan.pc = pc /\ plan.more = 0 /\ req' = req
         /\ plan.flow \in DOMAIN req.flows /\ plan.flow \in Nat
         /\ Segments!Flow = req.flows[plan.flow]
         /\ Segments!Flow.src \in Segments!Hosts /\ Segments!Flow.dst \in Segments!Hosts
         /\ Segments!Flow.port \in Nat
<1>1. plan.pc = pc /\ req' = req /\ plan.flow \in DOMAIN req.flows
  BY DEF Segments!AtFlow, Segments!At
<1>2. plan \in SegmentPlan /\ SegmentFlows
  BY DEF SegmentInv
<1>3. plan.more = 0
  BY <1>1, <1>2, PlanFields DEF SegmentInv, SegmentMore
<1> QED
  BY <1>1, <1>2, <1>3, PlanFields, SegmentSizes DEF Segments!Flow

\* The flows done before this one stay let through.
LEMMA FlowsStay ==
  ASSUME SegmentRequest, SegmentInv, req' = req, plan \in SegmentPlan,
         plan.pc \in {"allow", "dnat"}, NEW R, Grown(R),
         \A x \in R : x.type \notin Segments!Drops \cup {"nat", "none"},
         NEW k \in DOMAIN req.flows, plan.pc = "allow" => k < plan.flow,
         Segments!Blocked(req.flows[k])'
  PROVE  LetThrough(req.flows[k])'
<1> DEFINE f == req.flows[k]
<1>1. PICK g : g = f
  OBVIOUS
<1>2. req'.flows[k] = g
  BY <1>1
<1>3. Segments!Blocked(g)'
  BY <1>1, <1>2
<1>4. Segments!Blocked(g)
  BY <1>3, FlowsKept
<1>5. LetThrough(g)
  BY <1>1, <1>4 DEF SegmentInv, SegmentFlows
<1>6. LetThrough(g)'
  BY <1>5, AllowsKept
<1> QED BY <1>2, <1>6

LEMMA SegmentsPassesFlow ==
  ASSUME SegmentRequest, SegmentInv, Segments!PassesFlow
  PROVE  SegmentInv'
<1>1. Segments!AtFlow("allow") /\ ~Segments!Blocked(Segments!Flow)
      /\ plan' = [plan EXCEPT !.flow = @ + 1]
  BY DEF Segments!PassesFlow
<1>2. /\ plan \in SegmentPlan /\ SegmentFlows /\ plan.pc = "allow" /\ plan.more = 0 /\ req' = req
      /\ plan.flow \in DOMAIN req.flows /\ plan.flow \in Nat
      /\ Segments!Flow = req.flows[plan.flow]
  BY <1>1, FlowFacts
<1>3. plan' \in SegmentPlan /\ plan'.pc = "allow" /\ plan'.slot = plan.slot /\ plan'.more = plan.more
      /\ plan'.rules = plan.rules /\ plan'.used = plan.used /\ plan'.nat = plan.nat
      /\ plan'.fw = plan.fw /\ plan'.enabled = plan.enabled /\ plan'.flow = plan.flow + 1
  BY <1>1, <1>2 DEF SegmentPlan
<1>4. Grown({})
  BY <1>2, <1>3, GrownByNone
<1>5. SegmentMore' /\ (plan'.slot > 0 => SegmentNodes' /\ SegmentSlots')
  BY <1>2, <1>3, <1>4, SlotsStay
<1>6. SegmentFlows'
  <2>1. ASSUME NEW k \in DOMAIN req.flows, k < plan.flow + 1, Segments!Blocked(req.flows[k])'
        PROVE  LetThrough(req.flows[k])'
    <3>1. CASE k < plan.flow
      BY <1>2, <1>4, <2>1, <3>1, FlowsStay
    <3>2. CASE ~(k < plan.flow)
      <4>1. k = plan.flow
        BY <1>2, <2>1, <3>2, SegmentSizes
      <4>2. PICK g : g = req.flows[k]
        OBVIOUS
      <4>3. Segments!Blocked(g)'
        BY <1>2, <2>1, <4>2
      <4>4. Segments!Blocked(g)
        BY <1>2, <1>4, <4>3, FlowsKept
      <4> QED BY <1>1, <1>2, <4>1, <4>2, <4>4
    <3> QED BY <3>1, <3>2
  <2> QED BY <1>2, <1>3, <2>1 DEF SegmentFlows
<1> QED
  BY <1>3, <1>5, <1>6 DEF SegmentInv

LEMMA SegmentsVerifiesFlows ==
  ASSUME SegmentRequest, SegmentInv, Segments!VerifiesFlows
  PROVE  SegmentInv'
<1>1. /\ plan \in SegmentPlan /\ SegmentFlows /\ plan.pc = "allow" /\ req' = req
      /\ plan.flow \notin DOMAIN req.flows
      /\ plan' = [plan EXCEPT
               !.pc = IF req.dnat THEN "dnat" ELSE "done", !.flow = 1,
               !.reported = {f \in DOMAIN req.flows : \E i \in DOMAIN plan.rules :
                               /\ plan.rules[i].type = "protect_internal"
                               /\ req.flows[f].dst \in plan.rules[i].dst}]
  BY DEF SegmentInv, Segments!VerifiesFlows, Segments!At
<1>2. plan.more = 0
  BY <1>1, PlanFields DEF SegmentInv, SegmentMore
<1>3. PICK reported \in SUBSET Nat :
        plan' = [plan EXCEPT !.pc = IF req.dnat THEN "dnat" ELSE "done", !.flow = 1,
                             !.reported = reported]
  <2>1. DOMAIN req.flows \subseteq Nat
    BY SegmentSizes
  <2> QED BY <1>1, <2>1
<1>4. plan' \in SegmentPlan /\ plan'.pc \in {"dnat", "done"} /\ plan'.slot = plan.slot
      /\ plan'.more = plan.more
      /\ plan'.rules = plan.rules /\ plan'.used = plan.used /\ plan'.nat = plan.nat
      /\ plan'.fw = plan.fw /\ plan'.enabled = plan.enabled
  <2>1. PICK pc \in {"dnat", "done"} :
          plan' = [plan EXCEPT !.pc = pc, !.flow = 1, !.reported = reported]
    BY <1>3
  <2>2. plan' \in SegmentPlan
    <3>1. pc \in {"slots", "allow", "dnat", "done"} /\ 1 \in Nat \ {0}
      OBVIOUS
    <3> QED BY <1>1, <1>3, <2>1, <3>1 DEF SegmentPlan
  <2>3. plan'.pc = pc /\ plan'.slot = plan.slot /\ plan'.more = plan.more
        /\ plan'.rules = plan.rules /\ plan'.used = plan.used /\ plan'.nat = plan.nat
        /\ plan'.fw = plan.fw /\ plan'.enabled = plan.enabled
    BY <1>1, <2>1 DEF SegmentPlan
  <2> QED BY <2>2, <2>3
<1>5. Grown({})
  BY <1>1, <1>4, GrownByNone
<1>6. SegmentMore' /\ (plan'.slot > 0 => SegmentNodes' /\ SegmentSlots')
  BY <1>1, <1>2, <1>4, <1>5, SlotsStay
<1>7. SegmentFlows'
  <2>1. ASSUME NEW k \in DOMAIN req.flows, Segments!Blocked(req.flows[k])'
        PROVE  LetThrough(req.flows[k])'
    <3>1. k < plan.flow
      BY <1>1, SegmentSizes, PlanFields
    <3> QED BY <1>1, <1>5, <2>1, <3>1, FlowsStay
  <2> QED BY <1>1, <2>1 DEF SegmentFlows
<1> QED
  BY <1>4, <1>6, <1>7 DEF SegmentInv

LEMMA SegmentsEndsPorts ==
  ASSUME SegmentRequest, SegmentInv, Segments!EndsPorts
  PROVE  SegmentInv'
<1>1. /\ plan \in SegmentPlan /\ SegmentFlows /\ plan.pc = "dnat" /\ req' = req
      /\ plan' = [plan EXCEPT !.pc = "done"]
  BY DEF SegmentInv, Segments!EndsPorts, Segments!At
<1>2. plan.more = 0
  BY <1>1, PlanFields DEF SegmentInv, SegmentMore
<1>3. plan' \in SegmentPlan /\ plan'.pc = "done" /\ plan'.slot = plan.slot /\ plan'.more = plan.more
      /\ plan'.rules = plan.rules /\ plan'.used = plan.used /\ plan'.nat = plan.nat
      /\ plan'.fw = plan.fw /\ plan'.enabled = plan.enabled
  BY <1>1 DEF SegmentPlan
<1>4. Grown({})
  BY <1>1, <1>3, GrownByNone
<1>5. SegmentMore' /\ (plan'.slot > 0 => SegmentNodes' /\ SegmentSlots')
  BY <1>1, <1>2, <1>3, <1>4, SlotsStay
<1>6. SegmentFlows'
  <2>1. ASSUME NEW k \in DOMAIN req.flows, Segments!Blocked(req.flows[k])'
        PROVE  LetThrough(req.flows[k])'
    BY <1>1, <1>4, <2>1, FlowsStay
  <2> QED BY <1>1, <2>1 DEF SegmentFlows
<1> QED
  BY <1>3, <1>5, <1>6 DEF SegmentInv

LEMMA SegmentsAllowsFlow ==
  ASSUME SegmentRequest, SegmentInv, Segments!AllowsFlow
  PROVE  SegmentInv'
<1>0. PICK flow : flow = Segments!Flow
  OBVIOUS
<1>1. Segments!AtFlow("allow")
  BY DEF Segments!AllowsFlow
<1>2. /\ plan \in SegmentPlan /\ SegmentFlows /\ plan.pc = "allow" /\ plan.more = 0 /\ req' = req
      /\ plan.flow \in DOMAIN req.flows /\ plan.flow \in Nat
      /\ flow = req.flows[plan.flow]
      /\ flow.src \in Segments!Hosts /\ flow.dst \in Segments!Hosts
      /\ flow.port \in Nat
  BY <1>0, <1>1, FlowFacts
<1>3. PICK src \in {{Segments!Flow.src}, Segments!Sel(req.net[Segments!Flow.src])},
           dst \in {{Segments!Flow.dst}, Segments!Sel(req.net[Segments!Flow.dst])} :
        LET wanted == {Segments!AllowAt(Segments!Flow.dst, "INPUT", src, dst),
                       Segments!AllowAt(Segments!Flow.src, "OUTPUT", src, dst)}
                        \cup {Segments!AllowAt(r, "FORWARD", src, dst) : r \in Segments!Routers}
            new == Segments!SetToSeq({rule \in wanted : ~Segments!Covered(rule)})
        IN  plan' = [plan EXCEPT !.flow = @ + 1, !.rules = @ \o new,
                                 !.enabled = @ \cup Segments!Enables({rule.node : rule \in Segments!Range(new)})]
  BY Zenon DEF Segments!AllowsFlow
<1> DEFINE wanted == {Segments!AllowAt(Segments!Flow.dst, "INPUT", src, dst),
                      Segments!AllowAt(Segments!Flow.src, "OUTPUT", src, dst)}
                       \cup {Segments!AllowAt(r, "FORWARD", src, dst) : r \in Segments!Routers}
           R == {rule \in wanted : ~Segments!Covered(rule)}
           new == Segments!SetToSeq(R)
           enabled == Segments!Enables({rule.node : rule \in Segments!Range(new)})
<1>4. plan' = [plan EXCEPT !.flow = @ + 1, !.rules = @ \o new, !.enabled = @ \cup enabled]
  BY <1>3, Zenon
<1>5. /\ src \in SUBSET Int /\ dst \in SUBSET Int /\ flow.src \in src /\ flow.dst \in dst
  <2>1. \A h \in Segments!Hosts : {h} \in SUBSET Int /\ Segments!Sel(req.net[h]) \in SUBSET Int
                                  /\ h \in Segments!Sel(req.net[h])
    BY SegmentSizes, SelectorsTyped DEF Segments!Sel
  <2> QED BY <1>0, <1>2, <1>3, <2>1
<1>6. \A n, chain : Segments!AllowAt(n, chain, src, dst) =
        [node |-> n, type |-> "allow", chain |-> chain, src |-> src, dst |-> dst, port |-> flow.port]
  BY <1>0 DEF Segments!AllowAt
<1>7. \A x \in wanted : x \in SegmentRule /\ x.type = "allow"
  <2>1. \A n \in Nat, chain \in {"FORWARD", "INPUT", "OUTPUT"} :
          /\ Segments!AllowAt(n, chain, src, dst) \in SegmentRule
          /\ Segments!AllowAt(n, chain, src, dst).type = "allow"
    <3> SUFFICES ASSUME NEW n \in Nat, NEW chain \in {"FORWARD", "INPUT", "OUTPUT"}
                 PROVE  /\ Segments!AllowAt(n, chain, src, dst) \in SegmentRule
                        /\ Segments!AllowAt(n, chain, src, dst).type = "allow"
      OBVIOUS
    <3>1. chain \in {"", "FORWARD", "INPUT", "OUTPUT"}
          /\ "allow" \in Segments!Drops \cup {"none", "nat", "custom", "allow", "dnat"}
      OBVIOUS
    <3>2. Segments!AllowAt(n, chain, src, dst) =
            [node |-> n, type |-> "allow", chain |-> chain, src |-> src, dst |-> dst,
             port |-> flow.port]
      BY <1>6
    <3>3. PICK x : x = [node |-> n, type |-> "allow", chain |-> chain, src |-> src, dst |-> dst,
                        port |-> flow.port]
      OBVIOUS
    <3>4. flow.port \in Nat /\ src \in SUBSET Int /\ dst \in SUBSET Int
      BY <1>2, <1>5
    <3> HIDE DEF wanted
    <3>5. x \in SegmentRule /\ x.type = "allow"
      BY <3>1, <3>3, <3>4 DEF SegmentRule
    <3> QED BY <3>2, <3>3, <3>5
  <2>2. Segments!Routers \subseteq Nat /\ Segments!Hosts \subseteq Nat
    BY SegmentSizes
  <2> QED BY <1>0, <1>2, <2>1, <2>2
<1>8. IsFiniteSet(R)
  <2>1. IsFiniteSet(Segments!Routers)
    <3>1. req.routers \in Int /\ Segments!Routers = 1..req.routers
      BY SegmentSizes
    <3> QED BY <3>1, FS_Interval
  <2>2. IsFiniteSet({Segments!AllowAt(r, "FORWARD", src, dst) : r \in Segments!Routers})
    <3> DEFINE g == [r \in Segments!Routers |-> Segments!AllowAt(r, "FORWARD", src, dst)]
               T == {Segments!AllowAt(r, "FORWARD", src, dst) : r \in Segments!Routers}
    <3>1. g \in Surjection(Segments!Routers, T)
      BY DEF Surjection
    <3> HIDE DEF g, T
    <3>2. IsFiniteSet(T)
      BY <2>1, <3>1, FS_Surjection
    <3> QED BY <3>2 DEF T
  <2>3. \A a, b : IsFiniteSet({a, b})
    <3> SUFFICES ASSUME NEW a, NEW b PROVE IsFiniteSet({a, b})
      OBVIOUS
    <3>1. IsFiniteSet({a} \cup {b})
      BY FS_Singleton, FS_AddElement
    <3> QED BY <3>1
  <2>4. IsFiniteSet(wanted)
    BY <2>2, <2>3, FS_Union
  <2>5. R \in SUBSET wanted
    OBVIOUS
  <2> HIDE DEF wanted, R
  <2> QED BY <2>4, <2>5, FS_Subset
<1> HIDE DEF wanted
<1>9. new \in Seq(R) /\ Segments!Range(new) = R
  BY <1>8, SetToSeqOf
<1>10. \A x \in R : x \in SegmentRule /\ x.type = "allow" /\ x \in wanted
  BY <1>7
<1> HIDE DEF R, new
<1>11. new \in Seq(SegmentRule)
  <2>1. R \subseteq SegmentRule
    BY <1>10
  <2> QED BY <1>9, <2>1
<1>12. enabled \in SUBSET Nat
  BY <1>9, SegmentSizes DEF Segments!Enables
<1> HIDE DEF enabled
<1>13. plan' \in SegmentPlan
  <2>1. plan.rules \o new \in Seq(SegmentRule)
    BY <1>2, <1>11, PlanFields
  <2>2. plan.flow + 1 \in Nat \ {0}
    BY <1>2
  <2>3. plan.enabled \cup enabled \in SUBSET Nat
    BY <1>2, <1>12, PlanFields
  <2> QED BY <1>2, <1>4, <2>1, <2>2, <2>3 DEF SegmentPlan
<1>14. plan'.pc = "allow" /\ plan'.slot = plan.slot /\ plan'.more = plan.more
      /\ plan'.rules = plan.rules \o new /\ plan'.used = plan.used /\ plan'.nat = plan.nat
      /\ plan'.fw = plan.fw /\ plan'.enabled = plan.enabled \cup enabled
      /\ plan'.flow = plan.flow + 1
  BY <1>2, <1>4 DEF SegmentPlan
<1>15. Grown(R)
  BY <1>2, <1>9, <1>11, <1>14, GrownByMany
<1>16. \A x \in R : x.type \notin Segments!Drops \cup {"nat", "none"}
  BY <1>10 DEF Segments!Drops
<1>17. SegmentMore' /\ (plan'.slot > 0 => SegmentNodes' /\ SegmentSlots')
  BY <1>2, <1>14, <1>15, <1>16, SlotsStay
\* Each rule that is wanted is there afterwards, or one that accepts as much.
<1>18. ASSUME NEW n, NEW chain, Segments!AllowAt(n, chain, src, dst) \in wanted
       PROVE  \E i \in DOMAIN plan'.rules : Allows(i, n, chain, flow)'
  <2>1. PICK x : x = Segments!AllowAt(n, chain, src, dst)
    OBVIOUS
  <2>2. x.type = "allow" /\ x.node = n /\ x.chain = chain /\ x.port = flow.port
        /\ flow.src \in x.src /\ flow.dst \in x.dst
    BY <1>5, <1>6, <2>1
  <2>3. CASE Segments!Covered(x)
    <3>1. PICK i \in DOMAIN plan.rules :
            LET r == plan.rules[i]
            IN  /\ r.type = "allow" /\ r.node = x.node /\ r.chain = x.chain /\ r.port = x.port
                /\ x.src \subseteq r.src /\ x.dst \subseteq r.dst
      BY <2>3 DEF Segments!Covered
    <3>2. i \in DOMAIN plan'.rules /\ plan'.rules[i] = plan.rules[i]
      BY <1>15 DEF Grown
    <3> QED BY <2>2, <3>1, <3>2 DEF Allows
  <2>4. CASE ~Segments!Covered(x)
    <3>1. x \in R
      BY <1>18, <2>1, <2>4 DEF R
    <3>2. PICK i \in DOMAIN plan'.rules : plan'.rules[i] = x
      BY <1>15, <3>1 DEF Grown
    <3> QED BY <2>2, <3>2 DEF Allows
  <2> QED BY <2>3, <2>4
<1>19. LetThrough(flow)'
  <2>1. \A n \in Segments!Routers : Segments!AllowAt(n, "FORWARD", src, dst) \in wanted
    BY DEF wanted
  <2>2. Segments!AllowAt(flow.dst, "INPUT", src, dst) \in wanted
    BY <1>0 DEF wanted
  <2>3. Segments!Routers' = Segments!Routers
    BY <1>2, SegmentSame
  <2> QED BY <1>18, <2>1, <2>2, <2>3 DEF LetThrough
<1>20. SegmentFlows'
  <2>1. ASSUME NEW k \in DOMAIN req.flows, k < plan.flow + 1, Segments!Blocked(req.flows[k])'
        PROVE  LetThrough(req.flows[k])'
    <3>1. CASE k < plan.flow
      BY <1>2, <1>15, <1>16, <2>1, <3>1, FlowsStay
    <3>2. CASE ~(k < plan.flow)
      <4>1. k = plan.flow
        BY <1>2, <2>1, <3>2, SegmentSizes
      <4>2. flow = req'.flows[k]
        BY <1>2, <4>1
      <4> QED BY <1>2, <1>19, <4>2
    <3> QED BY <3>1, <3>2
  <2> QED BY <1>2, <1>14, <2>1 DEF SegmentFlows
<1> QED
  BY <1>13, <1>14, <1>17, <1>20 DEF SegmentInv

LEMMA SegmentsForwardsPort ==
  ASSUME SegmentRequest, SegmentInv, Segments!ForwardsPort
  PROVE  SegmentInv'
<1>0. PICK flow : flow = Segments!Flow
  OBVIOUS
<1>1. Segments!AtFlow("dnat")
  BY DEF Segments!ForwardsPort
<1>2. /\ plan \in SegmentPlan /\ SegmentFlows /\ plan.pc = "dnat" /\ plan.more = 0 /\ req' = req
      /\ plan.flow \in Nat
      /\ flow.dst \in Segments!Hosts /\ flow.port \in Nat
  BY <1>0, <1>1, FlowFacts
<1> DEFINE known == {plan.rules[i].node : i \in {j \in DOMAIN plan.rules :
                        /\ plan.rules[j].type = "dnat" /\ plan.rules[j].dst = {Segments!Flow.dst}
                        /\ plan.rules[j].port = Segments!Flow.port}}
           N == Segments!Routers \ known
           new == Segments!SetToSeq(N)
           rule(r) == [node |-> r, type |-> "dnat", chain |-> "FORWARD", src |-> Segments!All,
                       dst |-> {Segments!Flow.dst}, port |-> Segments!Flow.port]
           added == [i \in DOMAIN new |-> rule(new[i])]
<1>4. \/ plan' = [plan EXCEPT !.flow = @ + 1]
      \/ plan' = [plan EXCEPT !.flow = @ + 1, !.enabled = @ \cup Segments!Range(new),
                              !.rules = @ \o added]
  BY Zenon DEF Segments!ForwardsPort
<1> HIDE DEF known
<1>5. new \in Seq(N) /\ Segments!Range(new) = N
  <2>1. IsFiniteSet(Segments!Routers)
    <3>1. req.routers \in Int /\ Segments!Routers = 1..req.routers
      BY SegmentSizes
    <3> QED BY <3>1, FS_Interval
  <2>2. IsFiniteSet(N)
    BY <2>1, FS_Subset
  <2> HIDE DEF N
  <2> QED BY <2>2, SetToSeqOf
<1>6. \A r \in N : rule(r) \in SegmentRule /\ rule(r).type = "dnat"
  <2> SUFFICES ASSUME NEW r \in N PROVE rule(r) \in SegmentRule /\ rule(r).type = "dnat"
    OBVIOUS
  <2>1. r \in Nat /\ Segments!All \in SUBSET Int /\ {flow.dst} \in SUBSET Int
    BY <1>2, SegmentSizes, SelectorsTyped
  <2>2. rule(r) = [node |-> r, type |-> "dnat", chain |-> "FORWARD", src |-> Segments!All,
                   dst |-> {flow.dst}, port |-> flow.port]
    BY <1>0
  <2>3. "dnat" \in Segments!Drops \cup {"none", "nat", "custom", "allow", "dnat"}
        /\ "FORWARD" \in {"", "FORWARD", "INPUT", "OUTPUT"}
    OBVIOUS
  <2> HIDE DEF rule, N
  <2> QED BY <1>2, <2>1, <2>2, <2>3 DEF SegmentRule
<1> HIDE DEF new, rule
<1>7. added \in Seq(SegmentRule) /\ (\A i \in DOMAIN added : added[i].type = "dnat")
  <2>1. Len(new) \in Nat /\ DOMAIN new = 1..Len(new) /\ \A i \in DOMAIN new : new[i] \in N
    <3> HIDE DEF N
    <3> QED BY <1>5
  <2>2. added = [i \in 1..Len(new) |-> rule(new[i])]
    BY <2>1
  <2>3. \A i \in 1..Len(new) : rule(new[i]) \in SegmentRule /\ rule(new[i]).type = "dnat"
    BY <1>6, <2>1
  <2> HIDE DEF added, N
  <2> QED BY <2>1, <2>2, <2>3
<1> HIDE DEF added
<1>8. plan.rules \o added \in Seq(SegmentRule) /\ plan.flow + 1 \in Nat \ {0}
      /\ plan.enabled \cup Segments!Range(new) \in SUBSET Nat
  <2>1. plan.rules \o added \in Seq(SegmentRule)
    BY <1>2, <1>7, PlanFields
  <2>2. N \subseteq Nat /\ plan.enabled \subseteq Nat
    BY <1>2, PlanFields, SegmentSizes
  <2> QED BY <1>2, <1>5, <2>1, <2>2
<1>9. PICK R :
        /\ plan' \in SegmentPlan /\ Grown(R) /\ \A x \in R : x.type = "dnat"
        /\ plan'.pc = "dnat" /\ plan'.slot = plan.slot /\ plan'.more = plan.more
        /\ plan'.used = plan.used /\ plan'.nat = plan.nat /\ plan'.fw = plan.fw
        /\ plan.enabled \subseteq plan'.enabled
  <2>1. CASE plan' = [plan EXCEPT !.flow = @ + 1]
    <3>1. plan' \in SegmentPlan /\ plan'.rules = plan.rules
          /\ plan'.pc = "dnat" /\ plan'.slot = plan.slot /\ plan'.more = plan.more
          /\ plan'.used = plan.used /\ plan'.nat = plan.nat /\ plan'.fw = plan.fw
          /\ plan.enabled \subseteq plan'.enabled
      BY <1>2, <1>8, <2>1 DEF SegmentPlan
    <3>2. Grown({})
      BY <1>2, <3>1, GrownByNone
    <3> QED BY <3>1, <3>2
  <2>2. CASE plan' = [plan EXCEPT !.flow = @ + 1, !.enabled = @ \cup Segments!Range(new),
                                  !.rules = @ \o added]
    <3>1. plan' \in SegmentPlan
      BY <1>2, <1>8, <2>2 DEF SegmentPlan
    <3>2. plan'.rules = plan.rules \o added
          /\ plan'.pc = "dnat" /\ plan'.slot = plan.slot /\ plan'.more = plan.more
          /\ plan'.used = plan.used /\ plan'.nat = plan.nat /\ plan'.fw = plan.fw
          /\ plan.enabled \subseteq plan'.enabled
      BY <1>2, <2>2 DEF SegmentPlan
    <3>3. Grown(Segments!Range(added))
      BY <1>2, <1>7, <3>2, GrownByMany
    <3>4. \A x \in Segments!Range(added) : x.type = "dnat"
      BY <1>7 DEF Segments!Range
    <3> QED BY <3>1, <3>2, <3>3, <3>4
  <2> QED BY <1>4, <2>1, <2>2
<1>10. \A x \in R : x.type \notin Segments!Drops \cup {"nat", "none"}
  BY <1>9 DEF Segments!Drops
<1>11. SegmentMore' /\ (plan'.slot > 0 => SegmentNodes' /\ SegmentSlots')
  BY <1>2, <1>9, <1>10, SlotsStay
<1>12. SegmentFlows'
  <2>1. ASSUME NEW k \in DOMAIN req.flows, Segments!Blocked(req.flows[k])'
        PROVE  LetThrough(req.flows[k])'
    BY <1>2, <1>9, <1>10, <2>1, FlowsStay
  <2> QED BY <1>2, <1>9, <2>1 DEF SegmentFlows
<1> QED
  BY <1>9, <1>11, <1>12 DEF SegmentInv

LEMMA SegmentsStep ==
  ASSUME SegmentRequest, SegmentInv, Segments!Next
  PROVE  SegmentRequest' /\ SegmentInv'
<1>1. req' = req
  BY DEF Segments!Next, Segments!Skips, Segments!Starts, Segments!PlacesNat, Segments!SkipsNat,
         Segments!PlacesCustom, Segments!PlacesFirewall, Segments!SkipsOther, Segments!AddsRule,
         Segments!EndsSlots, Segments!AllowsFlow, Segments!PassesFlow, Segments!VerifiesFlows,
         Segments!ForwardsPort, Segments!EndsPorts, Segments!SlotFor, Segments!AtFlow, Segments!At
<1>2. SegmentRequest'
  BY <1>1, SegmentSame
<1> QED
  BY <1>2, SegmentsSkips, SegmentsStarts, SegmentsPlacesNat, SegmentsSkipsNat,
     SegmentsPlacesCustom, SegmentsPlacesFirewall, SegmentsSkipsOther, SegmentsAddsRule,
     SegmentsEndsSlots, SegmentsAllowsFlow, SegmentsPassesFlow, SegmentsVerifiesFlows,
     SegmentsForwardsPort, SegmentsEndsPorts
  DEF Segments!Next

LEMMA SegmentsWait ==
  ASSUME SegmentRequest, SegmentInv, UNCHANGED <<req, plan>>
  PROVE  SegmentRequest' /\ SegmentInv'
<1>1. SegmentRequest' /\ Segments!Routers' = Segments!Routers /\ Segments!Hosts' = Segments!Hosts
      /\ FoundFirst' = FoundFirst /\ CleanFirst' = CleanFirst /\ NatSlots' = NatSlots
      /\ Segments!Slots' = Segments!Slots
  BY SegmentSame
<1>2. NatNodes' = NatNodes /\ DropNodes' = DropNodes /\ Taken' = Taken
  BY DEF NatNodes, DropNodes, Segments!NodesOf, Taken
<1>3. plan' \in SegmentPlan
  BY DEF SegmentInv, SegmentPlan
<1>4. SegmentMore' /\ (plan'.slot > 0 => SegmentNodes' /\ SegmentSlots')
  BY <1>1, <1>2 DEF SegmentInv, SegmentMore, SegmentNodes, SegmentSlots
<1>5. Grown({})
  BY <1>3, GrownByNone DEF SegmentInv
<1>6. SegmentFlows'
  <2>1. ASSUME NEW k \in DOMAIN req.flows, Segments!Blocked(req.flows[k])',
               plan.pc \in {"dnat", "done"} \/ (plan.pc = "allow" /\ k < plan.flow)
        PROVE  LetThrough(req.flows[k])'
    <3>1. PICK f : f = req.flows[k]
      OBVIOUS
    <3>2. Segments!Blocked(f)'
      BY <2>1, <3>1
    <3>3. Segments!Blocked(f)
      BY <1>5, <3>2, FlowsKept
    <3>4. LetThrough(f)
      BY <2>1, <3>1, <3>3 DEF SegmentInv, SegmentFlows
    <3>5. LetThrough(f)'
      BY <1>5, <3>4, AllowsKept
    <3> QED BY <3>1, <3>5
  <2> QED BY <2>1 DEF SegmentInv, SegmentFlows
<1> QED
  BY <1>1, <1>3, <1>4, <1>6 DEF SegmentInv, Segments!Begun

LEMMA SegmentsPromise ==
  ASSUME SegmentRequest, SegmentInv
  PROVE  Segments!SlotsPlaced /\ Segments!NatApart /\ Segments!AllowRulesSuffice
<1>1. Segments!NatApart
  BY DEF Segments!NatApart, SegmentInv, SegmentNodes, NatNodes, DropNodes
<1>2. Segments!SlotsPlaced
  <2> SUFFICES ASSUME Segments!Placed PROVE Segments!SlotsPlaced
    BY DEF Segments!SlotsPlaced
  <2>1. /\ plan.slot > Segments!Slots /\ plan.slot > 0 /\ plan.slot = Segments!Slots + 1
        /\ plan.more = 0 /\ SegmentSlots
    BY SegmentCounts, PlanFields DEF Segments!Placed, SegmentInv, SegmentMore, SegmentSlots
  <2>2. Taken = Segments!Slots
    BY <2>1, SegmentCounts DEF Taken
  <2>3. Segments!Slots <= Cardinality(CleanFirst) => Cardinality(plan.used) = Segments!Slots
    BY <2>1, <2>2 DEF SegmentSlots
  <2>4. NatSlots <= Cardinality(CleanFirst) => Cardinality(NatNodes) >= NatSlots
    BY <2>1, SegmentCounts DEF SegmentSlots
  <2> QED
    BY <2>3, <2>4, SegmentCardinality
    DEF Segments!SlotsPlaced, CleanFirst, FoundFirst, NatSlots, NatNodes
<1>3. Segments!AllowRulesSuffice
  <2> SUFFICES ASSUME Segments!Checked, NEW k \in DOMAIN req.flows,
                      NEW chain \in {"FORWARD", "INPUT"}, NEW i \in DOMAIN plan.rules,
                      Segments!Active(i), Segments!Stops(i, chain, req.flows[k])
               PROVE  \/ Segments!Accepts(plan.rules[i].node, chain, req.flows[k])
                      \/ Segments!Overwritten(plan.rules[i].node, chain, req.flows[k])
    BY DEF Segments!AllowRulesSuffice
  <2>1. PICK f : f = req.flows[k]
    OBVIOUS
  <2>2. PICK n : n = plan.rules[i].node
    OBVIOUS
  <2>3. n \in plan.enabled
    BY <2>2 DEF Segments!Active
  <2>4. /\ Segments!Blocked(f)
        /\ \/ chain = "FORWARD" /\ n \in Segments!Routers
           \/ chain = "INPUT" /\ n = f.dst
    BY <2>1, <2>2 DEF Segments!Stops, Segments!Blocked, Segments!NodesOf
  <2>5. LetThrough(f)
    BY <2>1, <2>4 DEF Segments!Checked, SegmentInv, SegmentFlows
  <2>6. PICK j \in DOMAIN plan.rules : Allows(j, n, chain, f)
    BY <2>4, <2>5 DEF LetThrough
  <2>7. plan.rules[j].type = "allow" /\ plan.rules[j].node = n
        /\ Segments!Matches(plan.rules[j], n, chain, f)
    BY <2>6 DEF Allows, Segments!Matches
  <2>8. CASE Segments!Standing(j)
    <3>1. Segments!Active(j)
      BY <2>3, <2>7, <2>8 DEF Segments!Active
    <3> QED BY <2>1, <2>2, <2>7, <3>1 DEF Segments!Accepts
  <2>9. CASE ~Segments!Standing(j)
    BY <2>1, <2>2, <2>7, <2>9 DEF Segments!Overwritten
  <2> QED BY <2>8, <2>9
<1> QED BY <1>1, <1>2, <1>3

\* For any request and any rules kept from earlier runs: each slot finds a node of its own
\* while there are clean routers, NAT is met if it can be, a router has NAT once and then no
\* firewall, and once the flows are done no script a node executes stops one without another
\* accepting it, unless the script that did was an earlier run's and has been written over
\* (plan_and_apply_segmentation, write_allow_rules_for_flows).
THEOREM SegmentsCorrect ==
  Segments!Spec => [](Segments!SlotsPlaced /\ Segments!NatApart /\ Segments!AllowRulesSuffice)
<1>1. Segments!Init => SegmentRequest /\ SegmentInv
  BY SegmentsBegin DEF Segments!Init, SegmentRequest
<1>2. SegmentRequest /\ SegmentInv /\ [Segments!Next]_Segments!vars => SegmentRequest' /\ SegmentInv'
  BY SegmentsStep, SegmentsWait DEF Segments!vars
<1> QED
  BY <1>1, <1>2, SegmentsPromise, PTL DEF Segments!Spec

===============================================================================
