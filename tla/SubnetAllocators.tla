--------------------------- MODULE SubnetAllocators ---------------------------
(***************************************************************************)
(* MultiPoolSubnetAllocator: hands out /24 subnets from several pools,     *)
(* which may overlap (a base prefix inside 10.0.0.0/8) and may be smaller  *)
(* than a /24.  Addresses are numbers; Slot addresses make a /24.          *)
(***************************************************************************)
EXTENDS Integers, Sequences

CONSTANTS Slot,     \* addresses of a /24: 256
          Networks, \* the networks it may be given as pools
          MaxPools  \* bound on their number, a network counted as often as it is given

Multiple(n, d) == \E k \in 0..n : n = k * d

\* An IPv4 network begins at a multiple of its length, and lengths divide each other.
ASSUME SlotAssumption == Slot \in Nat \ {0}
ASSUME NetworksAssumption ==
  \A p \in Networks :
    /\ p \in [start : Nat, len : Nat \ {0}]
    /\ Multiple(p.start, p.len)
    /\ Multiple(p.len, Slot) \/ (Multiple(Slot, p.len) /\ p.len < Slot)

VARIABLES pools,    \* self.pools: shuffled, then rotated
          next,     \* self._next_addrs: pools with one start share an entry
          taken,    \* self._allocated
          given,    \* history: the subnets handed out
          clash,    \* history: one shared an address with one handed out before
          answer,   \* history: how the last call ended
          since,    \* history: pools next_subnet has used since it last used each (all, if never)
          skipped   \* history: it came back to a pool too early

vars == <<pools, next, taken, given, clash, answer, since, skipped>>

Starts == {p.start : p \in Networks}
End(p) == p.start + p.len
Wide(p) == p.len >= Slot

Pools == {pools[i] : i \in DOMAIN pools}

Init ==
  /\ \E n \in 1..MaxPools : pools \in [1..n -> Networks]
  /\ next = [s \in Starts |-> s]
  /\ taken = {}
  /\ given = {}
  /\ clash = FALSE
  /\ answer = "none"
  /\ since = [p \in Networks |-> Networks]
  /\ skipped = FALSE

------------------------------------------------------------------------------
(* next_subnet.                                                              *)

Aligned(a) == ((a + Slot - 1) \div Slot) * Slot

Wrapped_OneTooFar(p, a) == IF Aligned(a) > End(p) THEN p.start ELSE Aligned(a)

\* Back to the start of the pool when the subnet does not fit before its end.
Wrapped(p, a) == IF Aligned(a) + Slot > End(p) THEN p.start ELSE Aligned(a)

MaxSlots_Min(p) == IF Wide(p) THEN 1 ELSE 0

MaxSlots(p) == IF Wide(p) THEN p.len \div Slot ELSE 1

\* The addresses the scan of one pool tries: max_slots + 1 of them.
Tried(p) ==
  LET f[k \in 0..MaxSlots(p)] == Wrapped(p, IF k = 0 THEN next[p.start] ELSE f[k - 1] + Slot)
  IN f

Misses(p) == \A k \in DOMAIN Tried(p) : Tried(p)[k] \in taken

\* The scan stops at a: what comes before it is taken.
StopsAt(p, a) ==
  \E k \in DOMAIN Tried(p) :
    /\ a = Tried(p)[k] /\ a \notin taken
    /\ \A j \in 0..k - 1 : Tried(p)[j] \in taken

Rotated_Forgotten(i) == SubSeq(pools, i + 1, Len(pools))

Rotated_OneLess(i) == SubSeq(pools, i, Len(pools)) \o SubSeq(pools, 1, i - 1)

\* The pools behind the i-th come first, then those before it, it last.
Rotated(i) == SubSeq(pools, i + 1, Len(pools)) \o SubSeq(pools, 1, i)

Apart(a, b) == a + Slot <= b \/ b + Slot <= a

Gives(a) ==
  /\ given' = given \cup {a}
  /\ clash' = (clash \/ \E b \in given : ~Apart(a, b))

Grant_NotMarked(a) ==
  /\ Gives(a)
  /\ answer' = "subnet"
  /\ taken' = taken

Grant(a) ==
  /\ Gives(a)
  /\ answer' = "subnet"
  /\ taken' = taken \cup {a}

Fails(how) ==
  /\ answer' = how
  /\ UNCHANGED <<pools, next, taken, given, clash, since, skipped>>

SlotsOf(p) == IF Wide(p) THEN {p.start + k * Slot : k \in 0..(p.len \div Slot - 1)} ELSE {}

\* The i-th pool is used again while another has a free subnet and was not used since.
\* (A network given twice has two turns.)
TooEarly(i) ==
  /\ \A j \in DOMAIN pools : pools[j] = pools[i] => j = i
  /\ \E q \in Pools \ (since[pools[i]] \cup {pools[i]}) : SlotsOf(q) \ taken # {}

Reached(i) == i \in 1..Len(pools) /\ \A j \in 1..i - 1 : Misses(pools[j])

\* IPv4Network takes a only at a multiple of its size.
NextSubnet ==
  \E i \in 1..Len(pools), p \in Pools :
    /\ Reached(i) /\ p = pools[i]
    /\ \E a \in {Tried(p)[k] : k \in DOMAIN Tried(p)} :
         /\ StopsAt(p, a) /\ Multiple(a, Slot)
         /\ Grant(a)
         /\ next' = [next EXCEPT ![p.start] = a + Slot]
         /\ pools' = Rotated(i)
         /\ since' = [q \in Networks |-> IF q = p THEN {} ELSE since[q] \cup {p}]
         /\ skipped' = (skipped \/ TooEarly(i))

\* IPv4Network raises on a pool smaller than a /24 that does not begin at one.
NextSubnetRaises ==
  \E i \in 1..Len(pools) :
    /\ Reached(i)
    /\ StopsAt(pools[i], pools[i].start) /\ ~Multiple(pools[i].start, Slot)
    /\ Fails("ValueError")

\* "No available /24 subnets left across pools".
NoneLeft ==
  /\ \A i \in 1..Len(pools) : Misses(pools[i])
  /\ Fails("RuntimeError")

------------------------------------------------------------------------------
(* next_random_subnet: many draws of a pool and a slot of it, or, when every *)
(* one is taken, next_subnet.                                                *)

NextRandomSubnet ==
  \E p \in Pools : \E a \in SlotsOf(p) \ taken :
    /\ Grant(a)
    /\ UNCHANGED <<pools, next, since, skipped>>

------------------------------------------------------------------------------
Next == NextSubnet \/ NextSubnetRaises \/ NoneLeft \/ NextRandomSubnet

Spec == Init /\ [][Next]_vars

------------------------------------------------------------------------------
(* Properties.                                                               *)

\* Types: the rotating pools, the next addresses, the subnets taken and handed out.
TypeOK ==
  /\ pools \in Seq(Networks) \ {<<>>}
  /\ next \in [Starts -> Nat]
  /\ taken \subseteq Nat
  /\ given \subseteq Nat
  /\ clash \in BOOLEAN
  /\ answer \in {"none", "subnet", "ValueError", "RuntimeError"}
  /\ since \in [Networks -> SUBSET Networks]
  /\ skipped \in BOOLEAN

\* "Allocate unique subnets across multiple pools": the subnets handed out never share
\* an address, however sequential and random calls mix and pools overlap.
Disjoint == ~clash

\* A subnet lies in one of the pools; only a pool smaller than a /24 is exceeded.
InPools ==
  \A a \in taken : \E p \in Pools :
    p.start <= a /\ (a + Slot <= End(p) \/ (~Wide(p) /\ a = p.start))

\* next_subnet only gives up when no pool has a free subnet: the scan of max_slots + 1
\* addresses misses none, wherever the pool's next address has got to.
NoneLeftIsTrue ==
  answer = "RuntimeError" => \A p \in Pools : SlotsOf(p) \subseteq taken

\* "rotate pools for fairness": next_subnet does not come back to a pool before it has
\* used every other pool that has a free subnet.
FairTurns == ~skipped
==============================================================================
