--------------------------- MODULE GenerationProofs ---------------------------
(* What a configuration checks of the generators, whichever it runs: the requests it makes
   are such as the theorems of PlanningProofs and TopologyProofs are about, and their
   invariants hold of the part whose turn it is. *)
EXTENDS MCGeneration, PlanningProofs, TopologyProofs, SequenceTheorems,
        WellFoundedInduction, TLAPS

-----------------------------------------------------------------------------
(* Requests *)

\* Pairs of items are sequences of them.
LEMMA PairsAreSequences ==
  ASSUME NEW S, NEW rows, rows \subseteq S
  PROVE  Pairs(rows) \subseteq Seq(S)
<1>1. <<>> \in Seq(S) /\ \A r \in rows : <<r>> \in Seq(S)
  OBVIOUS
<1>2. ASSUME NEW x \in rows \X rows PROVE x \in Seq(S)
  <2>1. PICK a \in rows, b \in rows : x = <<a, b>>
    BY <1>2
  <2> QED BY <2>1
<1> QED
  BY <1>1, <1>2 DEF Pairs

\* The requests of the configuration are such as the theorems are about.
LEMMA FlowRequestsAreRequests == req \in FlowRequests => FlowsRequest
<1> SUFFICES ASSUME req \in FlowRequests PROVE FlowsRequest
  OBVIOUS
<1> DEFINE S == [kind : Flows!Kinds, abs : Nat, factor : Nat]
<1>1. FlowItems \subseteq S
  BY DEF FlowItems, FlowItem, Flows!Kinds
<1>2. Pairs(FlowItems) \subseteq Seq(S)
  BY <1>1, PairsAreSequences
<1>3. req \in [hosts : 0..3, density : {0, 2, 3, 4}, items : Pairs(FlowItems)]
  BY DEF FlowRequests
<1>4. PICK h \in 0..3, d \in {0, 2, 3, 4}, items \in Pairs(FlowItems) :
        req = [hosts |-> h, density |-> d, items |-> items]
  BY <1>3
<1>5. items \in Seq(S)
  BY <1>2
<1> QED
  BY <1>4, <1>5 DEF FlowsRequest, Flows!Requests

SegmentRow == [name : Segments!Kinds \cup {"Random"}, abs : Nat, factor : Nat]
SegmentOld == [rule : SegmentRule, n : Nat \ {0}]
SegmentTraffic == [src : Nat, dst : Nat, port : Nat]

\* A topology to segment has finitely many hosts, and they are no routers.
SegmentSites ==
  {s \in [routers : Nat, net : UNION {[S -> Nat] : S \in SUBSET Nat},
          primary : Seq(Nat), gate : Seq(Nat)] :
     /\ IsFiniteSet(DOMAIN s.net) /\ DOMAIN s.net \cap 1..s.routers = {}
     /\ Len(s.primary) = s.routers}

LEMMA FunctionIsSequence ==
  \A S : \A m \in Nat : \A f \in [1..m -> S] : f \in Seq(S) /\ Len(f) = m
OBVIOUS

LEMMA SectionIsRequest ==
  ASSUME NEW s \in SegmentSites, NEW items \in Seq(SegmentRow), NEW d \in Nat,
         NEW p \in Seq(SegmentOld), NEW h \in BOOLEAN, NEW n \in BOOLEAN,
         NEW f \in Seq(SegmentTraffic),
         \A j \in DOMAIN f : {f[j].src, f[j].dst} \subseteq DOMAIN s.net,
         req = Section(s, items, d, p, h, n, f)
  PROVE  SegmentRequest
<1>1. /\ s.routers \in Nat /\ s.net \in UNION {[S -> Nat] : S \in SUBSET Nat}
      /\ s.primary \in Seq(Nat) /\ s.gate \in Seq(Nat)
      /\ Segments!IsFiniteSet(DOMAIN s.net) /\ DOMAIN s.net \cap 1..s.routers = {}
      /\ Len(s.primary) = s.routers
  BY SegmentCardinality DEF SegmentSites
<1>2. PICK prior, numbers :
        /\ prior = [j \in DOMAIN p |-> p[j].rule] /\ numbers = [j \in DOMAIN p |-> p[j].n]
  OBVIOUS
<1>3. prior \in Seq(SegmentRule) /\ numbers \in Seq(Nat \ {0}) /\ Len(numbers) = Len(prior)
  <2>1. \A x \in SegmentOld : x.rule \in SegmentRule /\ x.n \in Nat \ {0}
    BY DEF SegmentOld
  <2>2. Len(p) \in Nat /\ DOMAIN p = 1..Len(p) /\ \A j \in 1..Len(p) : p[j] \in SegmentOld
    OBVIOUS
  <2>3. prior \in [1..Len(p) -> SegmentRule] /\ numbers \in [1..Len(p) -> Nat \ {0}]
    BY <1>2, <2>1, <2>2
  <2> QED BY <2>2, <2>3, FunctionIsSequence
<1>4. req = [routers |-> s.routers, net |-> s.net, primary |-> s.primary, gate |-> s.gate,
             items |-> items, density |-> d, prior |-> prior, numbers |-> numbers,
             hosts |-> h, dnat |-> n, flows |-> f]
  BY <1>2 DEF Section
<1>5. /\ req \in [routers : Nat, net : UNION {[S -> Nat] : S \in SUBSET Nat},
                  primary : Seq(Nat), gate : Seq(Nat), items : Seq(SegmentRow), density : Nat,
                  prior : Seq(SegmentRule), numbers : Seq(Nat \ {0}), hosts : BOOLEAN,
                  dnat : BOOLEAN, flows : Seq(SegmentTraffic)]
      /\ req.net = s.net /\ req.routers = s.routers /\ req.primary = s.primary /\ req.flows = f
      /\ req.prior = prior /\ req.numbers = numbers
  BY <1>1, <1>3, <1>4
<1>6. /\ Segments!IsFiniteSet(DOMAIN req.net) /\ DOMAIN req.net \cap 1..req.routers = {}
      /\ Len(req.primary) = req.routers /\ Len(req.numbers) = Len(req.prior)
      /\ \A j \in DOMAIN req.flows : {req.flows[j].src, req.flows[j].dst} \subseteq DOMAIN req.net
  BY <1>1, <1>3, <1>5
<1> QED
  BY <1>5, <1>6, Zenon
  DEF SegmentRequest, Segments!Requests, SegmentRow, SegmentRule, SegmentTraffic

LEMMA NumbersOfTwo ==
  ASSUME NEW a \in Nat, NEW m \in Nat, NEW b \in Nat, NEW n \in Nat,
         NEW net, net = OfTwo(a, m, b, n)
  PROVE  /\ net \in UNION {[S -> Nat] : S \in SUBSET Nat} /\ DOMAIN net = {a, b}
         /\ IsFiniteSet(DOMAIN net)
<1>1. IsFiniteSet({a} \cup {b})
  BY FS_EmptySet, FS_Singleton, FS_AddElement
<1>2. {a} \cup {b} = {a, b}
  OBVIOUS
<1>3. net \in [{a, b} -> Nat] /\ {a, b} \in SUBSET Nat
  BY DEF OfTwo
<1>4. net \in UNION {[S -> Nat] : S \in SUBSET Nat} /\ DOMAIN net = {a, b}
  BY <1>3
<1> QED BY <1>1, <1>2, <1>4

LEMMA SitesOfConfiguration ==
  /\ {OneRouter, OneLan, FlatSite, TwoRouters, NoRouters, NoHosts} \subseteq SegmentSites
  /\ DOMAIN OneRouter.net = {2, 3} /\ DOMAIN OneLan.net = {2, 3}
  /\ DOMAIN TwoRouters.net = {3, 4}
<1>1. PICK none, zero, one, zeros, ones, first, both :
        /\ none = <<>> /\ zero = <<0>> /\ one = <<1>> /\ zeros = <<0, 0>>
        /\ ones = <<1, 1>> /\ first = <<1, 0>> /\ both = <<1, 2>>
  OBVIOUS
<1>2. /\ none \in Seq(Nat) /\ zero \in Seq(Nat) /\ one \in Seq(Nat) /\ zeros \in Seq(Nat)
      /\ ones \in Seq(Nat) /\ first \in Seq(Nat) /\ both \in Seq(Nat)
      /\ Len(none) = 0 /\ Len(zero) = 1 /\ Len(one) = 1 /\ Len(first) = 2 /\ Len(both) = 2
  BY <1>1
<1>3. PICK apart, same, near, far, alone :
        /\ apart = OfTwo(2, 1, 3, 2) /\ same = OfTwo(2, 1, 3, 1)
        /\ near = OfTwo(3, 1, 4, 1) /\ far = OfTwo(3, 1, 4, 2) /\ alone = OfTwo(1, 1, 2, 2)
  OBVIOUS
<1> DEFINE Numbers(net, S) ==
             /\ net \in UNION {[T -> Nat] : T \in SUBSET Nat} /\ DOMAIN net = S
             /\ IsFiniteSet(DOMAIN net)
<1>4. /\ Numbers(apart, {2, 3}) /\ Numbers(same, {2, 3}) /\ Numbers(near, {3, 4})
      /\ Numbers(far, {3, 4}) /\ Numbers(alone, {1, 2})
  <2>1. \A a, m, b, n \in Nat : Numbers(OfTwo(a, m, b, n), {a, b})
    BY NumbersOfTwo
  <2> HIDE DEF Numbers
  <2>2. /\ Numbers(OfTwo(2, 1, 3, 2), {2, 3}) /\ Numbers(OfTwo(2, 1, 3, 1), {2, 3})
        /\ Numbers(OfTwo(3, 1, 4, 1), {3, 4}) /\ Numbers(OfTwo(3, 1, 4, 2), {3, 4})
        /\ Numbers(OfTwo(1, 1, 2, 2), {1, 2})
    BY <2>1
  <2> QED BY <1>3, <2>2
<1>5. Numbers(none, {})
  <2>1. \A t \in Seq(Nat) : t \in [1..Len(t) -> Nat]
    OBVIOUS
  <2>2. 1..0 = {} /\ IsFiniteSet({})
    BY FS_EmptySet
  <2>3. none \in [{} -> Nat]
    BY <1>2, <2>1, <2>2
  <2> QED BY <2>2, <2>3
<1>6. /\ {2, 3} \cap 1..1 = {} /\ {3, 4} \cap 1..2 = {} /\ {1, 2} \cap 1..0 = {}
      /\ {} \cap 1..1 = {}
  OBVIOUS
<1>7. /\ OneRouter = Site(1, apart, one, ones) /\ OneLan = Site(1, same, zero, one)
      /\ FlatSite = Site(2, near, first, one) /\ TwoRouters = Site(2, far, both, both)
      /\ NoRouters = Site(0, alone, none, zeros) /\ NoHosts = Site(1, none, zero, none)
  BY <1>1, <1>3 DEF OneRouter, OneLan, FlatSite, TwoRouters, NoRouters, NoHosts
<1>8. OneRouter \in SegmentSites /\ DOMAIN OneRouter.net = {2, 3}
  BY <1>2, <1>4, <1>6, <1>7 DEF SegmentSites, Site
<1>9. OneLan \in SegmentSites /\ DOMAIN OneLan.net = {2, 3}
  BY <1>2, <1>4, <1>6, <1>7 DEF SegmentSites, Site
<1>10. FlatSite \in SegmentSites
  BY <1>2, <1>4, <1>6, <1>7 DEF SegmentSites, Site
<1>11. TwoRouters \in SegmentSites /\ DOMAIN TwoRouters.net = {3, 4}
  BY <1>2, <1>4, <1>6, <1>7 DEF SegmentSites, Site
<1>12. NoRouters \in SegmentSites
  BY <1>2, <1>4, <1>6, <1>7 DEF SegmentSites, Site
<1>13. NoHosts \in SegmentSites
  BY <1>2, <1>5, <1>6, <1>7 DEF SegmentSites, Site
<1> QED
  BY <1>8, <1>9, <1>10, <1>11, <1>12, <1>13

\* What earlier runs may have left: rules of any type and the numbers of their scripts.
LEMMA OldRunsAreKept == OldRules \cup OldRuns \subseteq Seq(SegmentOld)
<1>1. /\ {3, -1} \in SUBSET Int /\ {4, -2} \in SUBSET Int /\ {4} \in SUBSET Int
      /\ 0 \in Nat /\ 1 \in Nat \ {0} /\ 2 \in Nat \ {0}
  OBVIOUS
<1>2. ASSUME NEW node \in Nat, NEW type \in {"nat", "subnet_block", "none", "protect_internal"}
      PROVE  OldRule(node, type) \in SegmentRule
  BY <1>1 DEF OldRule, SegmentRule, Segments!Drops
<1>3. ASSUME NEW node \in Nat, NEW chain \in {"FORWARD", "INPUT", "OUTPUT"}, NEW port \in Nat
      PROVE  OldAllow(node, chain, port) \in SegmentRule
  BY <1>1 DEF OldAllow, SegmentRule
<1>4. [OldRule(4, "protect_internal") EXCEPT !.chain = "INPUT"] \in SegmentRule
  BY <1>1 DEF OldRule, SegmentRule, Segments!Drops
<1>5. [OldAllow(1, "FORWARD", 1) EXCEPT !.type = "dnat"] \in SegmentRule
  BY <1>1 DEF OldAllow, SegmentRule
<1>6. ASSUME NEW rule \in SegmentRule, NEW n \in Nat \ {0} PROVE Old(rule, n) \in SegmentOld
  BY DEF Old, SegmentOld
<1>7. /\ <<>> \in Seq(SegmentOld)
      /\ \A x \in SegmentOld : <<x>> \in Seq(SegmentOld)
      /\ \A x, y \in SegmentOld : <<x, y>> \in Seq(SegmentOld)
      /\ \A x, y, z, t \in SegmentOld : <<x, y, z, t>> \in Seq(SegmentOld)
      /\ \A s, t \in Seq(SegmentOld) : s \o t \in Seq(SegmentOld)
  OBVIOUS
<1>8. ASSUME NEW port \in Nat, NEW n \in Nat \ {0} PROVE OldAllows(port, n) \in Seq(SegmentOld)
  BY <1>3, <1>6, <1>7 DEF OldAllows
<1>9. OldDrop \in Seq(SegmentOld) /\ OldGuard \in Seq(SegmentOld) /\ OldForward \in Seq(SegmentOld)
  BY <1>2, <1>4, <1>5, <1>6, <1>7 DEF OldDrop, OldGuard, OldForward
<1>10. OldRules \subseteq Seq(SegmentOld)
  BY <1>2, <1>6, <1>7 DEF OldRules
<1>11. OldRuns \subseteq Seq(SegmentOld)
  BY <1>7, <1>8, <1>9 DEF OldRuns
<1> QED BY <1>10, <1>11

LEMMA SegmentRequestsAreRequests == req \in SegmentRequests => SegmentRequest
<1> SUFFICES ASSUME req \in SegmentRequests PROVE SegmentRequest
  OBVIOUS
<1>1. SegmentItems \subseteq SegmentRow
  BY DEF SegmentItems, SegmentItem, SegmentRow, Segments!Kinds
<1>2. /\ Pairs(SegmentItems) \subseteq Seq(SegmentRow)
      /\ \A i \in SegmentItems : <<i>> \in Seq(SegmentRow)
  BY <1>1, PairsAreSequences
<1>3. OldRules \subseteq Seq(SegmentOld) /\ OldRuns \subseteq Seq(SegmentOld)
  BY OldRunsAreKept
<1>4. ASSUME NEW a \in Nat, NEW b \in Nat, NEW n \in Nat
      PROVE  /\ SegmentFlow(a, b, n) \in SegmentTraffic
             /\ SegmentFlow(a, b, n).src = a /\ SegmentFlow(a, b, n).dst = b
  BY DEF SegmentTraffic, SegmentFlow
<1>5. ASSUME NEW x \in SegmentTraffic, NEW y \in SegmentTraffic, NEW H,
             {x.src, x.dst} \subseteq H, {y.src, y.dst} \subseteq H
      PROVE  /\ <<x, y>> \in Seq(SegmentTraffic) /\ <<x>> \in Seq(SegmentTraffic)
             /\ \A j \in DOMAIN <<x, y>> : {<<x, y>>[j].src, <<x, y>>[j].dst} \subseteq H
             /\ \A j \in DOMAIN <<x>> : {<<x>>[j].src, <<x>>[j].dst} \subseteq H
  <2>1. /\ \A j \in DOMAIN <<x, y>> : <<x, y>>[j] = x \/ <<x, y>>[j] = y
        /\ \A j \in DOMAIN <<x>> : <<x>>[j] = x
    OBVIOUS
  <2>2. <<x, y>> \in Seq(SegmentTraffic) /\ <<x>> \in Seq(SegmentTraffic)
    OBVIOUS
  <2> QED BY <1>5, <2>1, <2>2, Zenon
<1>6. \A f \in {TwicePorts, ThereAndBack} :
        f \in Seq(SegmentTraffic) /\ \A j \in DOMAIN f : {f[j].src, f[j].dst} \subseteq {2, 3}
  <2>1. TwicePorts \in Seq(SegmentTraffic)
        /\ \A j \in DOMAIN TwicePorts : {TwicePorts[j].src, TwicePorts[j].dst} \subseteq {2, 3}
    <3>1. PICK x, y : x = SegmentFlow(2, 3, 1) /\ y = SegmentFlow(2, 3, 2)
      OBVIOUS
    <3>2. /\ x \in SegmentTraffic /\ y \in SegmentTraffic
          /\ {x.src, x.dst} \subseteq {2, 3} /\ {y.src, y.dst} \subseteq {2, 3}
      BY <1>4, <3>1
    <3> QED BY <1>5, <3>1, <3>2 DEF TwicePorts
  <2>2. ThereAndBack \in Seq(SegmentTraffic)
        /\ \A j \in DOMAIN ThereAndBack : {ThereAndBack[j].src, ThereAndBack[j].dst} \subseteq {2, 3}
    <3>1. PICK x, y : x = SegmentFlow(2, 3, 1) /\ y = SegmentFlow(3, 2, 1)
      OBVIOUS
    <3>2. /\ x \in SegmentTraffic /\ y \in SegmentTraffic
          /\ {x.src, x.dst} \subseteq {2, 3} /\ {y.src, y.dst} \subseteq {2, 3}
      BY <1>4, <3>1
    <3> QED BY <1>5, <3>1, <3>2 DEF ThereAndBack
  <2> QED BY <2>1, <2>2
<1>7. PICK f4 : /\ f4 = <<SegmentFlow(3, 4, 1)>> /\ f4 \in Seq(SegmentTraffic)
                /\ \A j \in DOMAIN f4 : {f4[j].src, f4[j].dst} \subseteq {3, 4}
  <2>1. PICK x : x = SegmentFlow(3, 4, 1)
    OBVIOUS
  <2>2. x \in SegmentTraffic /\ {x.src, x.dst} \subseteq {3, 4}
    BY <1>4, <2>1
  <2>3. /\ <<x>> \in Seq(SegmentTraffic)
        /\ \A j \in DOMAIN <<x>> : {<<x>>[j].src, <<x>>[j].dst} \subseteq {3, 4}
    BY <1>5, <2>2
  <2> QED BY <2>1, <2>3
<1> DEFINE Within(f) ==
             f \in Seq(SegmentTraffic) /\ \A j \in DOMAIN f : {f[j].src, f[j].dst} \subseteq {3, 4}
<1>8. PICK f2, f1 :
        /\ f2 = <<SegmentFlow(3, 4, 1), SegmentFlow(3, 4, 2)>> /\ f1 = <<SegmentFlow(4, 3, 1)>>
        /\ \A f \in {f2, f1} : Within(f)
  <2>1. PICK x, y, z :
          x = SegmentFlow(3, 4, 1) /\ y = SegmentFlow(3, 4, 2) /\ z = SegmentFlow(4, 3, 1)
    OBVIOUS
  <2>2. /\ x \in SegmentTraffic /\ y \in SegmentTraffic /\ z \in SegmentTraffic
        /\ {x.src, x.dst} \subseteq {3, 4} /\ {y.src, y.dst} \subseteq {3, 4}
        /\ {z.src, z.dst} \subseteq {3, 4}
    BY <1>4, <2>1
  <2>3. Within(<<x, y>>) /\ Within(<<z>>)
    BY <1>5, <2>2
  <2> HIDE DEF Within
  <2> QED BY <2>1, <2>3
<1>9. <<>> \in Seq(SegmentOld) /\ <<>> \in Seq(SegmentTraffic) /\ DOMAIN <<>> = {}
      /\ <<>> \in Seq(SegmentRow)
  OBVIOUS
<1>10. ASSUME NEW s \in {FlatSite, NoRouters, NoHosts}, NEW i \in Pairs(SegmentItems),
              req = Section(s, i, 2, <<>>, FALSE, FALSE, <<>>)
       PROVE  SegmentRequest
  <2>1. s \in SegmentSites /\ i \in Seq(SegmentRow) /\ 2 \in Nat
    BY <1>2, SitesOfConfiguration
  <2> QED BY <1>9, <1>10, <2>1, SectionIsRequest
<1>11. ASSUME NEW i \in SegmentItems, NEW d \in {2, 8},
              req = Section(OneLan, <<i>>, d, <<>>, TRUE, FALSE, <<>>)
       PROVE  SegmentRequest
  <2>1. OneLan \in SegmentSites /\ <<i>> \in Seq(SegmentRow) /\ d \in Nat
    BY <1>2, SitesOfConfiguration
  <2> QED BY <1>9, <1>11, <2>1, SectionIsRequest
<1>12. ASSUME NEW s \in {OneRouter, OneLan}, NEW i \in SegmentItems, NEW h \in BOOLEAN,
              NEW f \in {TwicePorts, ThereAndBack}, req = Section(s, <<i>>, 1, <<>>, h, h, f)
       PROVE  SegmentRequest
  <2>1. s \in SegmentSites /\ DOMAIN s.net = {2, 3} /\ <<i>> \in Seq(SegmentRow) /\ 1 \in Nat
    BY <1>2, SitesOfConfiguration
  <2>2. f \in Seq(SegmentTraffic) /\ \A j \in DOMAIN f : {f[j].src, f[j].dst} \subseteq DOMAIN s.net
    BY <1>6, <2>1
  <2> QED BY <1>9, <1>12, <2>1, <2>2, SectionIsRequest
<1>13. ASSUME NEW i \in SegmentItems, NEW d \in {0, 1}, NEW p \in OldRules,
              req = Section(TwoRouters, <<i>>, d, p, FALSE, FALSE, f4)
       PROVE  SegmentRequest
  <2>1. TwoRouters \in SegmentSites /\ DOMAIN TwoRouters.net = {3, 4}
        /\ <<i>> \in Seq(SegmentRow) /\ d \in Nat /\ p \in Seq(SegmentOld)
    BY <1>2, <1>3, SitesOfConfiguration
  <2>2. \A j \in DOMAIN f4 : {f4[j].src, f4[j].dst} \subseteq DOMAIN TwoRouters.net
    BY <1>7, <2>1
  <2> QED BY <1>7, <1>13, <2>1, <2>2, SectionIsRequest
<1>14. ASSUME NEW d \in 0..1, NEW p \in OldRuns, NEW f \in {f2, f1},
              req = Section(TwoRouters, <<>>, d, p, TRUE, TRUE, f)
       PROVE  SegmentRequest
  <2>1. TwoRouters \in SegmentSites /\ DOMAIN TwoRouters.net = {3, 4}
        /\ d \in Nat /\ p \in Seq(SegmentOld)
    BY <1>3, SitesOfConfiguration
  <2>2. f \in Seq(SegmentTraffic)
        /\ \A j \in DOMAIN f : {f[j].src, f[j].dst} \subseteq DOMAIN TwoRouters.net
    BY <1>8, <2>1
  <2> QED BY <1>9, <1>14, <2>1, <2>2, SectionIsRequest
<1> DEFINE Bare(s, i) == Section(s, i, 2, <<>>, FALSE, FALSE, <<>>)
           Lan(i, d) == Section(OneLan, <<i>>, d, <<>>, TRUE, FALSE, <<>>)
           Sent(s, i, h, f) == Section(s, <<i>>, 1, <<>>, h, h, f)
           Later(i, d, p) ==
             Section(TwoRouters, <<i>>, d, p, FALSE, FALSE, <<SegmentFlow(3, 4, 1)>>)
           Again(d, p, f) == Section(TwoRouters, <<>>, d, p, TRUE, TRUE, f)
<1>15. \A s \in {FlatSite, NoRouters, NoHosts}, i \in Pairs(SegmentItems) :
         req = Bare(s, i) => SegmentRequest
  BY <1>10
<1>16. \A i \in SegmentItems, d \in {2, 8} : req = Lan(i, d) => SegmentRequest
  BY <1>11
<1>17. \A s \in {OneRouter, OneLan}, i \in SegmentItems, h \in BOOLEAN,
          f \in {TwicePorts, ThereAndBack} : req = Sent(s, i, h, f) => SegmentRequest
  BY <1>12
<1>18. \A i \in SegmentItems, d \in {0, 1}, p \in OldRules : req = Later(i, d, p) => SegmentRequest
  BY <1>7, <1>13
<1>19. \A d \in 0..1, p \in OldRuns, f \in {f2, f1} : req = Again(d, p, f) => SegmentRequest
  BY <1>14
<1>20. \/ req \in {Bare(s, i) : s \in {FlatSite, NoRouters, NoHosts}, i \in Pairs(SegmentItems)}
       \/ req \in {Lan(i, d) : i \in SegmentItems, d \in {2, 8}}
       \/ req \in {Sent(s, i, h, f) : s \in {OneRouter, OneLan}, i \in SegmentItems,
                                      h \in BOOLEAN, f \in {TwicePorts, ThereAndBack}}
       \/ req \in {Later(i, d, p) : i \in SegmentItems, d \in {0, 1}, p \in OldRules}
       \/ req \in {Again(d, p, f) : d \in 0..1, p \in OldRuns, f \in {f2, f1}}
  <2>1. SegmentRequests =
          {Bare(s, i) : s \in {FlatSite, NoRouters, NoHosts}, i \in Pairs(SegmentItems)}
          \cup {Lan(i, d) : i \in SegmentItems, d \in {2, 8}}
          \cup {Sent(s, i, h, f) : s \in {OneRouter, OneLan}, i \in SegmentItems,
                                   h \in BOOLEAN, f \in {TwicePorts, ThereAndBack}}
          \cup {Later(i, d, p) : i \in SegmentItems, d \in {0, 1}, p \in OldRules}
          \cup {Again(d, p, f) : d \in 0..1, p \in OldRuns, f \in {f2, f1}}
    BY <1>8 DEF SegmentRequests
  <2> HIDE DEF Bare, Lan, Sent, Later, Again
  <2> QED BY <2>1
<1> HIDE DEF Bare, Lan, Sent, Later, Again
<1> QED
  BY <1>15, <1>16, <1>17, <1>18, <1>19, <1>20

LEMMA ScriptRequestsAreRequests == req \in ScriptRequests => ScriptRequest
<1> SUFFICES ASSUME req \in ScriptRequests PROVE ScriptRequest
  OBVIOUS
<1> DEFINE S == [kind : Scripts!Kinds, seed : Nat \ {0}, names : SUBSET Nat]
<1>1. ASSUME NEW kind \in Scripts!Kinds, NEW seed \in 1..3, NEW names \in SUBSET {1, 2, 3}
      PROVE  User(kind, seed, names) \in S
  BY DEF User
<1>2. "run" \in Scripts!Kinds /\ "preview" \in Scripts!Kinds
  BY DEF Scripts!Kinds
<1>3. PICK k \in 0..1, kind \in Scripts!Kinds, seed \in 1..2 :
        \E u \in {<<User(kind, 1, {1, 2}), User("run", 1, {2, 3})>>,
                  <<User("preview", 1, {1, 2}), User("preview", seed, {2})>>,
                  <<User(kind, 1, {1}), User("preview", seed, {2}), User("preview", 3, {1})>>} :
          req = [users |-> u, keep |-> k]
  BY DEF ScriptRequests
<1>4. PICK u \in Seq(S) : req = [users |-> u, keep |-> k]
  <2>1. /\ User(kind, 1, {1, 2}) \in S /\ User("run", 1, {2, 3}) \in S
        /\ User("preview", 1, {1, 2}) \in S /\ User("preview", seed, {2}) \in S
        /\ User(kind, 1, {1}) \in S /\ User("preview", 3, {1}) \in S
    BY <1>1, <1>2
  <2>2. PICK u : /\ req = [users |-> u, keep |-> k]
                 /\ \/ u = <<User(kind, 1, {1, 2}), User("run", 1, {2, 3})>>
                    \/ u = <<User("preview", 1, {1, 2}), User("preview", seed, {2})>>
                    \/ u = <<User(kind, 1, {1}), User("preview", seed, {2}), User("preview", 3, {1})>>
    BY <1>3
  <2>3. \A a, b \in S : <<a, b>> \in Seq(S)
    <3> HIDE DEF S
    <3> QED OBVIOUS
  <2>4. \A a, b, c \in S : <<a, b, c>> \in Seq(S)
    <3> HIDE DEF S
    <3> QED OBVIOUS
  <2>5. u \in Seq(S)
    <3> HIDE DEF S
    <3> QED BY <2>1, <2>2, <2>3, <2>4
  <2> QED BY <2>2, <2>5
<1> QED
  BY <1>4 DEF ScriptRequest, Scripts!Requests

LEMMA StarRequestsAreRequests == req \in StarRequests => StarRequest
<1>1. [i \in 1..21 |-> "host"] \in Seq({"host", "device"})
  OBVIOUS
<1>2. <<>> \in Seq({"host", "device"}) /\ <<"host", "device", "host">> \in Seq({"host", "device"})
  OBVIOUS
<1>3. SUBSET {1, 2, 3} \subseteq SUBSET (Nat \ {0}) /\ 0..3 \subseteq Nat
  OBVIOUS
<1>4. {0, 2} \subseteq Nat
  OBVIOUS
<1> QED
  BY <1>1, <1>2, <1>3, <1>4 DEF StarRequests, StarRequest

\* The configuration's requests have nodes that are numbered, with so many links each.
LEMMA HitlRequestsAreRequests == req \in HitlRequests => HitlRequest
<1> SUFFICES ASSUME req \in HitlRequests PROVE HitlRequest
  OBVIOUS
<1> DEFINE kinds == DOMAIN Hitl!AttemptOrder
           P == Nat \ {0}
           some == {<<<<1, 2>>, <<>>, <<4>>>>, <<<<1>>, <<3>>, <<4>>>>, <<<<>>, <<3>>, <<4>>>>,
                    <<<<>>, <<>>, <<4>>>>, <<<<>>, <<>>, <<>>>>}
<1>1. PICK r, w, h, attach, losses, lists :
        /\ <<r, w, h>> \in some \cup {<<<<1>>, <<>>, <<>>>>}
        /\ attach \in Seq(kinds) /\ losses \in Nat /\ lists \in BOOLEAN
        /\ req = [routers |-> r, switches |-> w, hosts |-> h, attach |-> attach,
                  losses |-> losses, lists |-> lists, spent |-> <<2, 1, 3, 1>>]
  <2> HIDE DEF kinds
  <2>1. ASSUME NEW s \in some, NEW attach \in {<<k>> : k \in kinds} \cup (kinds \X kinds),
               NEW losses \in {0, 2}, NEW lists \in BOOLEAN,
               req = [routers |-> s[1], switches |-> s[2], hosts |-> s[3], attach |-> attach,
                      losses |-> losses, lists |-> lists, spent |-> <<2, 1, 3, 1>>]
        PROVE  /\ <<s[1], s[2], s[3]>> \in some /\ attach \in Seq(kinds) /\ losses \in Nat
    <3>1. attach \in Seq(kinds)
      <4>1. CASE attach \in {<<k>> : k \in kinds}
        <5>1. PICK a \in kinds : attach = <<a>>
          BY <4>1
        <5> QED BY <5>1
      <4>2. CASE attach \in kinds \X kinds
        <5>1. PICK a \in kinds, b \in kinds : attach = <<a, b>>
          BY <4>2
        <5> QED BY <5>1
      <4> QED BY <2>1, <4>1, <4>2
    <3>2. <<s[1], s[2], s[3]>> \in some
      OBVIOUS
    <3> QED BY <2>1, <3>1, <3>2
  <2>2. ASSUME NEW k \in kinds, NEW l \in kinds, NEW m \in kinds
        PROVE  <<k, l, m>> \in Seq(kinds)
    OBVIOUS
  <2>3. \/ \E s \in some, attach \in {<<k>> : k \in kinds} \cup (kinds \X kinds),
              losses \in {0, 2}, lists \in BOOLEAN :
             req = [routers |-> s[1], switches |-> s[2], hosts |-> s[3], attach |-> attach,
                    losses |-> losses, lists |-> lists, spent |-> <<2, 1, 3, 1>>]
        \/ \E k, l, m \in kinds :
             req = [routers |-> <<1>>, switches |-> <<>>, hosts |-> <<>>,
                    attach |-> <<k, l, m>>, losses |-> 1, lists |-> FALSE,
                    spent |-> <<2, 1, 3, 1>>]
    BY DEF HitlRequests, kinds
  <2> HIDE DEF some
  <2>4. CASE \E s \in some, attach \in {<<k>> : k \in kinds} \cup (kinds \X kinds),
               losses \in {0, 2}, lists \in BOOLEAN :
              req = [routers |-> s[1], switches |-> s[2], hosts |-> s[3], attach |-> attach,
                     losses |-> losses, lists |-> lists, spent |-> <<2, 1, 3, 1>>]
    <3>1. PICK s \in some, attach \in {<<k>> : k \in kinds} \cup (kinds \X kinds),
               losses \in {0, 2}, lists \in BOOLEAN :
                 req = [routers |-> s[1], switches |-> s[2], hosts |-> s[3], attach |-> attach,
                        losses |-> losses, lists |-> lists, spent |-> <<2, 1, 3, 1>>]
      BY <2>4
    <3>2. <<s[1], s[2], s[3]>> \in some /\ attach \in Seq(kinds) /\ losses \in Nat
      BY <2>1, <3>1
    <3> QED BY <3>1, <3>2
  <2>5. CASE \E k, l, m \in kinds :
              req = [routers |-> <<1>>, switches |-> <<>>, hosts |-> <<>>,
                     attach |-> <<k, l, m>>, losses |-> 1, lists |-> FALSE,
                     spent |-> <<2, 1, 3, 1>>]
    <3>1. PICK k \in kinds, l \in kinds, m \in kinds :
                 req = [routers |-> <<1>>, switches |-> <<>>, hosts |-> <<>>,
                        attach |-> <<k, l, m>>, losses |-> 1, lists |-> FALSE,
                        spent |-> <<2, 1, 3, 1>>]
      BY <2>5
    <3>2. <<k, l, m>> \in Seq(kinds) /\ <<<<1>>, <<>>, <<>>>> \in some \cup {<<<<1>>, <<>>, <<>>>>}
      BY <2>2
    <3> QED BY <3>1, <3>2
  <2> QED BY <2>3, <2>4, <2>5
<1>2. /\ r \in Seq(P) /\ w \in Seq(P) /\ h \in Seq(P)
      /\ \A i \in DOMAIN (r \o w \o h) : (r \o w \o h)[i] \in 1..4
  <2>1. \/ r = <<1, 2>> /\ w = <<>> /\ h = <<4>>
        \/ r = <<1>> /\ w = <<3>> /\ h = <<4>>
        \/ r = <<>> /\ w = <<3>> /\ h = <<4>>
        \/ r = <<>> /\ w = <<>> /\ h = <<4>>
        \/ r = <<>> /\ w = <<>> /\ h = <<>>
        \/ r = <<1>> /\ w = <<>> /\ h = <<>>
    BY <1>1
  <2> DEFINE Q == 1..4
  <2>2. r \in Seq(Q) /\ w \in Seq(Q) /\ h \in Seq(Q)
    <3>1. /\ <<1, 2>> \in Seq(Q) /\ <<1>> \in Seq(Q) /\ <<>> \in Seq(Q)
          /\ <<3>> \in Seq(Q) /\ <<4>> \in Seq(Q)
      OBVIOUS
    <3> HIDE DEF Q
    <3> QED BY <2>1, <3>1
  <2>3. Q \subseteq P
    OBVIOUS
  <2> HIDE DEF P, Q
  <2>4. r \in Seq(P) /\ w \in Seq(P) /\ h \in Seq(P)
    BY <2>2, <2>3, SequenceGrows
  <2>5. \A s, t \in Seq(Q) : s \o t \in Seq(Q)
    BY ConcatenationOf
  <2> DEFINE all == r \o w \o h
  <2>6. all \in Seq(Q)
    BY <2>2, <2>5
  <2>7. \A i \in DOMAIN all : all[i] \in Q
    <3> HIDE DEF all
    <3> QED BY <2>6
  <2> QED BY <2>4, <2>7 DEF Q
<1>3. Hitl!Given \subseteq 1..4
  BY <1>1, <1>2 DEF Hitl!Given, Hitl!Range
<1>4. DOMAIN req.spent = 1..4 /\ <<2, 1, 3, 1>> \in Seq(Nat)
  BY <1>1
<1> QED
  BY <1>1, <1>2, <1>3, <1>4 DEF HitlRequest

LEMMA PreviewRequestsAreRequests == req \in PreviewRequests => PreviewRequest
<1> SUFFICES ASSUME req \in PreviewRequests PROVE PreviewRequest
  OBVIOUS
<1> DEFINE S == [switch : Nat, router : Nat, hosts : Seq(Nat)]
           lists == {<<>>, <<3>>, <<3, 4>>, <<4, 4, 3>>, <<4, 9>>}
           E == {<<>>, <<<<1, 2>>>>, <<<<1, 2>>, <<2, 1>>>>}
           W == {<<>>} \cup {<<SwitchOf(r, 6, a)>> : r \in {1, 8}, a \in lists}
                  \cup {<<SwitchOf(1, 6, a), SwitchOf(2, 7, b)>> : a, b \in lists}
           Fits(s) == /\ s \in Seq(S)
                      /\ \A k \in DOMAIN s : s[k].switch \in {6, 7}
                      /\ \A k, m \in DOMAIN s : s[k].switch = s[m].switch => k = m
<1>1. /\ req.routers = 1..2 /\ req.hosts = 3..5 /\ req.switches \in W /\ req.edges \in E
  BY DEF PreviewRequests
<1>2. \A a \in lists : a \in Seq(Nat)
  <2>1. <<>> \in Seq(Nat) /\ <<3>> \in Seq(Nat) /\ <<3, 4>> \in Seq(Nat)
    OBVIOUS
  <2>2. <<4, 4, 3>> \in Seq(Nat) /\ <<4, 9>> \in Seq(Nat)
    OBVIOUS
  <2> QED BY <2>1, <2>2
<1>3. Fits(req.switches)
  <2>1. \A r \in {1, 2, 8}, s \in {6, 7}, a \in lists :
          SwitchOf(r, s, a) \in S /\ SwitchOf(r, s, a).switch = s
    <3> HIDE DEF lists
    <3> QED BY <1>2 DEF SwitchOf
  <2>2. Fits(<<>>)
    <3>1. DOMAIN <<>> = {}
      OBVIOUS
    <3>2. <<>> \in Seq(S)
      <4> HIDE DEF S
      <4> QED OBVIOUS
    <3> QED BY <3>1, <3>2
  <2>3. ASSUME NEW x \in S, x.switch = 6 PROVE Fits(<<x>>)
    <3> HIDE DEF S
    <3> QED BY <2>3
  <2>4. ASSUME NEW x \in S, NEW y \in S, x.switch = 6, y.switch = 7 PROVE Fits(<<x, y>>)
    <3> HIDE DEF S
    <3> QED BY <2>4
  <2> HIDE DEF S, Fits, lists
  <2>5. ASSUME NEW r \in {1, 8}, NEW a \in lists PROVE Fits(<<SwitchOf(r, 6, a)>>)
    BY <2>1, <2>3
  <2>6. ASSUME NEW a \in lists, NEW b \in lists
        PROVE  Fits(<<SwitchOf(1, 6, a), SwitchOf(2, 7, b)>>)
    BY <2>1, <2>4
  <2>7. CASE req.switches = <<>>
    BY <2>2, <2>7
  <2>8. CASE req.switches \in {<<SwitchOf(r, 6, a)>> : r \in {1, 8}, a \in lists}
    BY <2>5, <2>8
  <2>9. CASE req.switches \in {<<SwitchOf(1, 6, a), SwitchOf(2, 7, b)>> : a, b \in lists}
    BY <2>6, <2>9
  <2> QED BY <1>1, <2>7, <2>8, <2>9
<1>4. /\ Len(req.edges) \in Nat
      /\ \A k \in 1..Len(req.edges) : req.edges[k][1] # req.edges[k][2]
  BY <1>1
<1>5. 6 \notin Outer /\ 7 \notin Outer /\ req.routers \cap req.hosts = {}
  BY <1>1 DEF Outer
<1> HIDE DEF S
<1> QED BY <1>3, <1>4, <1>5 DEF PreviewRequest, S

LEMMA BuildRequestsAreRequests == req \in BuildRequests => BuiltRequest
<1> SUFFICES ASSUME req \in BuildRequests PROVE BuiltRequest
  OBVIOUS
<1> DEFINE R == {"host", "device"}
           one == <<<<1, 2>>>>
           two == <<<<2, 1>>>>
<1>1. /\ req.routers \in 0..3
      /\ req.roles \in {<<"host", "device", "host", "host">>, <<"host", "host">>, <<>>}
      /\ req.slots \in {{}, {3}, {1}, {2, 3}}
      /\ \/ req.edges = <<>> /\ req.extra = <<>>
         \/ req.routers = 2 /\ req.edges \in {<<>>, one} /\ req.extra = two
  <2> DEFINE hosts == <<"host", "device", "host", "host">>
             few == <<"host", "host">>
             none == {<<>>}
             A == [routers : {2}, roles : {hosts}, slots : {{}, {3}}, edges : {<<>>, one},
                   extra : {two}, grouped : BOOLEAN, lookup : {TRUE}, losses : {1}]
             B == [routers : 0..3, roles : {few}, slots : {{1}, {2, 3}}, edges : none,
                   extra : none, grouped : BOOLEAN, lookup : BOOLEAN, losses : {2}]
             C == [routers : {2}, roles : none, slots : {{}}, edges : none, extra : none,
                   grouped : {TRUE}, lookup : {TRUE}, losses : {0}]
  <2>1. req \in A \/ req \in B \/ req \in C
    <3> HIDE DEF A, B, C
    <3> QED BY DEF BuildRequests, A, B, C
  <2> HIDE DEF hosts, few, one, two
  <2>2. req \in A => /\ req.routers = 2 /\ req.roles = hosts /\ req.slots \in {{}, {3}}
                     /\ req.edges \in {<<>>, one} /\ req.extra = two
    OBVIOUS
  <2>3. req \in B => /\ req.routers \in 0..3 /\ req.roles = few /\ req.slots \in {{1}, {2, 3}}
                     /\ req.edges = <<>> /\ req.extra = <<>>
    OBVIOUS
  <2>4. req \in C => /\ req.routers = 2 /\ req.roles = <<>> /\ req.slots = {}
                     /\ req.edges = <<>> /\ req.extra = <<>>
    OBVIOUS
  <2> HIDE DEF A, B, C
  <2>5. req.routers \in 0..3
    BY <2>1, <2>2, <2>3, <2>4
  <2>6. req.roles \in {hosts, few, <<>>}
    BY <2>1, <2>2, <2>3, <2>4
  <2>7. req.slots \in {{}, {3}, {1}, {2, 3}}
    BY <2>1, <2>2, <2>3, <2>4
  <2>8. \/ req.edges = <<>> /\ req.extra = <<>>
        \/ req.routers = 2 /\ req.edges \in {<<>>, one} /\ req.extra = two
    BY <2>1, <2>2, <2>3, <2>4
  <2> QED BY <2>5, <2>6, <2>7, <2>8 DEF hosts, few
<1>2. req.roles \in Seq(R)
  <2>1. <<>> \in Seq(R) /\ <<"host", "host">> \in Seq(R)
    OBVIOUS
  <2>2. <<"host", "device", "host", "host">> \in Seq(R)
    OBVIOUS
  <2> QED BY <1>1, <2>1, <2>2
<1>3. ASSUME NEW T, <<>> \in Seq(T), req.routers = 2 => one \in Seq(T) /\ two \in Seq(T)
      PROVE  req.edges \in Seq(T) /\ req.extra \in Seq(T)
  BY <1>1, <1>3
<1> DEFINE T == {e \in Built!Routers \X Built!Routers : e[1] # e[2]}
<1>4. req.routers = 2 => <<1, 2>> \in T /\ <<2, 1>> \in T
  BY DEF Built!Routers
<1>5. req.edges \in Seq(T) /\ req.extra \in Seq(T)
  <2> HIDE DEF T
  <2>1. <<>> \in Seq(T)
    OBVIOUS
  <2>2. \A e \in T : <<e>> \in Seq(T)
    OBVIOUS
  <2> QED BY <1>3, <1>4, <2>1, <2>2
<1>6. req.routers \in Nat /\ req.slots \subseteq Nat \ {0}
  BY <1>1
<1> QED BY <1>2, <1>5, <1>6 DEF BuiltRequest

-----------------------------------------------------------------------------
(* The parts of the configuration *)

\* Whatever part is generated, the allocator of subnets makes a step of its own or none.
LEMMA AllocatorRuns == GenerationSpec => Spec
<1>1. GenerationInit => Init
  BY DEF GenerationInit
<1>2. GenerationNext => [Next]_vars
  BY DEF GenerationNext, vars
<1>3. UNCHANGED <<vars, part, req, plan>> => UNCHANGED vars
  OBVIOUS
<1> QED
  BY <1>1, <1>2, <1>3, PTL DEF GenerationSpec, Spec

\* Whatever part is generated: subnets handed out lie in the pools and apart, an allocator
\* that gives up has none left, and the pools take turns (next_subnet).
THEOREM PoolsAlwaysServed == GenerationSpec => []PoolsServed
<1>1. TypeOK /\ InPools /\ NoneLeftIsTrue /\ FairTurns => PoolsServed
  BY DEF PoolsServed
<1> QED
  BY <1>1, AllocatorRuns, TypeCorrect, SubnetsInPools, GivesUpWhenFull, PoolsTakeTurns, PTL

LEMMA FlowsAlways == GenerationSpec => [](part = "flows" => FlowsRequest /\ FlowsInv)
<1>1. GenerationInit => (part = "flows" => FlowsRequest /\ FlowsInv)
  BY FlowRequestsAreRequests, FlowsBegin DEF GenerationInit
<1>2. (part = "flows" => FlowsRequest /\ FlowsInv) /\ [GenerationNext]_<<vars, part, req, plan>>
        => (part = "flows" => FlowsRequest /\ FlowsInv)'
  BY FlowsStep, FlowsWait DEF GenerationNext, Generates
<1> QED
  BY <1>1, <1>2, PTL DEF GenerationSpec

\* Whatever part is generated: the traffic is as it was asked for (generate_traffic_scripts).
THEOREM FlowsAlwaysAsAsked == GenerationSpec => []FlowsAsAsked
<1>1. (part = "flows" => FlowsRequest /\ FlowsInv) => FlowsAsAsked
  BY FlowsPromise DEF FlowsAsAsked
<1> QED
  BY <1>1, FlowsAlways, PTL

LEMMA ScriptsAlways == GenerationSpec => [](part = "scripts" => ScriptRequest /\ ScriptsInv)
<1>1. GenerationInit => (part = "scripts" => ScriptRequest /\ ScriptsInv)
  BY ScriptRequestsAreRequests, ScriptsBegin DEF GenerationInit
<1>2. (part = "scripts" => ScriptRequest /\ ScriptsInv) /\ [GenerationNext]_<<vars, part, req, plan>>
        => (part = "scripts" => ScriptRequest /\ ScriptsInv)'
  BY ScriptsStep, ScriptsWait DEF GenerationNext, Generates
<1> QED
  BY <1>1, <1>2, PTL DEF GenerationSpec

\* Whatever part is generated: a preview or run that is done has its own scripts in the
\* runtime directory, unless another touched the directories since (build_full_preview).
THEOREM OwnScriptsAlways == GenerationSpec => []OwnScriptsUnlessTouched
<1>1. (part = "scripts" => ScriptRequest /\ ScriptsInv) => OwnScriptsUnlessTouched
  BY DEF ScriptsInv, OwnAfter, OwnScriptsUnlessTouched, Scripts!OwnScriptsUnlessTouched
<1> QED
  BY <1>1, ScriptsAlways, PTL

LEMMA SegmentsAlways == GenerationSpec => [](part = "segments" => SegmentRequest /\ SegmentInv)
<1>1. GenerationInit => (part = "segments" => SegmentRequest /\ SegmentInv)
  BY SegmentRequestsAreRequests, SegmentsBegin DEF GenerationInit
<1>2. (part = "segments" => SegmentRequest /\ SegmentInv) /\ [GenerationNext]_<<vars, part, req, plan>>
        => (part = "segments" => SegmentRequest /\ SegmentInv)'
  BY SegmentsStep, SegmentsWait DEF GenerationNext, Generates
<1> QED
  BY <1>1, <1>2, PTL DEF GenerationSpec

\* Whatever part is generated: each slot has a node of its own while clean routers last, NAT
\* is met if it can be, and a router is in NAT once and then has no firewall
\* (plan_and_apply_segmentation).
THEOREM SlotsAlwaysPlaced == GenerationSpec => []SlotsPlaced
<1>1. (part = "segments" => SegmentRequest /\ SegmentInv) => SlotsPlaced
  BY SegmentsPromise DEF SlotsPlaced
<1> QED
  BY <1>1, SegmentsAlways, PTL

\* Whatever part is generated and whatever rules earlier runs left: once the flows are done,
\* none that is generated is stopped at a node without a rule there that accepts it, or one
\* of an earlier run whose script has been written over (write_allow_rules_for_flows).
THEOREM AllowRulesAlwaysSuffice == GenerationSpec => []AllowRulesSuffice
<1>1. (part = "segments" => SegmentRequest /\ SegmentInv) => AllowRulesSuffice
  BY SegmentsPromise DEF AllowRulesSuffice
<1> QED
  BY <1>1, SegmentsAlways, PTL

LEMMA StarAlways == GenerationSpec => [](part = "star" => StarRequest /\ StarInv)
<1>1. GenerationInit => (part = "star" => StarRequest /\ StarInv)
  BY StarRequestsAreRequests, StarBegins DEF GenerationInit
<1>2. (part = "star" => StarRequest /\ StarInv) /\ [GenerationNext]_<<vars, part, req, plan>>
        => (part = "star" => StarRequest /\ StarInv)'
  BY StarStep, StarWaits DEF GenerationNext, Generates
<1> QED
  BY <1>1, <1>2, PTL DEF GenerationSpec

LEMMA HitlAlways == GenerationSpec => [](part = "hitl" => HitlRequest /\ HitlInv)
<1>1. GenerationInit => (part = "hitl" => HitlRequest /\ HitlInv)
  BY HitlRequestsAreRequests, HitlBegins DEF GenerationInit
<1>2. (part = "hitl" => HitlRequest /\ HitlInv) /\ [GenerationNext]_<<vars, part, req, plan>>
        => (part = "hitl" => HitlRequest /\ HitlInv)'
  BY HitlStep, HitlWaits DEF GenerationNext, Generates
<1> QED
  BY <1>1, <1>2, PTL DEF GenerationSpec

LEMMA PreviewAlways == GenerationSpec => [](part = "previewed" => PreviewRequest /\ PreviewInv)
<1>1. GenerationInit => (part = "previewed" => PreviewRequest /\ PreviewInv)
  BY PreviewRequestsAreRequests, PreviewBegins DEF GenerationInit
<1>2. (part = "previewed" => PreviewRequest /\ PreviewInv) /\ [GenerationNext]_<<vars, part, req, plan>>
        => (part = "previewed" => PreviewRequest /\ PreviewInv)'
  <2>1. PreviewRequest /\ req' = req => PreviewRequest'
    BY DEF PreviewRequest, Outer
  <2>2. part = "previewed" /\ [GenerationNext]_<<vars, part, req, plan>> /\ part' = "previewed" =>
          Previewed!Next \/ UNCHANGED <<req, plan>>
    BY DEF GenerationNext, Generates
  <2> QED BY <2>1, <2>2, PreviewStep, PreviewWaits DEF GenerationNext
<1> QED
  BY <1>1, <1>2, PTL DEF GenerationSpec

LEMMA BuiltAlways == GenerationSpec => [](part = "built" => BuiltRequest /\ BuiltInv)
<1>1. GenerationInit => (part = "built" => BuiltRequest /\ BuiltInv)
  BY BuildRequestsAreRequests, BuiltBegins DEF GenerationInit
<1>2. (part = "built" => BuiltRequest /\ BuiltInv) /\ [GenerationNext]_<<vars, part, req, plan>>
        => (part = "built" => BuiltRequest /\ BuiltInv)'
  BY BuiltStep, BuiltWaits DEF GenerationNext, Generates
<1> QED
  BY <1>1, <1>2, PTL DEF GenerationSpec

\* Whatever part is generated: no two links share an interface of a node, in a preview that
\* is realized, a topology without one, a star, or a session with hardware, whichever calls
\* that add a link fail (add_link).
THEOREM InterfacesAlwaysDistinct == GenerationSpec => []InterfacesDistinct
<1>1. (/\ part = "previewed" => PreviewRequest /\ PreviewInv
       /\ part = "built" => BuiltRequest /\ BuiltInv
       /\ part = "star" => StarRequest /\ StarInv
       /\ part = "hitl" => HitlRequest /\ HitlInv)
        => InterfacesDistinct
  BY PreviewPromises, BuiltPromises, StarPromises, HitlPromises DEF InterfacesDistinct
<1> QED
  BY <1>1, PreviewAlways, BuiltAlways, StarAlways, HitlAlways, PTL

\* Whatever part is generated: every host is linked where the preview or the planner puts
\* it, but for calls that failed (build_segmented_topology).
THEOREM HostsAlwaysAttached == GenerationSpec => []HostsAttached
<1>1. (/\ part = "previewed" => PreviewRequest /\ PreviewInv
       /\ part = "built" => BuiltRequest /\ BuiltInv)
        => HostsAttached
  BY PreviewPromises, BuiltPromises DEF HostsAttached
<1> QED
  BY <1>1, PreviewAlways, BuiltAlways, PTL

\* Whatever part is generated: the slots asked for are docker nodes, each of a plain host of
\* its own (build_segmented_topology, build_star_from_roles).
THEOREM DockersAlwaysPlaced == GenerationSpec => []DockersPlaced
<1>1. (/\ part = "built" => BuiltRequest /\ BuiltInv
       /\ part = "star" => StarRequest /\ StarInv)
        => DockersPlaced
  BY BuiltPromises, StarPromises DEF DockersPlaced
<1> QED
  BY <1>1, BuiltAlways, StarAlways, PTL
===============================================================================
