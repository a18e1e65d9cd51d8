----------------------------- MODULE RouterMesh -----------------------------
(***************************************************************************)
(* Links between routers of a topology built without a preview             *)
(* (builders/topology.py, build_segmented_topology): the mode that the     *)
(* routing items give, its links, then the routing protocol of each router *)
(* and more links between those that share one.                            *)
(*                                                                         *)
(* req is the number of routers, the routing items in order, the routers   *)
(* planned by density and the mesh style.  An item has a protocol, a mode, *)
(* a degree, a count and a factor (in quarters); 0 and "" are absent.      *)
(***************************************************************************)
EXTENDS Integers, Sequences, SequencesExt, FiniteSets

VARIABLES req, plan

vars == <<req, plan>>

\* The tree and the hubs of mode NonUniform are drawn as the preview draws them.
Preview == INSTANCE PreviewRouters

Routers == 1..req.routers
Pair(a, b) == {a, b}
Pairs(S) == kSubset(2, S)
Degree(edges, r) == Cardinality({e \in edges : r \in e})
AtMost(a, b) == IF a <= b THEN a ELSE b
AtLeast(a, b) == IF a >= b THEN a ELSE b
Drawn(edges) == [plan EXCEPT !.pc = "drawn", !.edges = edges]

Begun == [pc |-> "begin", mode |-> "", target |-> 0, style |-> req.style, edges |-> {},
          tree |-> {}, hubs |-> <<>>, next |-> 1, protocols |-> <<>>, groups |-> {}, open |-> {}]

Init == plan = Begun

-----------------------------------------------------------------------------
Modes == {req.items[i].mode : i \in DOMAIN req.items}
Degrees(mode) == {req.items[i].degree : i \in {j \in DOMAIN req.items : req.items[j].mode = mode}} \ {0}

\* The upper median of the degrees asked for, between one and the other routers.
Target(mode) ==
  LET sorted == SetToSortSeq(Degrees(mode), <)
      chosen == sorted[(Len(sorted) \div 2) + 1]
  IN  AtLeast(1, AtMost(req.routers - 1, chosen))

Mode ==
  IF req.items = <<>> \/ req.routers <= 1 THEN "Random"
  ELSE IF Degrees("Exact") # {} THEN "Exact"
  ELSE LET listed == <<"Min", "Uniform", "NonUniform", "Max">>
           found == SelectSeq(listed, LAMBDA m : m \in Modes)
       IN  IF found = <<>> THEN "Random" ELSE Head(found)

ChoosesMode ==
  /\ plan.pc = "begin"
  /\ plan' = [plan EXCEPT
       !.pc = "start", !.mode = Mode,
       !.target = IF Mode = "Min" THEN 1
                  ELSE IF Mode \in {"Exact", "Uniform"} /\ Degrees(Mode) # {} THEN Target(Mode)
                  ELSE 0,
       !.style = IF Mode = "NonUniform" /\ @ = "full" THEN "" ELSE @]
  /\ UNCHANGED req

Starts(mode) == plan.pc = "start" /\ plan.mode = mode /\ req.routers > 1 /\ UNCHANGED req

\* Mode Exact makes no link: the code stops at the definition of a helper.
LinksNothing ==
  /\ plan.pc = "start" /\ UNCHANGED req
  /\ req.routers <= 1 \/ plan.mode = "Exact"
  /\ plan' = Drawn({})

LinksChain == Starts("Min") /\ plan' = Drawn({Pair(r, r + 1) : r \in 1..(req.routers - 1)})
LinksAll == Starts("Max") /\ plan' = Drawn(Pairs(Routers))

LinksTree ==
  /\ \E mode \in {"Random", "NonUniform"} : Starts(mode)
  /\ \E root \in Routers : plan' = [plan EXCEPT !.pc = "tree", !.tree = {root}]
GrowsTree == Preview!GrowsTree
EndsTree ==
  /\ plan.pc = "tree" /\ plan.tree = Routers /\ plan.mode = "Random"
  /\ plan' = Drawn(plan.edges)
  /\ UNCHANGED req
ChoosesHubs == plan.mode = "NonUniform" /\ Preview!ChoosesHubs
ServesPeriphery == Preview!ServesPeriphery
EndsHubs == Preview!EndsHubs

-----------------------------------------------------------------------------
(***************************************************************************)
(* Mode Uniform                                                            *)
(***************************************************************************)
\* The exponent of the power of two that is nearest by ratio.
Log2(n) == CHOOSE k \in 0..n : 2^(2 * k) <= 2 * n * n /\ 2 * n * n < 2^(2 * k + 2)

UniformTarget ==
  LET n == req.routers
      most == AtMost(n - 1, AtLeast(2, Log2(n) + 1))
  IN  IF plan.target > 0 THEN plan.target
      ELSE IF n = 2 THEN 1 ELSE AtMost(most, AtLeast(2, (n \div 2) + 1))

LinksTwo ==
  /\ Starts("Uniform") /\ req.routers = 2
  /\ plan' = [Drawn({Pair(1, 2)}) EXCEPT !.target = UniformTarget]

\* Stubs of two or more per router, paired at random until the graph is simple.
LinksRegular ==
  /\ Starts("Uniform") /\ req.routers > 2
  /\ LET n == req.routers
         k == UniformTarget IN
       /\ k >= 2 /\ (n * k) % 2 = 0
       /\ \E edges \in kSubset((n * k) \div 2, Pairs(Routers)) :
            /\ \A r \in Routers : Degree(edges, r) = k
            /\ plan' = [Drawn(edges) EXCEPT !.target = k]

\* Otherwise, or when chance fails, a ring that is filled up.
LinksRing ==
  /\ Starts("Uniform") /\ req.routers > 2
  /\ plan' = [plan EXCEPT !.pc = "balance", !.target = UniformTarget,
                          !.edges = {Pair(r, (r % req.routers) + 1) : r \in Routers}]

Short == {r \in Routers : Degree(plan.edges, r) < plan.target}
Lowest ==
  CHOOSE r \in Routers : \A s \in Routers \ {r} :
    \/ Degree(plan.edges, r) < Degree(plan.edges, s)
    \/ Degree(plan.edges, r) = Degree(plan.edges, s) /\ r < s
Partners == {s \in Short \ {Lowest} : Pair(s, Lowest) \notin plan.edges}

Balances ==
  /\ plan.pc = "balance" /\ Lowest \in Short
  /\ \E s \in Partners : plan' = [plan EXCEPT !.edges = @ \cup {Pair(s, Lowest)}]
  /\ UNCHANGED req

EndsRing ==
  /\ plan.pc = "balance"
  /\ Lowest \notin Short \/ Partners = {}
  /\ plan' = Drawn(plan.edges)
  /\ UNCHANGED req

-----------------------------------------------------------------------------
(***************************************************************************)
(* Protocols                                                               *)
(***************************************************************************)
Concrete == {req.items[i].protocol : i \in DOMAIN req.items} \ {"Random"}
Fallbacks == IF Concrete = {} THEN {"OSPFv2"} ELSE Concrete
Named == {chosen \in [DOMAIN req.items -> Fallbacks] :
            \A i \in DOMAIN req.items :
              req.items[i].protocol # "Random" => chosen[i] = req.items[i].protocol}

\* compute_counts_by_factor: whole parts, then one each for the largest fractions; an item
\* of the same name as a later one has no whole part of its own.
CountByFactor(name, items) ==
  LET exact(i) == req.density * items[i].factor
      part(i) == exact(i) % 4
      lasts == {i \in DOMAIN items : \A j \in DOMAIN items : items[j].name = items[i].name => j <= i}
      left == req.density - FoldFunctionOnSet(LAMBDA x, y : x + y, 0,
                                              [i \in DOMAIN items |-> exact(i) \div 4], lasts)
      before(i) == {j \in DOMAIN items : part(j) > part(i) \/ (part(j) = part(i) /\ j < i)}
      more == {i \in DOMAIN items : items[i].name = name /\ Cardinality(before(i)) < left}
  IN  exact(CHOOSE i \in lasts : items[i].name = name) \div 4 + Cardinality(more)

\* Items with a count first, then those with a factor, as many as there are routers.
Expanded(chosen) ==
  LET items == [i \in DOMAIN req.items |->
                  [name |-> chosen[i], count |-> req.items[i].count, factor |-> req.items[i].factor]]
      weighted == SelectSeq(items, LAMBDA it : it.count = 0 /\ it.factor > 0)
      names == FoldLeft(LAMBDA s, it : IF it.name \in Range(s) THEN s ELSE Append(s, it.name),
                        <<>>, weighted)
      repeated(s, name, n) == s \o [j \in 1..n |-> name]
      counted == FoldLeft(LAMBDA s, it : repeated(s, it.name, it.count), <<>>, items)
      all == IF req.density = 0 THEN counted
             ELSE FoldLeft(LAMBDA s, name : repeated(s, name, CountByFactor(name, weighted)),
                           counted, names)
  IN  SubSeq(all, 1, AtMost(Len(all), req.routers))

AssignsProtocols ==
  /\ plan.pc = "drawn"
  /\ \E chosen \in Named :
       LET protocols == Expanded(chosen) IN
         plan' = [plan EXCEPT !.pc = "enrich", !.protocols = protocols, !.groups = Range(protocols)]
  /\ UNCHANGED req

Group(protocol) == {r \in DOMAIN plan.protocols : plan.protocols[r] = protocol}
Within(edges, S) == {e \in edges : e \subseteq S}
Explicit == plan.style # ""
AllowsMesh == plan.mode = "Max" \/ Explicit

\* The ring of a group in order, as far as its links stay as many as its routers; the
\* links come in ring order.
RingLinks(S) ==
  LET order == SetToSortSeq(S, <)
      ring == [i \in DOMAIN order |-> Pair(order[i], order[(i % Len(order)) + 1])]
      missing == SelectSeq(ring, LAMBDA e : e \notin plan.edges)
      budget == AtLeast(0, Cardinality(S) - Cardinality(Within(plan.edges, S)))
  IN  Range(SubSeq(missing, 1, AtMost(budget, Len(missing))))

\* A chain for a group without links, if the style was asked for.
ChainLinks(S) ==
  LET order == SetToSortSeq(S, <)
  IN  IF Within(plan.edges, S) # {} THEN {}
      ELSE {Pair(order[i], order[i + 1]) : i \in 1..(Len(order) - 1)}

EnrichesGroup ==
  /\ plan.pc = "enrich"
  /\ \E protocol \in plan.groups :
       LET S == Group(protocol)
           links == CASE Cardinality(S) <= 1 \/ ~AllowsMesh -> {}
                      [] plan.style = "ring" /\ Cardinality(S) > 2 -> RingLinks(S)
                      [] plan.style = "tree" -> ChainLinks(S)
                      [] OTHER -> Pairs(S)
       IN  plan' = [plan EXCEPT !.edges = @ \cup links, !.groups = @ \ {protocol},
                                !.open = IF AllowsMesh \/ plan.mode # "Uniform" THEN {}
                                         ELSE {e \in Pairs(S) :
                                                 \E r \in e : Degree(plan.edges, r) < plan.target},
                                !.pc = "budget"]
  /\ UNCHANGED req

\* In mode Uniform, without a style, pairs of which one router lacked links are tried in
\* any order, and linked while both have fewer than one more than the target.
Affordable ==
  {e \in plan.open \ plan.edges : \A r \in e : Degree(plan.edges, r) < plan.target + 1}
LinksWithinBudget ==
  /\ plan.pc = "budget"
  /\ \E e \in Affordable : plan' = [plan EXCEPT !.edges = @ \cup {e}]
  /\ UNCHANGED req

EndsGroup ==
  /\ plan.pc = "budget" /\ Affordable = {}
  /\ plan' = [plan EXCEPT !.pc = "enrich", !.open = {}]
  /\ UNCHANGED req

EndsMesh ==
  /\ plan.pc = "enrich" /\ plan.groups = {}
  /\ plan' = [plan EXCEPT !.pc = "done"]
  /\ UNCHANGED req

Next ==
  \/ ChoosesMode \/ LinksNothing \/ LinksChain \/ LinksAll
  \/ LinksTree \/ GrowsTree \/ EndsTree \/ ChoosesHubs \/ ServesPeriphery \/ EndsHubs
  \/ LinksTwo \/ LinksRegular \/ LinksRing \/ Balances \/ EndsRing
  \/ AssignsProtocols \/ EnrichesGroup \/ LinksWithinBudget \/ EndsGroup \/ EndsMesh

Spec == Init /\ [][Next]_vars
-----------------------------------------------------------------------------
IsDrawn == plan.pc \in {"drawn", "enrich", "budget", "done"}

Reached(r) ==
  LET grown(S, i) == S \cup {s \in Routers : \E q \in S : Pair(q, s) \in plan.edges}
  IN  FoldLeft(grown, {r}, [i \in Routers |-> i])

\* Every router reaches every other as soon as the mode's links are made, except in mode
\* Exact, and in mode Uniform when there are routers enough for two regular graphs apart.
MeshConnected ==
  IsDrawn /\ (plan.mode = "Uniform" => req.routers < 2 * (plan.target + 1)) =>
    plan.mode = "Exact" \/ Reached(1) = Routers

\* In mode Uniform no router has more links than asked for, or than a ring gives, and
\* without a mesh style the links added for a protocol exceed that by one at most.
DegreesBounded ==
  plan.mode = "Uniform" =>
    \A r \in Routers : Degree(plan.edges, r) <=
      IF plan.pc \in {"start", "balance", "drawn"} THEN AtLeast(2, plan.target)
      ELSE IF Explicit THEN req.routers - 1 ELSE AtLeast(2, plan.target + 1)

\* In the end routers of one protocol are linked as the style says: each to each, in as
\* many links as a ring has, or at all.
MeshAsAsked ==
  plan.pc = "done" /\ AllowsMesh =>
    \A protocol \in Range(plan.protocols) :
      LET S == Group(protocol)
          links == Within(plan.edges, S)
      IN  Cardinality(S) > 1 =>
            CASE plan.style = "ring" /\ Cardinality(S) > 2 -> Cardinality(links) >= Cardinality(S)
              [] plan.style = "tree" -> links # {}
              [] OTHER -> links = Pairs(S)

=============================================================================
