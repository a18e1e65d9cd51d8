--------------------------- MODULE PreviewRouters ---------------------------
(***************************************************************************)
(* Links between routers in the preview (planning/full_preview.py): the    *)
(* graph each mode of the router-to-router policy draws, with the random   *)
(* generator's choices left open, and the base scenario bridged to it.     *)
(*                                                                         *)
(* req is the number of routers, the policy (mode "" when there is none,   *)
(* degree 0 when it gives none) and the base scenario: "none", or a graph  *)
(* whose nodes are of a kind that can be bridged to, of a kind that may be *)
(* in a cluster, or of another.  A link is a set of two routers.           *)
(***************************************************************************)
EXTENDS Naturals, Sequences, SequencesExt

VARIABLES req, plan

vars == <<req, plan>>

Modes == {"", "none", "min", "uniform", "exact", "nonuniform", "max"}
NoBase == [kind |-> <<>>, edge |-> {}]
NoBridge == [target |-> 0, peer |-> 0, cluster |-> {}]
Requests == [routers : Nat, mode : Modes, degree : Nat, base : {NoBase}]

Routers == 1..req.routers
Link(a, b) == {a, b}
Degree(edges, r) == Cardinality({e \in edges : r \in e})
Total(f) == FoldFunction(LAMBDA x, y : x + y, 0, f)

\* Without a policy the number of routers decides.
Mode ==
  IF req.routers <= 1 THEN "none"
  ELSE IF req.mode # "" THEN req.mode
  ELSE IF req.routers <= 2 THEN "min"
  ELSE IF req.routers <= 4 THEN "uniform" ELSE "nonuniform"

Begun ==
  [pc |-> "start", edges |-> {}, goal |-> <<>>, need |-> <<>>,
       tree |-> {}, hubs |-> <<>>, next |-> 1, bridge |-> NoBridge]

Init == req \in Requests /\ plan = Begun

Drawn(edges) == [plan EXCEPT !.pc = "drawn", !.edges = edges]
Starts(mode) == plan.pc = "start" /\ Mode = mode /\ UNCHANGED req

-----------------------------------------------------------------------------
PlansNone == Starts("none") /\ plan' = Drawn({})

ChainEdges_Short == {Link(r, r + 1) : r \in 1..(req.routers - 2)}

\* A chain, also for a mode that is not known.
ChainEdges == {Link(r, r + 1) : r \in 1..(req.routers - 1)}
PlansChain ==
  /\ \E mode \in {"min", "max"} : Starts(mode)
  /\ plan' = Drawn(ChainEdges)

\* A degree sequence is drawn from the node of highest degree down.
DrawsSequence(degrees) ==
  plan' = [plan EXCEPT !.pc = "drawing", !.goal = degrees, !.need = degrees]

PlansUniform ==
  /\ Starts("uniform")
  /\ \E d \in 1..(req.routers - 1) :
       /\ (req.routers * d) % 2 = 0
       /\ DrawsSequence([r \in Routers |-> d])

EnsureEven_Odd(seq) == seq

\* The last router gives way when the degrees have an odd sum.
EnsureEven(seq) ==
  IF Total(seq) % 2 = 0 THEN seq
  ELSE LET last == CHOOSE r \in Routers : seq[r] > 0 /\ \A s \in Routers : seq[s] > 0 => s <= r
       IN  [seq EXCEPT ![last] = @ - 1]

PlansExact ==
  /\ Starts("exact")
  /\ LET target == IF req.degree < req.routers THEN req.degree ELSE req.routers - 1
     IN  IF target = 0 THEN plan' = Drawn({})
         ELSE DrawsSequence(EnsureEven([r \in Routers |-> target]))

\* One round of _edges_from_degree_sequence: a router that needs most is linked to as
\* many of the others as it needs, those that need most; ties are broken at random.
Highest(S) == {r \in S : \A s \in S : plan.need[s] <= plan.need[r]}
ConnectsHighest ==
  /\ plan.pc = "drawing"
  /\ \E node \in Highest(DOMAIN plan.need) :
       LET others == DOMAIN plan.need \ {node} IN
         /\ plan.need[node] > 0
         /\ \E targets \in SUBSET others :
              /\ Cardinality(targets) = plan.need[node]
              /\ \A t \in targets, o \in others \ targets : plan.need[t] >= plan.need[o]
              /\ \A t \in targets : plan.need[t] > 0
              /\ plan' = [plan EXCEPT
                   !.edges = @ \cup {Link(node, t) : t \in targets},
                   !.need = [r \in others |-> IF r \in targets THEN @[r] - 1 ELSE @[r]]]
  /\ UNCHANGED req

EndsSequence ==
  /\ plan.pc = "drawing"
  /\ \A r \in DOMAIN plan.need : plan.need[r] = 0
  /\ plan' = Drawn(plan.edges)
  /\ UNCHANGED req

-----------------------------------------------------------------------------
\* Mode nonuniform: a random tree, then hubs.
PlansTree ==
  /\ Starts("nonuniform")
  /\ \E root \in Routers : plan' = [plan EXCEPT !.pc = "tree", !.tree = {root}]

GrowsTree ==
  /\ plan.pc = "tree"
  /\ \E a \in plan.tree, b \in Routers \ plan.tree :
       plan' = [plan EXCEPT !.edges = @ \cup {Link(a, b)}, !.tree = @ \cup {b}]
  /\ UNCHANGED req

\* round(sqrt(n)), two at least, and fewer than there are routers.
HubCount ==
  LET root == CHOOSE h \in 1..req.routers : h * (h - 1) < req.routers
                                         /\ req.routers <= h * (h + 1)
      most == IF root < 2 THEN 2 ELSE root
  IN  IF most < req.routers THEN most ELSE req.routers - 1

\* The first hub is the primary one; hubs are linked to each other.
ChoosesHubs ==
  /\ plan.pc = "tree" /\ plan.tree = Routers
  /\ \E hubs \in kSubset(HubCount, Routers) : \E primary \in hubs :
       plan' = [plan EXCEPT !.pc = "hubs",
                            !.hubs = <<primary>> \o SetToSeq(hubs \ {primary}),
                            !.edges = @ \cup UNION {{Link(a, b) : b \in hubs \ {a}} : a \in hubs}]
  /\ UNCHANGED req

NonhubCap == 2
Hubs == Range(plan.hubs)
Primary == plan.hubs[1]

EligibleTarget(edges, hub, r) ==
  /\ Link(hub, r) \notin edges
  /\ Degree(edges, r) < IF hub = Primary THEN NonhubCap + 1 ELSE NonhubCap

\* Every other router in turn is linked to the primary hub, and perhaps to another.
ServesPeriphery ==
  /\ plan.pc = "hubs" /\ plan.next <= req.routers
  /\ LET r == plan.next
         first == IF EligibleTarget(plan.edges, Primary, r)
                  THEN plan.edges \cup {Link(Primary, r)} ELSE plan.edges
         second == {hub \in Hubs \ {Primary} : EligibleTarget(first, hub, r)}
     IN  \E edges \in (IF r \in Hubs THEN {plan.edges}
                       ELSE {first} \cup {first \cup {Link(hub, r)} : hub \in second}) :
           plan' = [plan EXCEPT !.edges = edges, !.next = @ + 1]
  /\ UNCHANGED req

EndsHubs ==
  /\ plan.pc = "hubs" /\ plan.next > req.routers
  /\ plan' = Drawn(plan.edges)
  /\ UNCHANGED req

Draws ==
  \/ PlansNone \/ PlansChain \/ PlansUniform \/ PlansExact
  \/ ConnectsHighest \/ EndsSequence
  \/ PlansTree \/ GrowsTree \/ ChoosesHubs \/ ServesPeriphery \/ EndsHubs

-----------------------------------------------------------------------------
(***************************************************************************)
(* The base scenario is bridged to one of the routers                      *)
(***************************************************************************)
BaseNodes == DOMAIN req.base.kind
Candidates == {v \in BaseNodes : req.base.kind[v] = "target"}

\* What can be reached from a node, whatever is on the way.
Cluster(v) ==
  LET grown(S, i) == S \cup {w \in BaseNodes : \E u \in S : {u, w} \in req.base.edge}
  IN  FoldLeft(grown, {v}, [i \in 1..Cardinality(BaseNodes) |-> i])

BridgesNothing ==
  /\ plan.pc = "drawn"
  /\ Candidates = {} \/ req.routers = 0
  /\ plan' = [plan EXCEPT !.pc = "done"]
  /\ UNCHANGED req

AttachesBase ==
  /\ plan.pc = "drawn"
  /\ \E target \in Candidates, peer \in Routers :
       plan' = [plan EXCEPT !.pc = "done",
                            !.bridge = [target |-> target, peer |-> peer,
                                        cluster |-> Cluster(target)]]
  /\ UNCHANGED req

Next == Draws \/ BridgesNothing \/ AttachesBase

Spec == Init /\ [][Next]_vars

-----------------------------------------------------------------------------
IsDrawn == plan.pc \in {"drawn", "done"}

Reached(edges, r) ==
  LET grown(S, i) == S \cup {s \in Routers : \E q \in S : {q, s} \in edges}
  IN  FoldLeft(grown, {r}, [i \in Routers |-> i])

\* A degree sequence that was begun is realized to the last link: no router that is to
\* be linked lacks routers that still need a link, so the code's other attempts and its
\* chain are never needed.
SequencesRealized ==
  plan.pc = "drawing" =>
    \A r \in Highest(DOMAIN plan.need) :
      plan.need[r] <= Cardinality({s \in DOMAIN plan.need \ {r} : plan.need[s] > 0})

\* Every router has the degree asked for, but for one that has one less when the sum
\* would be odd; in mode uniform all have the same.
DegreesMet ==
  IsDrawn /\ Mode \in {"exact", "uniform"} =>
    LET most == req.routers - 1
        target == CASE Mode = "uniform" -> Degree(plan.edges, 1)
                    [] req.degree > most -> most
                    [] OTHER -> req.degree
        short == {r \in Routers : Degree(plan.edges, r) # target}
    IN  IF (req.routers * target) % 2 = 0 THEN short = {}
        ELSE /\ Cardinality(short) = 1
             /\ \A r \in short : Degree(plan.edges, r) = target - 1

\* In the modes that begin from a chain or a tree every router reaches every other, over
\* links between two routers of the preview; the hubs only add to the tree.
RoutersConnected ==
  /\ \A e \in plan.edges : e \subseteq Routers /\ Cardinality(e) = 2
  /\ IsDrawn /\ Mode \in {"min", "max", "nonuniform"} => Reached(plan.edges, 1) = Routers

\* The cluster shown with a base scenario is cut off from the rest of it.
BridgeClusterClosed ==
  plan.bridge # NoBridge =>
    \A e \in req.base.edge : e \cap plan.bridge.cluster = {} \/ e \subseteq plan.bridge.cluster

=============================================================================
