---------------------------- MODULE TopologyProofs ----------------------------
(* That no interface is used twice and every host is attached, whatever is asked for and
   whichever calls of the CORE machine fail: of a preview that is realized
   (PreviewTopology), of a topology that is built without one (TopologyBuild), of one switch
   (StarTopology) and of hardware that is attached to a session (HitlAttach). Each theorem
   follows from an inductive invariant, PreviewInv, BuiltInv, StarInv and HitlInv; there is
   one lemma for each action. *)
EXTENDS TopologyParts, Integers, Sequences, FiniteSets, FiniteSetTheorems,
        SequenceTheorems, WellFoundedInduction, TLAPS

-----------------------------------------------------------------------------
(* Previews that are realized *)

\* Nodes have ids of their own, and no router is linked to itself.
Outer == req.routers \cup req.hosts
PreviewRequest ==
  /\ req.switches \in Seq([switch : Nat, router : Nat, hosts : Seq(Nat)])
  /\ req.routers \cap req.hosts = {}
  /\ \A k \in DOMAIN req.switches : req.switches[k].switch \notin Outer
  /\ \A k, m \in DOMAIN req.switches :
       req.switches[k].switch = req.switches[m].switch => k = m
  /\ \A k \in 1..Len(req.edges) : req.edges[k][1] # req.edges[k][2]
  /\ Len(req.edges) \in Nat

PreviewRecord(p) ==
  p = [pc |-> p.pc, k |-> p.k, i |-> p.i, links |-> p.links, lost |-> p.lost,
       next |-> p.next, behind |-> p.behind, address |-> p.address, left |-> p.left]

PreviewShape ==
  /\ PreviewRecord(plan)
  /\ plan.pc \in {"switch", "host", "direct", "done"}
  /\ plan.k \in Nat \ {0} /\ plan.i \in Nat \ {0} /\ plan.lost \in Nat

\* Each interface of a router or a host has been spent, and none is used twice.
PreviewPorts ==
  /\ plan.next \in [Previewed!Nodes -> Nat]
  /\ \A l \in plan.links : \A v \in DOMAIN l.ports :
       v \in Previewed!Nodes /\ l.ports[v] \in Nat
       /\ (v \in Outer => l.ports[v] < plan.next[v])
  /\ \A l, m \in plan.links : \A v \in DOMAIN l.ports \cap DOMAIN m.ports :
       l.ports[v] = m.ports[v] => l = m

\* The hosts of the current switch that it has come past.
Seen == Previewed!Before(plan.i)

\* A switch is not linked before its turn, and then by interfaces that are counted.
PreviewTurns ==
  /\ plan.pc = "host" =>
       /\ plan.k \in DOMAIN req.switches /\ plan.i <= Len(Previewed!Detail.hosts) + 1
       /\ Previewed!Detail.router \in req.routers /\ IsFiniteSet(Seen)
       /\ \A l \in plan.links : Previewed!Detail.switch \in DOMAIN l.ports =>
            l.ports[Previewed!Detail.switch] <= Cardinality(Seen)
  /\ plan.pc = "switch" => plan.k <= Len(req.switches) + 1
  /\ plan.pc = "direct" => plan.left \subseteq DOMAIN req.home
  /\ \A m \in DOMAIN req.switches :
       (plan.pc = "switch" /\ m >= plan.k) \/ (plan.pc = "host" /\ m > plan.k) =>
         \A l \in plan.links : req.switches[m].switch \notin DOMAIN l.ports

\* A host is behind the switch that took it, or its switches' calls have failed so far; it
\* is linked to its router then, or that call has failed too.
Tries(h) ==
  IF plan.pc = "switch" THEN {j \in Previewed!Wanted(h) : j < plan.k}
  ELSE IF plan.pc = "host"
  THEN {j \in Previewed!Wanted(h) : j < plan.k \/ (j = plan.k /\ h \in Seen)}
  ELSE Previewed!Wanted(h)

Lone(h, v) ==
  \E l \in plan.links :
    /\ Previewed!LinksOf(h) = {l}
    /\ DOMAIN l.ports = {h, v} /\ h \in DOMAIN plan.address /\ plan.address[h] = l.subnet

Homed(h) == h \in DOMAIN req.home /\ req.home[h] \in req.routers
Treated(h) == plan.pc \in {"direct", "done"} /\ h \notin plan.left

TakenBySwitch(h) ==
  /\ Lone(h, plan.behind[h])
  /\ \E j \in Previewed!Wanted(h) :
       /\ plan.behind[h] = req.switches[j].switch
       /\ plan.lost = 0 => \A m \in Previewed!Wanted(h) : j <= m

LeftToRouter(h) ==
  /\ plan.lost >= Cardinality(Tries(h))
  /\ ~(Homed(h) /\ Treated(h)) => Previewed!LinksOf(h) = {}
  /\ Homed(h) /\ Treated(h) =>
       \/ Lone(h, req.home[h])
       \/ Previewed!LinksOf(h) = {} /\ plan.lost >= Cardinality(Tries(h)) + 1

PreviewHosts ==
  /\ \A h \in req.hosts :
       IF h \in DOMAIN plan.behind THEN TakenBySwitch(h) ELSE LeftToRouter(h)
  /\ plan.pc = "done" => plan.left = {}

PreviewInv == PreviewShape /\ PreviewPorts /\ PreviewTurns /\ PreviewHosts

LEMMA PreviewSizes ==
  ASSUME PreviewRequest
  PROVE  /\ Len(req.switches) \in Nat /\ DOMAIN req.switches = 1..Len(req.switches)
         /\ \A k \in DOMAIN req.switches :
              /\ Len(req.switches[k].hosts) \in Nat
              /\ DOMAIN req.switches[k].hosts = 1..Len(req.switches[k].hosts)
              /\ req.switches[k].switch \in Previewed!Nodes
         /\ Outer \subseteq Previewed!Nodes
<1> DEFINE S == [switch : Nat, router : Nat, hosts : Seq(Nat)]
<1>1. req.switches \in Seq(S)
  BY DEF PreviewRequest
<1>2. \A d \in S : Len(d.hosts) \in Nat /\ DOMAIN d.hosts = 1..Len(d.hosts)
  OBVIOUS
<1> HIDE DEF S
<1>3. Len(req.switches) \in Nat /\ DOMAIN req.switches = 1..Len(req.switches)
      /\ \A k \in DOMAIN req.switches : req.switches[k] \in S
  BY <1>1
<1>4. \A k \in DOMAIN req.switches : req.switches[k].switch \in Previewed!Nodes
  BY DEF Previewed!Nodes, Previewed!Range
<1>5. Outer \subseteq Previewed!Nodes
  BY DEF Outer, Previewed!Nodes
<1> QED BY <1>2, <1>3, <1>4, <1>5

LEMMA WantedFinite ==
  ASSUME PreviewRequest
  PROVE  /\ \A h : Previewed!Wanted(h) \subseteq DOMAIN req.switches
         /\ \A h : \A S \in SUBSET Previewed!Wanted(h) : IsFiniteSet(S) /\ Cardinality(S) \in Nat
         /\ \A h : Tries(h) \in SUBSET Previewed!Wanted(h)
<1>1. \A h : Previewed!Wanted(h) \subseteq DOMAIN req.switches
  BY DEF Previewed!Wanted
<1>2. ASSUME NEW S \in SUBSET DOMAIN req.switches
      PROVE  IsFiniteSet(S) /\ Cardinality(S) \in Nat
  <2>1. Len(req.switches) \in Nat /\ S \in SUBSET (1..Len(req.switches))
    BY PreviewSizes
  <2>2. IsFiniteSet(1..Len(req.switches))
    BY <2>1, FS_Interval
  <2> QED BY <2>1, <2>2, FS_Subset, FS_CardinalityType
<1>3. \A h : Tries(h) \in SUBSET Previewed!Wanted(h)
  BY DEF Tries
<1> QED BY <1>1, <1>2, <1>3

\* Steps that neither link nor count anything.
LEMMA PreviewSame ==
  ASSUME PreviewRequest, PreviewInv, req' = req,
         plan'.links = plan.links, plan'.next = plan.next
  PROVE  PreviewPorts' /\ Previewed!Nodes' = Previewed!Nodes /\ Outer' = Outer
<1>1. Previewed!Nodes' = Previewed!Nodes /\ Outer' = Outer
  BY DEF Previewed!Nodes, Outer
<1> QED
  BY <1>1 DEF PreviewInv, PreviewPorts

\* A link by an interface that is spent then, and one of a switch above those it uses.
LinkAdds(a, i, b, j, s) ==
  /\ a \in Outer /\ b \in Previewed!Nodes /\ a # b /\ i \in Nat /\ j \in Nat
  /\ plan'.links \in {plan.links,
                     plan.links \cup {[ports |-> Previewed!Ports(a, i, b, j), subnet |-> s]}}
  /\ plan'.next \in [Previewed!Nodes -> Nat]
  /\ \A v \in Previewed!Nodes : plan'.next[v] >= plan.next[v]
  /\ i >= plan.next[a] /\ i < plan'.next[a]
  /\ b \in Outer => j >= plan.next[b] /\ j < plan'.next[b]
  /\ b \notin Outer => \A l \in plan.links : b \in DOMAIN l.ports => l.ports[b] < j

LEMMA PreviewLinks ==
  ASSUME PreviewRequest, PreviewInv, req' = req,
         NEW a, NEW i, NEW b, NEW j, NEW s, LinkAdds(a, i, b, j, s)
  PROVE  PreviewPorts'
<1>0. /\ a \in Outer /\ b \in Previewed!Nodes /\ a # b /\ i \in Nat /\ j \in Nat
      /\ plan'.links \in {plan.links,
                     plan.links \cup {[ports |-> Previewed!Ports(a, i, b, j), subnet |-> s]}}
      /\ plan'.next \in [Previewed!Nodes -> Nat]
      /\ \A v \in Previewed!Nodes : plan'.next[v] >= plan.next[v]
      /\ i >= plan.next[a] /\ i < plan'.next[a]
      /\ b \in Outer => j >= plan.next[b] /\ j < plan'.next[b]
      /\ b \notin Outer => \A l \in plan.links : b \in DOMAIN l.ports => l.ports[b] < j
  BY DEF LinkAdds
<1> DEFINE new == [ports |-> Previewed!Ports(a, i, b, j), subnet |-> s]
<1>1. Previewed!Nodes' = Previewed!Nodes /\ Outer' = Outer
  BY DEF Previewed!Nodes, Outer
<1>2. DOMAIN new.ports = {a, b} /\ new.ports[a] = i /\ new.ports[b] = j
  BY <1>0 DEF Previewed!Ports
<1>3. plan'.links \subseteq plan.links \cup {new}
  BY <1>0
<1> HIDE DEF new
<1>4. a \in Previewed!Nodes /\ plan.next \in [Previewed!Nodes -> Nat]
  BY <1>0, PreviewSizes DEF PreviewInv, PreviewPorts
<1>5. ASSUME NEW l \in plan.links, NEW v \in DOMAIN l.ports
      PROVE  /\ v \in Previewed!Nodes /\ l.ports[v] \in Nat
             /\ v \in Outer => l.ports[v] < plan'.next[v]
             /\ v \in DOMAIN new.ports => l.ports[v] # new.ports[v]
  <2>1. /\ v \in Previewed!Nodes /\ l.ports[v] \in Nat
        /\ v \in Outer => l.ports[v] < plan.next[v]
    BY DEF PreviewInv, PreviewPorts
  <2>2. plan.next[v] \in Nat /\ plan'.next[v] \in Nat /\ plan'.next[v] >= plan.next[v]
    BY <1>0, <1>4, <2>1
  <2>3. v = a => l.ports[v] < i
    BY <1>0, <1>4, <2>1, <2>2
  <2>4. v = b => l.ports[v] < j
    BY <1>0, <2>1, <2>2
  <2>5. v \in DOMAIN new.ports => l.ports[v] # new.ports[v]
    BY <1>2, <2>1, <2>3, <2>4
  <2> QED BY <2>1, <2>2, <2>5
<1>6. ASSUME NEW v \in DOMAIN new.ports
      PROVE  /\ v \in Previewed!Nodes /\ new.ports[v] \in Nat
             /\ v \in Outer => new.ports[v] < plan'.next[v]
  <2>1. CASE v = a
    BY <1>0, <1>2, <1>4, <2>1
  <2>2. CASE v = b
    BY <1>0, <1>2, <2>2
  <2> QED BY <1>2, <2>1, <2>2
<1>7. \A l \in plan'.links : \A v \in DOMAIN l.ports :
        v \in Previewed!Nodes /\ l.ports[v] \in Nat
        /\ (v \in Outer => l.ports[v] < plan'.next[v])
  BY <1>3, <1>5, <1>6
<1>8. \A l, m \in plan.links : \A v \in DOMAIN l.ports \cap DOMAIN m.ports :
        l.ports[v] = m.ports[v] => l = m
  BY DEF PreviewInv, PreviewPorts
<1>9. \A l, m \in plan'.links : \A v \in DOMAIN l.ports \cap DOMAIN m.ports :
        l.ports[v] = m.ports[v] => l = m
  BY <1>3, <1>5, <1>8
<1> QED
  BY <1>0, <1>1, <1>7, <1>9 DEF PreviewPorts

\* Interfaces that are spent for a link that is not made.
LEMMA PreviewSpends ==
  ASSUME PreviewRequest, PreviewInv, req' = req, plan'.links = plan.links,
         plan'.next \in [Previewed!Nodes -> Nat],
         \A v \in Previewed!Nodes : plan'.next[v] >= plan.next[v]
  PROVE  PreviewPorts'
<1>1. Previewed!Nodes' = Previewed!Nodes /\ Outer' = Outer
  BY DEF Previewed!Nodes, Outer
<1>2. ASSUME NEW l \in plan.links, NEW v \in DOMAIN l.ports
      PROVE  /\ v \in Previewed!Nodes /\ l.ports[v] \in Nat
             /\ v \in Outer => l.ports[v] < plan'.next[v]
  <2>1. /\ v \in Previewed!Nodes /\ l.ports[v] \in Nat /\ plan.next \in [Previewed!Nodes -> Nat]
        /\ v \in Outer => l.ports[v] < plan.next[v]
    BY DEF PreviewInv, PreviewPorts
  <2>2. plan.next[v] \in Nat /\ plan'.next[v] \in Nat /\ plan'.next[v] >= plan.next[v]
    BY <2>1
  <2> QED BY <2>1, <2>2
<1> QED BY <1>1, <1>2 DEF PreviewInv, PreviewPorts

LEMMA PreviewAdded ==
  ASSUME PreviewRecord(plan), NEW a, NEW i, NEW b, NEW j, NEW s, NEW ok
  PROVE  LET q == Previewed!Added(a, i, b, j, s, ok) IN
         /\ PreviewRecord(q) /\ q.pc = plan.pc /\ q.k = plan.k /\ q.i = plan.i
         /\ q.next = plan.next /\ q.behind = plan.behind /\ q.address = plan.address
         /\ q.left = plan.left
         /\ q.links = plan.links
              \cup IF ok THEN {[ports |-> Previewed!Ports(a, i, b, j), subnet |-> s]} ELSE {}
         /\ q.lost = plan.lost + IF ok \/ Previewed!Linked(a, b) THEN 0 ELSE 1
<1> DEFINE q == Previewed!Added(a, i, b, j, s, ok)
           new == IF ok THEN {[ports |-> Previewed!Ports(a, i, b, j), subnet |-> s]} ELSE {}
           failed == IF ok \/ Previewed!Linked(a, b) THEN 0 ELSE 1
           p == [plan EXCEPT !.links = plan.links \cup new]
<1>1. q = [p EXCEPT !.lost = plan.lost + failed]
  <2>1. p.lost = plan.lost
    BY DEF PreviewRecord
  <2> QED BY <2>1 DEF Previewed!Added
<1> HIDE DEF new, failed, q
<1>2. /\ PreviewRecord(p) /\ p.pc = plan.pc /\ p.k = plan.k /\ p.i = plan.i
      /\ p.next = plan.next /\ p.behind = plan.behind /\ p.address = plan.address
      /\ p.left = plan.left /\ p.links = plan.links \cup new
  BY DEF PreviewRecord
<1> HIDE DEF p
<1>3. /\ PreviewRecord(q) /\ q.pc = plan.pc /\ q.k = plan.k /\ q.i = plan.i
      /\ q.next = plan.next /\ q.behind = plan.behind /\ q.address = plan.address
      /\ q.left = plan.left /\ q.links = plan.links \cup new /\ q.lost = plan.lost + failed
  BY <1>1, <1>2 DEF PreviewRecord
<1> QED BY <1>3 DEF new, failed, q

LEMMA PreviewBegins ==
  ASSUME PreviewRequest, plan = Previewed!Begun
  PROVE  PreviewInv
<1>1. /\ PreviewRecord(plan) /\ plan.pc = "switch" /\ plan.k = 1 /\ plan.i = 1
      /\ plan.links = {} /\ plan.lost = 0 /\ plan.behind = <<>>
      /\ plan.next \in [Previewed!Nodes -> Nat]
  BY DEF Previewed!Begun, PreviewRecord
<1>2. \A h : Previewed!LinksOf(h) = {} /\ Tries(h) = {}
  <2> TAKE h
  <2>1. \A j \in Previewed!Wanted(h) : ~(j < 1)
    BY PreviewSizes DEF Previewed!Wanted
  <2> QED BY <1>1, <2>1 DEF Previewed!LinksOf, Tries
<1>3. \A h : Cardinality(Tries(h)) = 0
  BY <1>2, FS_EmptySet
<1>4. PreviewHosts
  <2>1. \A h \in req.hosts : LeftToRouter(h)
    BY <1>1, <1>2, <1>3 DEF LeftToRouter, Treated
  <2>2. DOMAIN plan.behind = {}
    BY <1>1
  <2> QED BY <1>1, <2>1, <2>2 DEF PreviewHosts
<1> QED
  BY <1>1, <1>4, PreviewSizes DEF PreviewInv, PreviewShape, PreviewPorts, PreviewTurns

\* A host that a step neither links nor moves, and whose tries it does not add to.
LEMMA PreviewHostKept ==
  ASSUME PreviewRequest, PreviewInv, req' = req, NEW h \in req.hosts,
         h \in DOMAIN plan'.behind <=> h \in DOMAIN plan.behind,
         h \in DOMAIN plan.behind => plan'.behind[h] = plan.behind[h],
         h \in DOMAIN plan.address =>
           h \in DOMAIN plan'.address /\ plan'.address[h] = plan.address[h],
         plan'.lost \in Nat, plan'.lost >= plan.lost,
         Previewed!LinksOf(h)' = Previewed!LinksOf(h),
         h \notin DOMAIN plan.behind =>
           Tries(h)' = Tries(h) /\ (Homed(h) => Treated(h)' = Treated(h))
  PROVE  IF h \in DOMAIN plan'.behind THEN TakenBySwitch(h)' ELSE LeftToRouter(h)'
<1>1. /\ \A l \in Previewed!LinksOf(h) : l \in plan.links
      /\ \A l \in Previewed!LinksOf(h)' : l \in plan'.links
  BY DEF Previewed!LinksOf
<1>2. \A v : Lone(h, v) => Lone(h, v)'
  BY <1>1 DEF Lone
<1>3. CASE h \in DOMAIN plan.behind
  <2>1. TakenBySwitch(h) /\ plan.lost \in Nat /\ (plan'.lost = 0 => plan.lost = 0)
    BY <1>3 DEF PreviewInv, PreviewHosts, PreviewShape
  <2>2. Previewed!Wanted(h)' = Previewed!Wanted(h)
    BY DEF Previewed!Wanted
  <2>3. PICK b : b = plan.behind[h]
    OBVIOUS
  <2>4. Lone(h, b)' /\ plan'.behind[h] = b
    BY <1>2, <1>3, <2>1, <2>3 DEF TakenBySwitch
  <2>5. TakenBySwitch(h)'
    BY <2>1, <2>2, <2>3, <2>4 DEF TakenBySwitch, Lone
  <2> QED BY <1>3, <2>5
<1>4. CASE h \notin DOMAIN plan.behind
  <2>1. LeftToRouter(h) /\ plan.lost \in Nat
    BY <1>4 DEF PreviewInv, PreviewHosts, PreviewShape
  <2>2. /\ Cardinality(Tries(h)) \in Nat /\ Cardinality(Tries(h))' = Cardinality(Tries(h))
        /\ Homed(h)' = Homed(h) /\ (Homed(h) => Treated(h)' = Treated(h))
    BY <1>4, WantedFinite DEF Homed
  <2>3. Lone(h, req.home[h]) => Lone(h, req.home[h])'
    BY <1>2
  <2>4. LeftToRouter(h)'
    BY <2>1, <2>2, <2>3 DEF LeftToRouter
  <2> QED BY <1>4, <2>4
<1> QED BY <1>3, <1>4

\* A step that adds no link to a host.
LEMMA PreviewUnlinked ==
  ASSUME PreviewRequest, NEW a, NEW i, NEW b, NEW j, NEW s, NEW ok, a \notin req.hosts, b \notin req.hosts,
         plan'.links = plan.links
           \cup IF ok THEN {[ports |-> Previewed!Ports(a, i, b, j), subnet |-> s]} ELSE {}
  PROVE  \A h \in req.hosts : Previewed!LinksOf(h)' = Previewed!LinksOf(h)
<1> DEFINE new == [ports |-> Previewed!Ports(a, i, b, j), subnet |-> s]
<1>1. DOMAIN new.ports = {a, b}
  BY DEF Previewed!Ports
<1>2. plan'.links = plan.links \cup IF ok THEN {new} ELSE {}
  OBVIOUS
<1> HIDE DEF new
<1> QED
  BY <1>1, <1>2 DEF Previewed!LinksOf, Previewed!Ends

LEMMA PreviewSkipsSwitch ==
  ASSUME PreviewRequest, PreviewInv, Previewed!SkipsSwitch
  PROVE  PreviewInv'
<1>1. /\ plan.pc = "switch" /\ plan.k <= Len(req.switches) /\ req' = req
      /\ plan.k \in Nat \ {0} /\ plan.lost \in Nat
      /\ req.switches[plan.k].router \notin req.routers
  BY DEF Previewed!SkipsSwitch, Previewed!Switching, Previewed!Detail, PreviewInv, PreviewShape
<1>2. /\ PreviewRecord(plan)' /\ plan'.pc = "switch" /\ plan'.k = plan.k + 1 /\ plan'.i = plan.i
      /\ plan'.links = plan.links /\ plan'.lost = plan.lost /\ plan'.next = plan.next
      /\ plan'.behind = plan.behind /\ plan'.address = plan.address /\ plan'.left = plan.left
  BY <1>1 DEF Previewed!SkipsSwitch, PreviewInv, PreviewShape, PreviewRecord
<1>3. PreviewShape'
  BY <1>1, <1>2 DEF PreviewInv, PreviewShape
<1>4. PreviewPorts'
  BY <1>1, <1>2, PreviewSame
<1>5. PreviewTurns'
  <2>1. Len(req.switches) \in Nat /\ DOMAIN req.switches = 1..Len(req.switches)
    BY PreviewSizes
  <2> QED BY <1>1, <1>2, <2>1 DEF PreviewInv, PreviewTurns
<1>6. \A h : Tries(h)' = Tries(h)
  <2> TAKE h
  <2>1. Previewed!Wanted(h)' = Previewed!Wanted(h) /\ plan.k \notin Previewed!Wanted(h)
        /\ Previewed!Wanted(h) \subseteq Nat
    BY <1>1, PreviewSizes DEF Previewed!Wanted
  <2> QED BY <1>1, <1>2, <2>1 DEF Tries
<1>7. \A h \in req.hosts : Previewed!LinksOf(h)' = Previewed!LinksOf(h) /\ Treated(h)' = Treated(h)
  BY <1>1, <1>2 DEF Previewed!LinksOf, Treated
<1>8. PreviewHosts'
  <2>1. \A h \in req.hosts : IF h \in DOMAIN plan'.behind THEN TakenBySwitch(h)' ELSE LeftToRouter(h)'
    BY <1>1, <1>2, <1>6, <1>7, PreviewHostKept
  <2> QED BY <1>1, <1>2, <2>1 DEF PreviewHosts
<1> QED BY <1>3, <1>4, <1>5, <1>8 DEF PreviewInv

LEMMA PreviewLinksSwitch ==
  ASSUME PreviewRequest, PreviewInv, Previewed!LinksSwitch
  PROVE  PreviewInv'
<1>1. /\ plan.pc = "switch" /\ plan.k \in DOMAIN req.switches /\ req' = req
      /\ plan.k \in Nat \ {0} /\ plan.lost \in Nat /\ plan.next \in [Previewed!Nodes -> Nat]
      /\ req.switches[plan.k].router \in req.routers
  <2>1. /\ plan.pc = "switch" /\ plan.k <= Len(req.switches) /\ req' = req
        /\ req.switches[plan.k].router \in req.routers
    BY DEF Previewed!LinksSwitch, Previewed!Switching, Previewed!Detail
  <2>2. plan.k \in Nat \ {0} /\ plan.lost \in Nat /\ plan.next \in [Previewed!Nodes -> Nat]
    BY DEF PreviewInv, PreviewShape, PreviewPorts
  <2>3. Len(req.switches) \in Nat /\ DOMAIN req.switches = 1..Len(req.switches)
    BY PreviewSizes
  <2> QED BY <2>1, <2>2, <2>3
<1> DEFINE r == req.switches[plan.k].router
           s == req.switches[plan.k].switch
           i == plan.next[r]
<1>2. /\ r \in req.routers /\ r \in Outer /\ s \in Previewed!Nodes /\ s \notin Outer
      /\ r \in Previewed!Nodes /\ i \in Nat
  BY <1>1, PreviewSizes DEF PreviewRequest, Outer
<1>3. PICK ok \in BOOLEAN :
        plan' = [Previewed!Added(r, i, s, 0, 0, ok) EXCEPT !.next[r] = @ + 1, !.pc = "host", !.i = 1]
  <2>1. PICK ok \in Previewed!Answers(r, s) :
          plan' = [Previewed!Added(r, i, s, 0, 0, ok) EXCEPT !.next[r] = @ + 1, !.pc = "host", !.i = 1]
    BY DEF Previewed!LinksSwitch, Previewed!Detail
  <2> QED BY <2>1 DEF Previewed!Answers
<1> DEFINE q == Previewed!Added(r, i, s, 0, 0, ok)
<1>4. /\ PreviewRecord(q) /\ q.pc = plan.pc /\ q.k = plan.k /\ q.i = plan.i
      /\ q.next = plan.next /\ q.behind = plan.behind /\ q.address = plan.address
      /\ q.left = plan.left
      /\ q.links = plan.links \cup IF ok THEN {[ports |-> Previewed!Ports(r, i, s, 0), subnet |-> 0]} ELSE {}
      /\ q.lost \in Nat /\ q.lost >= plan.lost
  <2>1. PreviewRecord(plan)
    BY DEF PreviewInv, PreviewShape
  <2> HIDE DEF r, s, i
  <2> QED BY <1>1, <2>1, PreviewAdded
<1>5. plan' = [q EXCEPT !.next = [plan.next EXCEPT ![r] = i + 1], !.pc = "host", !.i = 1]
  BY <1>3, <1>4
<1> HIDE DEF q
<1>6. /\ PreviewRecord(plan)' /\ plan'.pc = "host" /\ plan'.k = plan.k /\ plan'.i = 1
      /\ plan'.next = [plan.next EXCEPT ![r] = i + 1]
      /\ plan'.behind = plan.behind /\ plan'.address = plan.address /\ plan'.left = plan.left
      /\ plan'.links = q.links /\ plan'.lost = q.lost
  <2> HIDE DEF r, i
  <2> QED BY <1>4, <1>5 DEF PreviewRecord
<1>7. PreviewShape'
  BY <1>1, <1>4, <1>6 DEF PreviewShape
<1>8. \A l \in plan.links : s \notin DOMAIN l.ports
  BY <1>1 DEF PreviewInv, PreviewTurns
<1>9. PreviewPorts'
  <2>1. plan'.links \in {plan.links, plan.links \cup {[ports |-> Previewed!Ports(r, i, s, 0), subnet |-> 0]}}
    BY <1>4, <1>6
  <2>2. /\ plan'.next \in [Previewed!Nodes -> Nat] /\ i < plan'.next[r]
        /\ \A v \in Previewed!Nodes : plan'.next[v] >= plan.next[v]
    BY <1>1, <1>2, <1>6
  <2>3. r # s /\ i >= plan.next[r]
    BY <1>2
  <2>4. \A l \in plan.links : s \in DOMAIN l.ports => l.ports[s] < 0
    BY <1>8
  <2>5. LinkAdds(r, i, s, 0, 0)
    BY <1>2, <2>1, <2>2, <2>3, <2>4 DEF LinkAdds
  <2> HIDE DEF r, s, i
  <2> QED BY <1>1, <2>5, PreviewLinks
<1>10. PreviewTurns'
  <2>1. /\ Len(req.switches[plan.k].hosts) \in Nat
    BY <1>1, PreviewSizes
  <2>2. Seen' = {}
    BY <1>6 DEF Seen, Previewed!Before
  <2>3. \A l \in plan'.links :
          l \in plan.links \/ (DOMAIN l.ports = {r, s} /\ l.ports[s] = 0)
    <3>1. /\ DOMAIN Previewed!Ports(r, i, s, 0) = {r, s} /\ Previewed!Ports(r, i, s, 0)[s] = 0
      BY <1>2 DEF Previewed!Ports
    <3> HIDE DEF r, s, i
    <3> QED BY <1>4, <1>6, <3>1
  <2>4. \A m \in DOMAIN req.switches : m > plan.k => req.switches[m].switch \notin {r, s}
    <3>1. \A k, m \in DOMAIN req.switches :
            req.switches[k].switch = req.switches[m].switch => k = m
      BY DEF PreviewRequest
    <3>2. \A m \in DOMAIN req.switches : req.switches[m].switch \notin Outer /\ m \in Nat
      BY PreviewSizes DEF PreviewRequest
    <3> QED BY <1>1, <1>2, <3>1, <3>2
  <2>5. \A m \in DOMAIN req.switches : m > plan.k => \A l \in plan'.links : req.switches[m].switch \notin DOMAIN l.ports
    <3>1. \A m \in DOMAIN req.switches : m > plan.k => \A l \in plan.links : req.switches[m].switch \notin DOMAIN l.ports
      BY <1>1, PreviewSizes DEF PreviewInv, PreviewTurns
    <3> QED BY <2>3, <2>4, <3>1
  <2>6. Previewed!Detail' = req.switches[plan.k]
    BY <1>1, <1>6 DEF Previewed!Detail
  <2>7. IsFiniteSet(Seen') /\ Cardinality(Seen') = 0
    BY <2>2, FS_EmptySet
  <2> QED BY <1>1, <1>2, <1>6, <1>8, <2>1, <2>3, <2>5, <2>6, <2>7 DEF PreviewTurns
<1>11. \A h : Tries(h)' = Tries(h)
  <2> TAKE h
  <2>1. Previewed!Wanted(h)' = Previewed!Wanted(h)
    BY <1>1 DEF Previewed!Wanted
  <2>2. Seen' = {}
    BY <1>6 DEF Seen, Previewed!Before
  <2>3. Previewed!Wanted(h) \subseteq Nat
    BY PreviewSizes DEF Previewed!Wanted
  <2> QED BY <1>1, <1>6, <2>1, <2>2, <2>3 DEF Tries
<1>12. \A h \in req.hosts : Previewed!LinksOf(h)' = Previewed!LinksOf(h)
  <2>1. r \notin req.hosts /\ s \notin req.hosts
    BY <1>2 DEF PreviewRequest, Outer
  <2>2. plan'.links = plan.links \cup IF ok THEN {[ports |-> Previewed!Ports(r, i, s, 0), subnet |-> 0]} ELSE {}
    BY <1>4, <1>6
  <2> HIDE DEF r, s, i
  <2> QED BY <2>1, <2>2, PreviewUnlinked
<1>13. PreviewHosts'
  <2>1. \A h \in req.hosts : Treated(h)' = Treated(h)
    BY <1>1, <1>6 DEF Treated
  <2>2. \A h \in req.hosts : IF h \in DOMAIN plan'.behind THEN TakenBySwitch(h)' ELSE LeftToRouter(h)'
    BY <1>1, <1>4, <1>6, <1>11, <1>12, <2>1, PreviewHostKept
  <2> QED BY <1>1, <1>6, <2>2 DEF PreviewHosts
<1> QED BY <1>7, <1>9, <1>10, <1>13 DEF PreviewInv

LEMMA PreviewSeen ==
  ASSUME PreviewRequest, PreviewInv, plan.pc = "host", plan.i <= Len(Previewed!Detail.hosts),
         req' = req, plan'.k = plan.k, plan'.i = plan.i + 1
  PROVE  /\ Seen' = Seen \cup {Previewed!Detail.hosts[plan.i]}
         /\ IsFiniteSet(Seen') /\ Cardinality(Seen') \in Nat /\ Cardinality(Seen) \in Nat
         /\ Cardinality(Seen') >= Cardinality(Seen)
         /\ Previewed!Detail.hosts[plan.i] \notin Seen => Cardinality(Seen') = Cardinality(Seen) + 1
<1> DEFINE h == Previewed!Detail.hosts[plan.i]
<1>1. Seen' = Seen \cup {h}
  <2>1. plan.i \in Nat \ {0} /\ 1..(plan.i + 1 - 1) = 1..(plan.i - 1) \cup {plan.i}
    BY DEF PreviewInv, PreviewShape
  <2>2. Previewed!Detail' = Previewed!Detail
    BY DEF Previewed!Detail
  <2> QED BY <2>1, <2>2 DEF Seen, Previewed!Before
<1>2. IsFiniteSet(Seen)
  BY DEF PreviewInv, PreviewTurns
<1> HIDE DEF h
<1>3. /\ IsFiniteSet(Seen \cup {h}) /\ Cardinality(Seen) \in Nat
      /\ Cardinality(Seen \cup {h}) = IF h \in Seen THEN Cardinality(Seen) ELSE Cardinality(Seen) + 1
  BY <1>2, FS_AddElement, FS_CardinalityType
<1> QED BY <1>1, <1>3 DEF h

\* What the current switch is, while its hosts are attached.
LEMMA PreviewCurrent ==
  ASSUME PreviewRequest, PreviewInv, plan.pc = "host"
  PROVE  /\ plan.k \in DOMAIN req.switches /\ Previewed!Detail = req.switches[plan.k]
         /\ Previewed!Detail.switch \in Previewed!Nodes /\ Previewed!Detail.switch \notin Outer
         /\ Previewed!Detail.router \in req.routers
         /\ Len(Previewed!Detail.hosts) \in Nat
         /\ DOMAIN Previewed!Detail.hosts = 1..Len(Previewed!Detail.hosts)
         /\ plan.i \in Nat \ {0} /\ plan.i <= Len(Previewed!Detail.hosts) + 1
         /\ \A l \in plan.links : Previewed!Detail.switch \in DOMAIN l.ports =>
              l.ports[Previewed!Detail.switch] <= Cardinality(Seen)
<1>1. plan.k \in DOMAIN req.switches /\ Previewed!Detail = req.switches[plan.k]
  BY DEF PreviewInv, PreviewTurns, Previewed!Detail
<1>2. /\ Previewed!Detail.switch \in Previewed!Nodes /\ Previewed!Detail.switch \notin Outer
      /\ Len(Previewed!Detail.hosts) \in Nat
      /\ DOMAIN Previewed!Detail.hosts = 1..Len(Previewed!Detail.hosts)
  BY <1>1, PreviewSizes DEF PreviewRequest
<1> QED BY <1>1, <1>2 DEF PreviewInv, PreviewTurns, PreviewShape

LEMMA PreviewSkipsHost ==
  ASSUME PreviewRequest, PreviewInv, Previewed!SkipsHost
  PROVE  PreviewInv'
<1> DEFINE x == Previewed!Detail.hosts[plan.i]
<1>1. /\ plan.pc = "host" /\ plan.i <= Len(Previewed!Detail.hosts) /\ req' = req
      /\ x \in Seen \/ x \notin req.hosts \/ x \in DOMAIN plan.behind
      /\ plan.k \in Nat \ {0} /\ plan.i \in Nat \ {0} /\ plan.lost \in Nat
  BY DEF Previewed!SkipsHost, Previewed!Skipped, Seen, PreviewInv, PreviewShape
<1>2. /\ PreviewRecord(plan)' /\ plan'.pc = "host" /\ plan'.k = plan.k /\ plan'.i = plan.i + 1
      /\ plan'.links = plan.links /\ plan'.lost = plan.lost /\ plan'.next = plan.next
      /\ plan'.behind = plan.behind /\ plan'.address = plan.address /\ plan'.left = plan.left
  BY <1>1 DEF Previewed!SkipsHost, PreviewInv, PreviewShape, PreviewRecord
<1>3. PreviewShape'
  BY <1>1, <1>2 DEF PreviewShape
<1>4. PreviewPorts'
  BY <1>1, <1>2, PreviewSame
<1>5. /\ Seen' = Seen \cup {x} /\ IsFiniteSet(Seen')
      /\ Cardinality(Seen') \in Nat /\ Cardinality(Seen) \in Nat
      /\ Cardinality(Seen') >= Cardinality(Seen)
  BY <1>1, <1>2, PreviewSeen
<1>6. PreviewTurns'
  <2>1. /\ plan.k \in DOMAIN req.switches /\ Previewed!Detail' = Previewed!Detail
        /\ Len(Previewed!Detail.hosts) \in Nat /\ Previewed!Detail.router \in req.routers
        /\ Previewed!Detail.switch \in Previewed!Nodes
        /\ \A l \in plan.links : Previewed!Detail.switch \in DOMAIN l.ports =>
              l.ports[Previewed!Detail.switch] <= Cardinality(Seen)
    BY <1>1, <1>2, PreviewCurrent DEF Previewed!Detail
  <2>2. \A l \in plan'.links : Previewed!Detail.switch \in DOMAIN l.ports =>
              l.ports[Previewed!Detail.switch] <= Cardinality(Seen')
    <3>1. \A l \in plan.links : Previewed!Detail.switch \in DOMAIN l.ports =>
            l.ports[Previewed!Detail.switch] \in Nat
      BY DEF PreviewInv, PreviewPorts
    <3> QED BY <1>2, <1>5, <2>1, <3>1
  <2>3. plan'.k \in DOMAIN req'.switches /\ plan'.i <= Len(Previewed!Detail'.hosts) + 1
    BY <1>1, <1>2, <2>1
  <2>4. \A m \in DOMAIN req.switches : m > plan.k =>
          \A l \in plan.links : req.switches[m].switch \notin DOMAIN l.ports
    BY <1>1 DEF PreviewInv, PreviewTurns
  <2> HIDE DEF x
  <2> QED BY <1>1, <1>2, <1>5, <2>1, <2>2, <2>3, <2>4 DEF PreviewTurns
<1>7. ASSUME NEW h \in req.hosts, h \notin DOMAIN plan.behind
      PROVE  Tries(h)' = Tries(h)
  <2>1. Previewed!Wanted(h)' = Previewed!Wanted(h)
    BY <1>1 DEF Previewed!Wanted
  <2>2. h \in Seen' <=> h \in Seen
    BY <1>1, <1>5, <1>7
  <2> QED BY <1>1, <1>2, <2>1, <2>2 DEF Tries
<1>8. \A h \in req.hosts : Previewed!LinksOf(h)' = Previewed!LinksOf(h) /\ Treated(h)' = Treated(h)
  BY <1>1, <1>2 DEF Previewed!LinksOf, Treated
<1>9. PreviewHosts'
  <2>1. \A h \in req.hosts : IF h \in DOMAIN plan'.behind THEN TakenBySwitch(h)' ELSE LeftToRouter(h)'
    BY <1>1, <1>2, <1>7, <1>8, PreviewHostKept
  <2> QED BY <1>1, <1>2, <2>1 DEF PreviewHosts
<1> QED BY <1>3, <1>4, <1>6, <1>9 DEF PreviewInv

LEMMA PreviewEndsSwitch ==
  ASSUME PreviewRequest, PreviewInv, Previewed!EndsSwitch
  PROVE  PreviewInv'
<1>1. /\ plan.pc = "host" /\ plan.i > Len(Previewed!Detail.hosts) /\ req' = req
      /\ plan.k \in Nat \ {0} /\ plan.i \in Nat \ {0} /\ plan.lost \in Nat
  BY DEF Previewed!EndsSwitch, PreviewInv, PreviewShape
<1>2. /\ PreviewRecord(plan)' /\ plan'.pc = "switch" /\ plan'.k = plan.k + 1 /\ plan'.i = plan.i
      /\ plan'.links = plan.links /\ plan'.lost = plan.lost /\ plan'.next = plan.next
      /\ plan'.behind = plan.behind /\ plan'.address = plan.address /\ plan'.left = plan.left
  BY <1>1 DEF Previewed!EndsSwitch, PreviewInv, PreviewShape, PreviewRecord
<1>3. PreviewShape'
  BY <1>1, <1>2 DEF PreviewShape
<1>4. PreviewPorts'
  BY <1>1, <1>2, PreviewSame
<1>5. /\ Previewed!Detail = req.switches[plan.k] /\ plan.k \in 1..Len(req.switches)
      /\ Len(req.switches) \in Nat /\ DOMAIN req.switches = 1..Len(req.switches)
      /\ Len(Previewed!Detail.hosts) \in Nat
      /\ DOMAIN Previewed!Detail.hosts = 1..Len(Previewed!Detail.hosts)
      /\ plan.i = Len(Previewed!Detail.hosts) + 1
  BY <1>1, PreviewCurrent, PreviewSizes
<1>6. PreviewTurns'
  <2>1. \A m \in DOMAIN req.switches : m > plan.k =>
          \A l \in plan.links : req.switches[m].switch \notin DOMAIN l.ports
    BY <1>1 DEF PreviewInv, PreviewTurns
  <2>2. plan'.k <= Len(req'.switches) + 1 /\ \A m \in DOMAIN req.switches : m >= plan'.k => m > plan.k
    BY <1>1, <1>2, <1>5
  <2> QED BY <1>1, <1>2, <2>1, <2>2 DEF PreviewTurns
<1>7. \A h : Tries(h)' = Tries(h)
  <2> TAKE h
  <2>1. Previewed!Wanted(h)' = Previewed!Wanted(h) /\ Previewed!Wanted(h) \subseteq Nat
    BY <1>1, <1>5 DEF Previewed!Wanted
  <2>2. plan.k \in Previewed!Wanted(h) => h \in Seen
    <3>1. 1..(plan.i - 1) = DOMAIN Previewed!Detail.hosts
      BY <1>5
    <3> QED BY <1>5, <3>1 DEF Previewed!Wanted, Previewed!Range, Seen, Previewed!Before
  <2> QED BY <1>1, <1>2, <2>1, <2>2 DEF Tries
<1>8. \A h \in req.hosts : Previewed!LinksOf(h)' = Previewed!LinksOf(h) /\ Treated(h)' = Treated(h)
  BY <1>1, <1>2 DEF Previewed!LinksOf, Treated
<1>9. PreviewHosts'
  <2>1. \A h \in req.hosts : IF h \in DOMAIN plan'.behind THEN TakenBySwitch(h)' ELSE LeftToRouter(h)'
    BY <1>1, <1>2, <1>7, <1>8, PreviewHostKept
  <2> QED BY <1>1, <1>2, <2>1 DEF PreviewHosts
<1> QED BY <1>3, <1>4, <1>6, <1>9 DEF PreviewInv

LEMMA PreviewEndsSwitches ==
  ASSUME PreviewRequest, PreviewInv, Previewed!EndsSwitches
  PROVE  PreviewInv'
<1>1. /\ plan.pc = "switch" /\ ~(plan.k <= Len(req.switches)) /\ req' = req
      /\ plan.k \in Nat \ {0} /\ plan.lost \in Nat
  BY DEF Previewed!EndsSwitches, Previewed!Switching, PreviewInv, PreviewShape
<1>2. /\ PreviewRecord(plan)' /\ plan'.pc = "direct" /\ plan'.k = 1 /\ plan'.i = plan.i
      /\ plan'.links = plan.links /\ plan'.lost = plan.lost /\ plan'.next = plan.next
      /\ plan'.behind = plan.behind /\ plan'.address = plan.address
      /\ plan'.left = DOMAIN req.home
  BY <1>1 DEF Previewed!EndsSwitches, PreviewInv, PreviewShape, PreviewRecord
<1>3. PreviewShape'
  <2>1. plan.i \in Nat \ {0}
    BY DEF PreviewInv, PreviewShape
  <2> QED BY <1>1, <1>2, <2>1 DEF PreviewShape
<1>4. PreviewPorts'
  BY <1>1, <1>2, PreviewSame
<1>5. PreviewTurns'
  BY <1>1, <1>2 DEF PreviewTurns
<1>6. \A h : Tries(h)' = Tries(h)
  <2> TAKE h
  <2>1. Previewed!Wanted(h)' = Previewed!Wanted(h)
    BY <1>1 DEF Previewed!Wanted
  <2>2. \A j \in Previewed!Wanted(h) : j < plan.k
    BY <1>1, PreviewSizes DEF Previewed!Wanted
  <2> QED BY <1>1, <1>2, <2>1, <2>2 DEF Tries
<1>7. \A h \in req.hosts : Previewed!LinksOf(h)' = Previewed!LinksOf(h) /\ (Homed(h) => Treated(h)' = Treated(h))
  BY <1>1, <1>2 DEF Previewed!LinksOf, Treated, Homed
<1>8. PreviewHosts'
  <2>1. \A h \in req.hosts : IF h \in DOMAIN plan'.behind THEN TakenBySwitch(h)' ELSE LeftToRouter(h)'
    BY <1>1, <1>2, <1>6, <1>7, PreviewHostKept
  <2> QED BY <1>1, <1>2, <2>1 DEF PreviewHosts
<1> QED BY <1>3, <1>4, <1>5, <1>8 DEF PreviewInv

LEMMA PreviewCardinality == \A S : Previewed!Cardinality(S) = Cardinality(S)
BY DEF Previewed!Cardinality, Cardinality

LEMMA PreviewOther ==
  ASSUME PreviewRequest, NEW a, NEW i, NEW b, NEW j, NEW s, NEW ok,
         plan'.links = plan.links
           \cup IF ok THEN {[ports |-> Previewed!Ports(a, i, b, j), subnet |-> s]} ELSE {}
  PROVE  \A h : h # a /\ h # b => Previewed!LinksOf(h)' = Previewed!LinksOf(h)
<1> DEFINE new == [ports |-> Previewed!Ports(a, i, b, j), subnet |-> s]
<1>1. DOMAIN new.ports = {a, b}
  BY DEF Previewed!Ports
<1>2. plan'.links = plan.links \cup IF ok THEN {new} ELSE {}
  OBVIOUS
<1> HIDE DEF new
<1> QED
  BY <1>1, <1>2 DEF Previewed!LinksOf, Previewed!Ends

\* A host that no link has reached, and one that is linked then.
LEMMA PreviewFirstLink ==
  ASSUME NEW h, NEW i, NEW v, NEW j, NEW s, Previewed!LinksOf(h) = {},
         plan'.links = plan.links \cup {[ports |-> Previewed!Ports(h, i, v, j), subnet |-> s]},
         plan'.address = Previewed!With(plan.address, h, s)
  PROVE  Lone(h, v)'
<1> DEFINE new == [ports |-> Previewed!Ports(h, i, v, j), subnet |-> s]
<1>1. DOMAIN new.ports = {h, v} /\ new.subnet = s
  BY DEF Previewed!Ports
<1>2. plan'.links = plan.links \cup {new}
  OBVIOUS
<1>3. h \in DOMAIN plan'.address /\ plan'.address[h] = s
  BY DEF Previewed!With
<1> HIDE DEF new
<1>4. Previewed!LinksOf(h)' = {new}
  BY <1>1, <1>2 DEF Previewed!LinksOf, Previewed!Ends
<1> QED BY <1>1, <1>2, <1>3, <1>4 DEF Lone

\* The call that links two nodes for the first time is counted when it fails.
LEMMA PreviewAnswers ==
  ASSUME PreviewInv, NEW h, NEW v, Previewed!LinksOf(h) = {}
  PROVE  ~Previewed!Linked(h, v)
BY DEF Previewed!LinksOf, Previewed!Linked, Previewed!Ends

LEMMA PreviewAttachesHost ==
  ASSUME PreviewRequest, PreviewInv, Previewed!AttachesHost
  PROVE  PreviewInv'
<1>0. PICK h, s, i, place :
        /\ h = Previewed!Detail.hosts[plan.i] /\ s = Previewed!Detail.switch
        /\ i = plan.next[h] /\ place = Cardinality(Seen) + 1
  OBVIOUS
<1>1. /\ plan.pc = "host" /\ plan.i <= Len(Previewed!Detail.hosts) /\ req' = req
      /\ h \notin Seen /\ h \in req.hosts /\ h \notin DOMAIN plan.behind
      /\ plan.k \in Nat \ {0} /\ plan.i \in Nat \ {0} /\ plan.lost \in Nat
      /\ plan.next \in [Previewed!Nodes -> Nat]
  BY <1>0 DEF Previewed!AttachesHost, Previewed!Skipped, Seen, PreviewInv, PreviewShape, PreviewPorts
<1>2. /\ h \in Outer /\ h \in Previewed!Nodes /\ s \in Previewed!Nodes /\ s \notin Outer
      /\ i \in Nat /\ place \in Nat /\ Cardinality(Seen) \in Nat
      /\ \A l \in plan.links : s \in DOMAIN l.ports => l.ports[s] <= Cardinality(Seen)
      /\ plan.k \in DOMAIN req.switches /\ Previewed!Detail = req.switches[plan.k]
      /\ Previewed!Detail.router \in req.routers /\ Len(Previewed!Detail.hosts) \in Nat
      /\ plan.i \in DOMAIN Previewed!Detail.hosts
  <2>1. h \in Outer /\ h \in Previewed!Nodes
    BY <1>1, PreviewSizes DEF Outer
  <2>2. IsFiniteSet(Seen)
    BY <1>1 DEF PreviewInv, PreviewTurns
  <2>3. Cardinality(Seen) \in Nat
    BY <2>2, FS_CardinalityType
  <2>4. i \in Nat
    BY <1>0, <1>1, <2>1
  <2> QED BY <1>0, <1>1, <2>1, <2>3, <2>4, PreviewCurrent
<1>3. PICK ok \in BOOLEAN :
        LET p == Previewed!Added(h, i, s, place, s, ok)
        IN  plan' = IF ok
                    THEN [p EXCEPT !.i = @ + 1, !.next[h] = @ + 1,
                                   !.behind = Previewed!With(@, h, s),
                                   !.address = Previewed!With(@, h, s)]
                    ELSE [p EXCEPT !.i = @ + 1]
  <2>1. Previewed!Cardinality(Previewed!Before(plan.i)) + 1 = place
    BY <1>0, PreviewCardinality DEF Seen
  <2>2. PICK ok \in Previewed!Answers(h, s) :
        LET p == Previewed!Added(h, i, s, place, s, ok)
        IN  plan' = IF ok
                    THEN [p EXCEPT !.i = @ + 1, !.next[h] = @ + 1,
                                   !.behind = Previewed!With(@, h, s),
                                   !.address = Previewed!With(@, h, s)]
                    ELSE [p EXCEPT !.i = @ + 1]
    BY <1>0, <2>1 DEF Previewed!AttachesHost
  <2> QED BY <2>2 DEF Previewed!Answers
<1> DEFINE q == Previewed!Added(h, i, s, place, s, ok)
<1>4. Previewed!LinksOf(h) = {}
  <2>1. LeftToRouter(h)
    BY <1>1 DEF PreviewInv, PreviewHosts
  <2> QED BY <1>1, <2>1 DEF LeftToRouter, Treated
<1>5. /\ PreviewRecord(q) /\ q.pc = plan.pc /\ q.k = plan.k /\ q.i = plan.i
      /\ q.next = plan.next /\ q.behind = plan.behind /\ q.address = plan.address
      /\ q.left = plan.left
      /\ q.links = plan.links \cup IF ok THEN {[ports |-> Previewed!Ports(h, i, s, place), subnet |-> s]} ELSE {}
      /\ q.lost = plan.lost + IF ok THEN 0 ELSE 1
      /\ q.lost \in Nat /\ q.lost >= plan.lost
  <2>1. PreviewRecord(plan)
    BY DEF PreviewInv, PreviewShape
  <2>2. ~Previewed!Linked(h, s)
    BY <1>4, PreviewAnswers
  <2> QED BY <1>1, <2>1, <2>2, PreviewAdded
<1>6. IF ok
      THEN plan' = [q EXCEPT !.i = plan.i + 1, !.next = [plan.next EXCEPT ![h] = i + 1],
                             !.behind = Previewed!With(plan.behind, h, s),
                             !.address = Previewed!With(plan.address, h, s)]
      ELSE plan' = [q EXCEPT !.i = plan.i + 1]
  <2>1. IF ok
        THEN plan' = [q EXCEPT !.i = @ + 1, !.next[h] = @ + 1, !.behind = Previewed!With(@, h, s),
                               !.address = Previewed!With(@, h, s)]
        ELSE plan' = [q EXCEPT !.i = @ + 1]
    BY <1>3
  <2> HIDE DEF q
  <2>2. i = q.next[h]
    BY <1>0, <1>5
  <2> QED BY <1>5, <2>1, <2>2
<1> HIDE DEF q
<1>7. /\ PreviewRecord(plan)' /\ plan'.pc = "host" /\ plan'.k = plan.k /\ plan'.i = plan.i + 1
      /\ plan'.left = plan.left /\ plan'.links = q.links /\ plan'.lost = q.lost
      /\ IF ok
         THEN /\ plan'.next = [plan.next EXCEPT ![h] = i + 1]
              /\ plan'.behind = Previewed!With(plan.behind, h, s)
              /\ plan'.address = Previewed!With(plan.address, h, s)
         ELSE plan'.next = plan.next /\ plan'.behind = plan.behind /\ plan'.address = plan.address
  <2>1. CASE ok
    <3> DEFINE n == [plan.next EXCEPT ![h] = i + 1]
               b == Previewed!With(plan.behind, h, s)
               a == Previewed!With(plan.address, h, s)
    <3>1. plan' = [q EXCEPT !.i = plan.i + 1, !.next = n, !.behind = b, !.address = a]
      BY <1>6, <2>1
    <3> HIDE DEF n, b, a
    <3>2. /\ PreviewRecord(plan)' /\ plan'.pc = q.pc /\ plan'.k = q.k /\ plan'.i = plan.i + 1
          /\ plan'.left = q.left /\ plan'.links = q.links /\ plan'.lost = q.lost
          /\ plan'.next = n /\ plan'.behind = b /\ plan'.address = a
      BY <1>5, <3>1 DEF PreviewRecord
    <3> QED BY <1>1, <1>5, <2>1, <3>2 DEF n, b, a
  <2>2. CASE ~ok
    <3>1. plan' = [q EXCEPT !.i = plan.i + 1]
      BY <1>6, <2>2
    <3>2. /\ PreviewRecord(plan)' /\ plan'.pc = q.pc /\ plan'.k = q.k /\ plan'.i = plan.i + 1
          /\ plan'.left = q.left /\ plan'.links = q.links /\ plan'.lost = q.lost
          /\ plan'.next = q.next /\ plan'.behind = q.behind /\ plan'.address = q.address
      BY <1>5, <3>1 DEF PreviewRecord
    <3> QED BY <1>1, <1>5, <2>2, <3>2
  <2> QED BY <2>1, <2>2
<1>8. PreviewShape'
  BY <1>1, <1>5, <1>7 DEF PreviewShape
<1>9. PreviewPorts'
  <2>1. CASE ok
    <3>1. plan'.links = plan.links \cup {[ports |-> Previewed!Ports(h, i, s, place), subnet |-> s]}
      BY <1>5, <1>7, <2>1
    <3>2. /\ plan'.next \in [Previewed!Nodes -> Nat] /\ i < plan'.next[h]
          /\ \A v \in Previewed!Nodes : plan'.next[v] >= plan.next[v]
      <4>1. /\ plan'.next = [plan.next EXCEPT ![h] = i + 1] /\ plan.next \in [Previewed!Nodes -> Nat]
            /\ i = plan.next[h] /\ i \in Nat /\ h \in Previewed!Nodes
        BY <1>0, <1>1, <1>2, <1>7, <2>1
      <4> QED BY <4>1
    <3>3. \A l \in plan.links : s \in DOMAIN l.ports => l.ports[s] < place
      <4>1. \A l \in plan.links : s \in DOMAIN l.ports => l.ports[s] \in Nat
        BY DEF PreviewInv, PreviewPorts
      <4> QED BY <1>0, <1>2, <4>1
    <3>4. LinkAdds(h, i, s, place, s)
      <4>1. /\ h \in Outer /\ s \in Previewed!Nodes /\ s \notin Outer /\ h # s /\ i \in Nat /\ place \in Nat
            /\ i >= plan.next[h]
        BY SMTT(20), <1>0, <1>2
      <4> QED BY <3>1, <3>2, <3>3, <4>1 DEF LinkAdds
    <3> QED BY <1>1, <3>4, PreviewLinks
  <2>2. CASE ~ok
    BY <1>1, <1>5, <1>7, <2>2, PreviewSame
  <2> QED BY <2>1, <2>2
<1>10. /\ Seen' = Seen \cup {h} /\ IsFiniteSet(Seen')
       /\ Cardinality(Seen') = Cardinality(Seen) + 1
  BY <1>0, <1>1, <1>7, PreviewSeen
<1>11. PreviewTurns'
  <2>1. Previewed!Detail' = Previewed!Detail
    BY <1>1, <1>7 DEF Previewed!Detail
  <2>2. \A l \in plan'.links : l \in plan.links \/ (DOMAIN l.ports = {h, s} /\ l.ports[s] = place)
    <3>1. DOMAIN Previewed!Ports(h, i, s, place) = {h, s} /\ Previewed!Ports(h, i, s, place)[s] = place
      BY <1>2 DEF Previewed!Ports
    <3> QED BY <1>5, <1>7, <3>1
  <2>3. \A l \in plan'.links : s \in DOMAIN l.ports => l.ports[s] <= Cardinality(Seen')
    <3>1. \A l \in plan.links : s \in DOMAIN l.ports => l.ports[s] \in Nat
      BY DEF PreviewInv, PreviewPorts
    <3>2. /\ Cardinality(Seen) \in Nat /\ Cardinality(Seen') = place /\ place = Cardinality(Seen) + 1
          /\ \A l \in plan.links : s \in DOMAIN l.ports => l.ports[s] <= Cardinality(Seen)
      BY <1>0, <1>2, <1>10
    <3> QED BY <2>2, <3>1, <3>2
  <2>4. \A m \in DOMAIN req.switches : m > plan.k => req.switches[m].switch \notin {h, s}
    <3>1. \A k, m \in DOMAIN req.switches :
            req.switches[k].switch = req.switches[m].switch => k = m
      BY DEF PreviewRequest
    <3>2. \A m \in DOMAIN req.switches : req.switches[m].switch \notin Outer /\ m \in Nat
      BY PreviewSizes DEF PreviewRequest
    <3>3. /\ plan.k \in DOMAIN req.switches /\ plan.k \in Nat /\ req.switches[plan.k].switch = s
          /\ h \in Outer
      BY <1>0, <1>1, <1>2
    <3> TAKE m \in DOMAIN req.switches
    <3> HAVE m > plan.k
    <3>4. m # plan.k /\ req.switches[m].switch # h
      BY <3>2, <3>3
    <3> QED BY <3>1, <3>3, <3>4
  <2>5. \A m \in DOMAIN req.switches : m > plan.k => \A l \in plan'.links : req.switches[m].switch \notin DOMAIN l.ports
    <3>1. \A m \in DOMAIN req.switches : m > plan.k => \A l \in plan.links : req.switches[m].switch \notin DOMAIN l.ports
      BY <1>1 DEF PreviewInv, PreviewTurns
    <3> QED BY <2>2, <2>4, <3>1
  <2>6. plan'.i <= Len(Previewed!Detail.hosts) + 1
    <3>1. plan.i <= Len(Previewed!Detail.hosts) /\ Len(Previewed!Detail.hosts) \in Nat
          /\ plan'.i = plan.i + 1 /\ plan.i \in Nat
      BY <1>1, <1>2, <1>7
    <3> QED BY <3>1
  <2> QED BY <1>0, <1>1, <1>2, <1>7, <1>10, <2>1, <2>3, <2>5, <2>6 DEF PreviewTurns
<1>12. ASSUME NEW g \in req.hosts, g # h
       PROVE  IF g \in DOMAIN plan'.behind THEN TakenBySwitch(g)' ELSE LeftToRouter(g)'
  <2>1. /\ g \in DOMAIN plan'.behind <=> g \in DOMAIN plan.behind
        /\ g \in DOMAIN plan.behind => plan'.behind[g] = plan.behind[g]
        /\ g \in DOMAIN plan.address => g \in DOMAIN plan'.address /\ plan'.address[g] = plan.address[g]
    BY <1>7, <1>12 DEF Previewed!With
  <2>2. Previewed!LinksOf(g)' = Previewed!LinksOf(g)
    <3>1. plan'.links = plan.links \cup IF ok THEN {[ports |-> Previewed!Ports(h, i, s, place), subnet |-> s]} ELSE {}
      BY <1>5, <1>7
    <3>2. g # s
      BY <1>2 DEF Outer
    <3>3. DOMAIN Previewed!Ports(h, i, s, place) = {h, s}
      BY DEF Previewed!Ports
    <3> QED BY <1>12, <3>1, <3>2, <3>3 DEF Previewed!LinksOf, Previewed!Ends
  <2>3. Tries(g)' = Tries(g)
    <3>1. Previewed!Wanted(g)' = Previewed!Wanted(g)
      BY <1>1 DEF Previewed!Wanted
    <3>2. g \in Seen' <=> g \in Seen
      BY <1>10, <1>12
    <3> QED BY <1>1, <1>7, <3>1, <3>2 DEF Tries
  <2>4. Treated(g)' = Treated(g)
    BY <1>1, <1>7 DEF Treated
  <2> QED BY <1>1, <1>5, <1>7, <2>1, <2>2, <2>3, <2>4, PreviewHostKept
<1>13. IF h \in DOMAIN plan'.behind THEN TakenBySwitch(h)' ELSE LeftToRouter(h)'
  <2>0. /\ plan.k \in Previewed!Wanted(h) /\ Previewed!Wanted(h)' = Previewed!Wanted(h)
        /\ Previewed!Wanted(h) \subseteq Nat
        /\ Tries(h) = {j \in Previewed!Wanted(h) : j < plan.k}
        /\ plan.lost >= Cardinality(Tries(h)) /\ IsFiniteSet(Tries(h)) /\ Cardinality(Tries(h)) \in Nat
    <3>1. plan.k \in Previewed!Wanted(h)
      BY <1>0, <1>2 DEF Previewed!Wanted, Previewed!Range
    <3>2. Previewed!Wanted(h)' = Previewed!Wanted(h)
      BY <1>1 DEF Previewed!Wanted
    <3>3. Previewed!Wanted(h) \subseteq Nat
      BY PreviewSizes DEF Previewed!Wanted
    <3>4. Tries(h) = {j \in Previewed!Wanted(h) : j < plan.k}
      BY <1>1, <3>3 DEF Tries
    <3>5. plan.lost >= Cardinality(Tries(h))
      BY <1>1 DEF PreviewInv, PreviewHosts, LeftToRouter
    <3>6. IsFiniteSet(Tries(h)) /\ Cardinality(Tries(h)) \in Nat
      BY WantedFinite
    <3> QED BY <3>1, <3>2, <3>3, <3>4, <3>5, <3>6
  <2>1. CASE ok
    <3>1. Lone(h, s)'
      <4>1. /\ plan'.links = plan.links \cup {[ports |-> Previewed!Ports(h, i, s, place), subnet |-> s]}
            /\ plan'.address = Previewed!With(plan.address, h, s)
        BY <1>5, <1>7, <2>1
      <4> QED BY <1>4, <4>1, PreviewFirstLink
    <3>2. h \in DOMAIN plan'.behind /\ plan'.behind[h] = s /\ s = req'.switches[plan.k].switch
      <4>1. plan'.behind = Previewed!With(plan.behind, h, s)
        BY <1>7, <2>1
      <4>2. s = req.switches[plan.k].switch /\ req' = req
        BY <1>0, <1>1, <1>2
      <4> QED BY <4>1, <4>2 DEF Previewed!With
    <3>3. ASSUME plan'.lost = 0
          PROVE  \A m \in Previewed!Wanted(h) : plan.k <= m
      <4>1. plan.lost = 0
        BY <1>1, <1>5, <1>7, <2>1, <3>3
      <4>2. Tries(h) = {}
        BY <2>0, <4>1, FS_EmptySet
      <4> QED BY <1>1, <2>0, <4>2
    <3>4. TakenBySwitch(h)'
      BY <2>0, <3>1, <3>2, <3>3 DEF TakenBySwitch, Lone
    <3> QED BY <3>2, <3>4
  <2>2. CASE ~ok
    <3>1. h \notin DOMAIN plan'.behind /\ plan'.links = plan.links /\ plan'.lost = plan.lost + 1
      BY <1>1, <1>5, <1>7, <2>2
    <3>2. Tries(h)' = Tries(h) \cup {plan.k}
      BY <1>1, <1>7, <1>10, <2>0 DEF Tries
    <3>3. /\ Cardinality(Tries(h) \cup {plan.k}) <= Cardinality(Tries(h)) + 1
          /\ Cardinality(Tries(h) \cup {plan.k}) \in Nat
      <4>1. PICK T, k : T = Tries(h) /\ k = plan.k
        OBVIOUS
      <4>2. IsFiniteSet(T) /\ Cardinality(T) \in Nat
        BY <2>0, <4>1
      <4>3. /\ IsFiniteSet(T \cup {k})
            /\ Cardinality(T \cup {k}) = IF k \in T THEN Cardinality(T) ELSE Cardinality(T) + 1
        BY <4>2, FS_AddElement
      <4> QED BY <4>1, <4>2, <4>3
    <3>5. plan'.lost >= Cardinality(Tries(h))'
      BY <1>1, <2>0, <3>1, <3>2, <3>3
    <3>6. Previewed!LinksOf(h)' = {} /\ ~Treated(h)'
      BY <1>4, <1>7, <3>1 DEF Previewed!LinksOf, Treated
    <3> QED BY <3>1, <3>5, <3>6 DEF LeftToRouter
  <2> QED BY <2>1, <2>2
<1>14. PreviewHosts'
  BY <1>1, <1>7, <1>12, <1>13 DEF PreviewHosts
<1> QED BY <1>8, <1>9, <1>11, <1>14 DEF PreviewInv

LEMMA PreviewSkipsDirect ==
  ASSUME PreviewRequest, PreviewInv, Previewed!SkipsDirect
  PROVE  PreviewInv'
<1>0. PICK x \in plan.left : ~Previewed!Direct(x) /\ plan' = [plan EXCEPT !.left = plan.left \ {x}]
  BY DEF Previewed!SkipsDirect
<1>1. plan.pc = "direct" /\ req' = req /\ plan.lost \in Nat
  BY DEF Previewed!SkipsDirect, PreviewInv, PreviewShape
<1>2. /\ PreviewRecord(plan)' /\ plan'.pc = "direct" /\ plan'.k = plan.k /\ plan'.i = plan.i
      /\ plan'.links = plan.links /\ plan'.lost = plan.lost /\ plan'.next = plan.next
      /\ plan'.behind = plan.behind /\ plan'.address = plan.address /\ plan'.left = plan.left \ {x}
  BY <1>0, <1>1 DEF PreviewInv, PreviewShape, PreviewRecord
<1>3. PreviewShape'
  BY <1>1, <1>2 DEF PreviewInv, PreviewShape
<1>4. PreviewPorts'
  BY <1>1, <1>2, PreviewSame
<1>5. PreviewTurns'
  BY <1>1, <1>2 DEF PreviewInv, PreviewTurns
<1>6. ASSUME NEW h \in req.hosts
      PROVE  IF h \in DOMAIN plan'.behind THEN TakenBySwitch(h)' ELSE LeftToRouter(h)'
  <2>1. Previewed!LinksOf(h)' = Previewed!LinksOf(h) /\ Tries(h)' = Tries(h)
    BY <1>1, <1>2 DEF Previewed!LinksOf, Tries, Previewed!Wanted
  <2>2. h \notin DOMAIN plan.behind /\ Homed(h) => Treated(h)' = Treated(h)
    BY <1>0, <1>1, <1>2, <1>6 DEF Treated, Homed, Previewed!Direct
  <2> QED BY <1>1, <1>2, <2>1, <2>2, PreviewHostKept
<1>7. PreviewHosts'
  BY <1>1, <1>2, <1>6 DEF PreviewHosts
<1> QED BY <1>3, <1>4, <1>5, <1>7 DEF PreviewInv

LEMMA PreviewAttachesDirect ==
  ASSUME PreviewRequest, PreviewInv, Previewed!AttachesDirect
  PROVE  PreviewInv'
<1>0. PICK h \in plan.left :
        /\ Previewed!Direct(h)
        /\ \E ok \in Previewed!Answers(h, req.home[h]) :
             plan' = [Previewed!Added(h, plan.next[h], req.home[h], plan.next[req.home[h]], 0, ok)
                       EXCEPT !.left = @ \ {h}, !.next[h] = @ + 1, !.next[req.home[h]] = @ + 1,
                              !.address = Previewed!With(@, h, 0)]
  BY DEF Previewed!AttachesDirect
<1>1. PICK r, i, j : r = req.home[h] /\ i = plan.next[h] /\ j = plan.next[r]
  OBVIOUS
<1>2. PICK ok \in BOOLEAN :
        plan' = [Previewed!Added(h, i, r, j, 0, ok)
                  EXCEPT !.left = @ \ {h}, !.next[h] = @ + 1, !.next[r] = @ + 1,
                         !.address = Previewed!With(@, h, 0)]
  BY <1>0, <1>1 DEF Previewed!Answers
<1>3. /\ plan.pc = "direct" /\ req' = req /\ plan.lost \in Nat /\ plan.k \in Nat \ {0} /\ plan.i \in Nat \ {0}
      /\ plan.next \in [Previewed!Nodes -> Nat] /\ h \in DOMAIN req.home
      /\ h \notin DOMAIN plan.behind /\ h \in req.hosts /\ r \in req.routers
  BY <1>0, <1>1 DEF Previewed!AttachesDirect, PreviewInv, PreviewShape, PreviewPorts, PreviewTurns, Previewed!Direct
<1>4. /\ h \in Outer /\ r \in Outer /\ h # r /\ h \in Previewed!Nodes /\ r \in Previewed!Nodes
      /\ i \in Nat /\ j \in Nat
  <2>1. h \in Outer /\ r \in Outer /\ h # r
    BY <1>3 DEF Outer, PreviewRequest
  <2>2. h \in Previewed!Nodes /\ r \in Previewed!Nodes
    BY <2>1, PreviewSizes
  <2> QED BY <1>1, <1>3, <2>1, <2>2
<1>5. Homed(h) /\ ~Treated(h) /\ LeftToRouter(h) /\ Previewed!LinksOf(h) = {}
  <2>1. Homed(h) /\ ~Treated(h)
    BY <1>0, <1>1, <1>3 DEF Homed, Treated
  <2>2. LeftToRouter(h)
    BY <1>3 DEF PreviewInv, PreviewHosts
  <2> QED BY <2>1, <2>2 DEF LeftToRouter
<1> DEFINE q == Previewed!Added(h, i, r, j, 0, ok)
<1>6. /\ PreviewRecord(q) /\ q.pc = plan.pc /\ q.k = plan.k /\ q.i = plan.i
      /\ q.next = plan.next /\ q.behind = plan.behind /\ q.address = plan.address
      /\ q.left = plan.left
      /\ q.links = plan.links \cup IF ok THEN {[ports |-> Previewed!Ports(h, i, r, j), subnet |-> 0]} ELSE {}
      /\ q.lost = plan.lost + IF ok THEN 0 ELSE 1
      /\ q.lost \in Nat /\ q.lost >= plan.lost
  <2>1. PreviewRecord(plan)
    BY DEF PreviewInv, PreviewShape
  <2>2. ~Previewed!Linked(h, r)
    BY <1>5, PreviewAnswers
  <2> QED BY <1>3, <2>1, <2>2, PreviewAdded
<1>7. PICK n, a : /\ n = [[plan.next EXCEPT ![h] = i + 1] EXCEPT ![r] = j + 1]
                  /\ a = Previewed!With(plan.address, h, 0)
  OBVIOUS
<1>8. plan' = [q EXCEPT !.left = plan.left \ {h}, !.next = n, !.address = a]
  <2>1. plan' = [q EXCEPT !.left = @ \ {h}, !.next[h] = @ + 1, !.next[r] = @ + 1,
                         !.address = Previewed!With(@, h, 0)]
    BY <1>2
  <2> HIDE DEF q
  <2>2. [plan.next EXCEPT ![h] = i + 1][r] = j
    BY <1>1, <1>3, <1>4
  <2>3. q.next[h] = i /\ [q.next EXCEPT ![h] = i + 1][r] = j
    BY <1>1, <1>6, <2>2
  <2>4. PICK p : p = [q EXCEPT !.left = plan.left \ {h}]
    OBVIOUS
  <2>5. /\ PreviewRecord(p) /\ p.next = plan.next /\ p.left = plan.left \ {h} /\ p.address = plan.address
    BY <1>6, <2>4 DEF PreviewRecord
  <2>6. PICK t : t = [p EXCEPT !.next = [plan.next EXCEPT ![h] = i + 1]]
    OBVIOUS
  <2>7. PreviewRecord(t) /\ t.next = [plan.next EXCEPT ![h] = i + 1] /\ t.address = plan.address
    BY <2>5, <2>6 DEF PreviewRecord
  <2>8. plan' = [[t EXCEPT !.next = n] EXCEPT !.address = a]
    BY <1>1, <1>6, <1>7, <2>1, <2>2, <2>4, <2>5, <2>6, <2>7
  <2> QED BY <2>4, <2>6, <2>8
<1> HIDE DEF q
<1>9. /\ PreviewRecord(plan)' /\ plan'.pc = plan.pc /\ plan'.k = plan.k /\ plan'.i = plan.i
      /\ plan'.left = plan.left \ {h} /\ plan'.links = q.links /\ plan'.lost = q.lost
      /\ plan'.next = n /\ plan'.behind = plan.behind /\ plan'.address = a
  BY <1>6, <1>8 DEF PreviewRecord
<1>10. PreviewShape'
  BY <1>3, <1>6, <1>9 DEF PreviewShape
<1>11. /\ plan'.next \in [Previewed!Nodes -> Nat] /\ i < plan'.next[h] /\ j < plan'.next[r]
       /\ \A v \in Previewed!Nodes : plan'.next[v] >= plan.next[v]
  BY <1>1, <1>3, <1>4, <1>7, <1>9
<1>12. PreviewPorts'
  <2>1. CASE ok
    <3>1. plan'.links = plan.links \cup {[ports |-> Previewed!Ports(h, i, r, j), subnet |-> 0]}
      BY <1>6, <1>9, <2>1
    <3>2. LinkAdds(h, i, r, j, 0)
      BY <1>1, <1>4, <1>11, <3>1 DEF LinkAdds
    <3> QED BY <1>3, <3>2, PreviewLinks
  <2>2. CASE ~ok
    <3>1. plan'.links = plan.links
      BY <1>6, <1>9, <2>2
    <3> QED BY <1>3, <1>11, <3>1, PreviewSpends
  <2> QED BY <2>1, <2>2
<1>13. PreviewTurns'
  BY <1>3, <1>9 DEF PreviewInv, PreviewTurns
<1>14. ASSUME NEW g \in req.hosts, g # h
       PROVE  IF g \in DOMAIN plan'.behind THEN TakenBySwitch(g)' ELSE LeftToRouter(g)'
  <2>1. g \in DOMAIN plan.address => g \in DOMAIN plan'.address /\ plan'.address[g] = plan.address[g]
    BY <1>7, <1>9, <1>14 DEF Previewed!With
  <2>2. Previewed!LinksOf(g)' = Previewed!LinksOf(g)
    <3>1. plan'.links = plan.links \cup IF ok THEN {[ports |-> Previewed!Ports(h, i, r, j), subnet |-> 0]} ELSE {}
      BY <1>6, <1>9
    <3>2. g # r
      BY <1>3 DEF PreviewRequest
    <3>3. DOMAIN Previewed!Ports(h, i, r, j) = {h, r}
      BY DEF Previewed!Ports
    <3> QED BY <1>14, <3>1, <3>2, <3>3 DEF Previewed!LinksOf, Previewed!Ends
  <2>3. Tries(g)' = Tries(g) /\ Treated(g)' = Treated(g)
    BY <1>3, <1>9, <1>14 DEF Tries, Treated, Previewed!Wanted
  <2> QED BY <1>3, <1>6, <1>9, <2>1, <2>2, <2>3, PreviewHostKept
<1>15. LeftToRouter(h)'
  <2>1. /\ Tries(h)' = Tries(h) /\ Homed(h)' /\ Cardinality(Tries(h)) \in Nat
        /\ plan.lost >= Cardinality(Tries(h)) /\ Treated(h)'
    <3>1. Tries(h)' = Tries(h)
      BY <1>3, <1>9 DEF Tries, Previewed!Wanted
    <3>2. Homed(h)' /\ Treated(h)'
      BY <1>1, <1>3, <1>9 DEF Homed, Treated
    <3>3. plan.lost >= Cardinality(Tries(h))
      BY <1>5 DEF LeftToRouter
    <3> QED BY <3>1, <3>2, <3>3, WantedFinite
  <2>2. CASE ok
    <3>1. /\ plan'.links = plan.links \cup {[ports |-> Previewed!Ports(h, i, r, j), subnet |-> 0]}
          /\ plan'.address = Previewed!With(plan.address, h, 0)
      BY <1>6, <1>7, <1>9, <2>2
    <3>2. Lone(h, r)'
      BY <1>5, <3>1, PreviewFirstLink
    <3>3. plan'.lost = plan.lost /\ r = req'.home[h]
      BY <1>1, <1>3, <1>6, <1>9, <2>2
    <3>4. plan'.lost >= Cardinality(Tries(h))'
      BY <2>1, <3>3
    <3>5. PICK l \in plan'.links :
            /\ Previewed!LinksOf(h)' = {l} /\ DOMAIN l.ports = {h, r}
            /\ h \in DOMAIN plan'.address /\ plan'.address[h] = l.subnet
      BY <3>2 DEF Lone
    <3>6. Lone(h, req.home[h])'
      BY <3>3, <3>5 DEF Lone
    <3> QED BY <2>1, <3>4, <3>6 DEF LeftToRouter
  <2>3. CASE ~ok
    <3>1. plan'.links = plan.links /\ plan'.lost = plan.lost + 1
      BY <1>3, <1>6, <1>9, <2>3
    <3>2. Previewed!LinksOf(h)' = {}
      BY <1>5, <3>1 DEF Previewed!LinksOf
    <3>3. plan'.lost >= Cardinality(Tries(h))' + 1 /\ plan'.lost >= Cardinality(Tries(h))'
      BY <1>3, <2>1, <3>1
    <3> QED BY <2>1, <3>2, <3>3 DEF LeftToRouter
  <2> QED BY <2>2, <2>3
<1>16. PreviewHosts'
  BY <1>3, <1>9, <1>14, <1>15 DEF PreviewHosts
<1> QED BY <1>10, <1>12, <1>13, <1>16 DEF PreviewInv

LEMMA PreviewLinksRouters ==
  ASSUME PreviewRequest, PreviewInv, Previewed!LinksRouters
  PROVE  PreviewInv'
<1>1. PICK a, b, i, j, m : /\ a = req.edges[plan.k][1] /\ b = req.edges[plan.k][2]
                           /\ i = plan.next[a] /\ j = plan.next[b] /\ m = plan.k
  OBVIOUS
<1>2. /\ plan.pc = "direct" /\ req' = req /\ plan.lost \in Nat /\ plan.k \in Nat \ {0} /\ plan.i \in Nat \ {0}
      /\ plan.next \in [Previewed!Nodes -> Nat] /\ plan.k <= Len(req.edges)
  BY DEF Previewed!LinksRouters, PreviewInv, PreviewShape, PreviewPorts
<1>3. \A h \in req.hosts : Tries(h)' = Tries(h) \/ plan'.pc # plan.pc
  BY <1>2 DEF Tries, Previewed!Wanted
<1>4. CASE ~({a, b} \subseteq req.routers)
  <2>1. plan' = [plan EXCEPT !.k = m + 1]
    BY <1>1, <1>4 DEF Previewed!LinksRouters
  <2>2. /\ PreviewRecord(plan)' /\ plan'.pc = plan.pc /\ plan'.k = plan.k + 1 /\ plan'.i = plan.i
        /\ plan'.links = plan.links /\ plan'.lost = plan.lost /\ plan'.next = plan.next
        /\ plan'.behind = plan.behind /\ plan'.address = plan.address /\ plan'.left = plan.left
    BY <1>1, <1>2, <2>1 DEF PreviewInv, PreviewShape, PreviewRecord
  <2>3. PreviewShape'
    BY <1>2, <2>2 DEF PreviewShape
  <2>4. PreviewPorts'
    BY <1>2, <2>2, PreviewSame
  <2>5. PreviewTurns'
    BY <1>2, <2>2 DEF PreviewInv, PreviewTurns
  <2>6. \A h \in req.hosts : Treated(h)' = Treated(h) /\ Previewed!LinksOf(h)' = Previewed!LinksOf(h)
    BY <1>2, <2>2 DEF Treated, Previewed!LinksOf
  <2>7. \A h \in req.hosts : IF h \in DOMAIN plan'.behind THEN TakenBySwitch(h)' ELSE LeftToRouter(h)'
    BY <1>2, <1>3, <2>2, <2>6, PreviewHostKept
  <2>8. PreviewHosts'
    BY <1>2, <2>2, <2>7 DEF PreviewHosts
  <2> QED BY <2>3, <2>4, <2>5, <2>8 DEF PreviewInv
<1>5. CASE {a, b} \subseteq req.routers
  <2>1. PICK ok \in BOOLEAN :
          plan' = [Previewed!Added(a, i, b, j, m, ok)
                    EXCEPT !.k = @ + 1, !.next[a] = @ + 1, !.next[b] = @ + 1]
    BY <1>1, <1>5 DEF Previewed!LinksRouters, Previewed!Answers
  <2>2. /\ a \in Outer /\ b \in Outer /\ a # b /\ a \in Previewed!Nodes /\ b \in Previewed!Nodes
        /\ i \in Nat /\ j \in Nat /\ a \notin req.hosts /\ b \notin req.hosts
    <3>1. a \in Outer /\ b \in Outer /\ a \notin req.hosts /\ b \notin req.hosts
      BY <1>5 DEF Outer, PreviewRequest
    <3>2. a # b
      BY <1>1, <1>2 DEF PreviewRequest
    <3>3. a \in Previewed!Nodes /\ b \in Previewed!Nodes
      BY <3>1, PreviewSizes
    <3> QED BY <1>1, <1>2, <3>1, <3>2, <3>3
  <2> DEFINE q == Previewed!Added(a, i, b, j, m, ok)
  <2>3. /\ PreviewRecord(q) /\ q.pc = plan.pc /\ q.k = plan.k /\ q.i = plan.i
        /\ q.next = plan.next /\ q.behind = plan.behind /\ q.address = plan.address
        /\ q.left = plan.left
        /\ q.links = plan.links \cup IF ok THEN {[ports |-> Previewed!Ports(a, i, b, j), subnet |-> m]} ELSE {}
        /\ q.lost \in Nat /\ q.lost >= plan.lost
    <3>1. PreviewRecord(plan)
      BY DEF PreviewInv, PreviewShape
    <3> QED BY <1>2, <3>1, PreviewAdded
  <2>4. PICK n : n = [[plan.next EXCEPT ![a] = i + 1] EXCEPT ![b] = j + 1]
    OBVIOUS
  <2>5. plan' = [q EXCEPT !.k = m + 1, !.next = n]
    <3>1. plan' = [q EXCEPT !.k = @ + 1, !.next[a] = @ + 1, !.next[b] = @ + 1]
      BY <2>1
    <3> HIDE DEF q
    <3>2. [plan.next EXCEPT ![a] = i + 1][b] = j
      BY <1>1, <1>2, <2>2
    <3>3. PICK p : p = [q EXCEPT !.k = m + 1]
      OBVIOUS
    <3>4. PreviewRecord(p) /\ p.next = plan.next
      BY <2>3, <3>3 DEF PreviewRecord
    <3>5. PICK t : t = [p EXCEPT !.next = [plan.next EXCEPT ![a] = i + 1]]
      OBVIOUS
    <3>6. PreviewRecord(t) /\ t.next = [plan.next EXCEPT ![a] = i + 1]
      BY <3>4, <3>5 DEF PreviewRecord
    <3>7. plan' = [t EXCEPT !.next = n]
      BY <1>1, <2>3, <2>4, <3>1, <3>2, <3>3, <3>4, <3>5, <3>6
    <3> QED BY <3>3, <3>5, <3>7
  <2> HIDE DEF q
  <2>6. /\ PreviewRecord(plan)' /\ plan'.pc = plan.pc /\ plan'.k = plan.k + 1 /\ plan'.i = plan.i
        /\ plan'.links = q.links /\ plan'.lost = q.lost /\ plan'.next = n
        /\ plan'.behind = plan.behind /\ plan'.address = plan.address /\ plan'.left = plan.left
    BY <1>1, <2>3, <2>5 DEF PreviewRecord
  <2>7. PreviewShape'
    BY <1>2, <2>3, <2>6 DEF PreviewShape
  <2>8. /\ plan'.next \in [Previewed!Nodes -> Nat] /\ i < plan'.next[a] /\ j < plan'.next[b]
        /\ \A v \in Previewed!Nodes : plan'.next[v] >= plan.next[v]
    <3>1. /\ plan.next \in [Previewed!Nodes -> Nat] /\ i = plan.next[a] /\ j = plan.next[b]
          /\ plan'.next = [[plan.next EXCEPT ![a] = i + 1] EXCEPT ![b] = j + 1]
          /\ a \in Previewed!Nodes /\ b \in Previewed!Nodes /\ i \in Nat /\ j \in Nat /\ a # b
      BY <1>1, <1>2, <2>2, <2>4, <2>6
    <3> QED BY <3>1
  <2>9. PreviewPorts'
    <3>1. CASE ok
      <4>1. plan'.links = plan.links \cup {[ports |-> Previewed!Ports(a, i, b, j), subnet |-> m]}
        BY <2>3, <2>6, <3>1
      <4>2. LinkAdds(a, i, b, j, m)
        <5>1. i = plan.next[a] /\ j = plan.next[b]
          BY <1>1
        <5> QED BY <2>2, <2>8, <4>1, <5>1 DEF LinkAdds
      <4> QED BY <1>2, <4>2, PreviewLinks
    <3>2. CASE ~ok
      <4>1. plan'.links = plan.links
        BY <2>3, <2>6, <3>2
      <4> QED BY <1>2, <2>8, <4>1, PreviewSpends
    <3> QED BY <3>1, <3>2
  <2>10. PreviewTurns'
    BY <1>2, <2>6 DEF PreviewInv, PreviewTurns
  <2>11. \A h \in req.hosts : Treated(h)' = Treated(h) /\ Previewed!LinksOf(h)' = Previewed!LinksOf(h)
    <3>1. plan'.links = plan.links \cup IF ok THEN {[ports |-> Previewed!Ports(a, i, b, j), subnet |-> m]} ELSE {}
      BY <2>3, <2>6
    <3>2. DOMAIN Previewed!Ports(a, i, b, j) = {a, b}
      BY DEF Previewed!Ports
    <3>3. \A h \in req.hosts : Previewed!LinksOf(h)' = Previewed!LinksOf(h)
      BY <2>2, <3>1, <3>2 DEF Previewed!LinksOf, Previewed!Ends
    <3> QED BY <1>2, <2>6, <3>3 DEF Treated
  <2>12. \A h \in req.hosts : IF h \in DOMAIN plan'.behind THEN TakenBySwitch(h)' ELSE LeftToRouter(h)'
    BY <1>2, <1>3, <2>3, <2>6, <2>11, PreviewHostKept
  <2>13. PreviewHosts'
    BY <1>2, <2>6, <2>12 DEF PreviewHosts
  <2> QED BY <2>7, <2>9, <2>10, <2>13 DEF PreviewInv
<1> QED BY <1>4, <1>5

LEMMA PreviewEndsLinks ==
  ASSUME PreviewRequest, PreviewInv, Previewed!EndsLinks
  PROVE  PreviewInv'
<1>1. plan.pc = "direct" /\ plan.left = {} /\ req' = req /\ plan.lost \in Nat
  BY DEF Previewed!EndsLinks, PreviewInv, PreviewShape
<1>2. /\ PreviewRecord(plan)' /\ plan'.pc = "done" /\ plan'.k = plan.k /\ plan'.i = plan.i
      /\ plan'.links = plan.links /\ plan'.lost = plan.lost /\ plan'.next = plan.next
      /\ plan'.behind = plan.behind /\ plan'.address = plan.address /\ plan'.left = plan.left
  BY DEF Previewed!EndsLinks, PreviewInv, PreviewShape, PreviewRecord
<1>3. PreviewShape'
  BY <1>1, <1>2 DEF PreviewInv, PreviewShape
<1>4. PreviewPorts'
  BY <1>1, <1>2, PreviewSame
<1>5. PreviewTurns'
  BY <1>1, <1>2 DEF PreviewTurns
<1>6. \A h \in req.hosts : /\ Tries(h)' = Tries(h) /\ Treated(h)' = Treated(h)
                           /\ Previewed!LinksOf(h)' = Previewed!LinksOf(h)
  BY <1>1, <1>2 DEF Tries, Treated, Previewed!LinksOf, Previewed!Wanted
<1>7. \A h \in req.hosts : IF h \in DOMAIN plan'.behind THEN TakenBySwitch(h)' ELSE LeftToRouter(h)'
  BY <1>1, <1>2, <1>6, PreviewHostKept
<1>8. PreviewHosts'
  BY <1>1, <1>2, <1>7 DEF PreviewHosts
<1> QED BY <1>3, <1>4, <1>5, <1>8 DEF PreviewInv

LEMMA PreviewStep ==
  ASSUME PreviewRequest, PreviewInv, Previewed!Next
  PROVE  PreviewInv' /\ req' = req
<1>1. PreviewInv'
  BY PreviewSkipsSwitch, PreviewLinksSwitch, PreviewSkipsHost, PreviewAttachesHost,
     PreviewEndsSwitch, PreviewEndsSwitches, PreviewSkipsDirect, PreviewAttachesDirect,
     PreviewLinksRouters, PreviewEndsLinks DEF Previewed!Next
<1>2. req' = req
  BY DEF Previewed!Next, Previewed!SkipsSwitch, Previewed!LinksSwitch, Previewed!SkipsHost,
         Previewed!AttachesHost, Previewed!EndsSwitch, Previewed!EndsSwitches, Previewed!SkipsDirect,
         Previewed!AttachesDirect, Previewed!LinksRouters, Previewed!EndsLinks
<1> QED BY <1>1, <1>2

LEMMA PreviewWaits ==
  ASSUME PreviewRequest, PreviewInv, UNCHANGED <<req, plan>>
  PROVE  PreviewRequest' /\ PreviewInv'
<1>1. PreviewRequest' /\ PreviewShape'
  BY DEF PreviewInv, PreviewRequest, Outer, PreviewShape, PreviewRecord
<1>2. PreviewPorts'
  BY PreviewSame
<1>3. PreviewTurns'
  <2>1. Seen' = Seen /\ Previewed!Detail' = Previewed!Detail
    BY DEF Seen, Previewed!Before, Previewed!Detail
  <2> QED BY <2>1 DEF PreviewInv, PreviewTurns
<1>4. \A h \in req.hosts : /\ Tries(h)' = Tries(h) /\ Treated(h)' = Treated(h)
                           /\ Previewed!LinksOf(h)' = Previewed!LinksOf(h)
  BY DEF Tries, Treated, Previewed!LinksOf, Previewed!Wanted, Seen, Previewed!Before, Previewed!Detail
<1>5. plan.lost \in Nat /\ plan'.lost >= plan.lost
  BY DEF PreviewInv, PreviewShape
<1>6. \A h \in req.hosts : IF h \in DOMAIN plan'.behind THEN TakenBySwitch(h)' ELSE LeftToRouter(h)'
  BY <1>4, <1>5, PreviewHostKept
<1>7. PreviewHosts'
  BY <1>6 DEF PreviewInv, PreviewHosts
<1> QED BY <1>1, <1>2, <1>3, <1>7 DEF PreviewInv

LEMMA PreviewPromises ==
  ASSUME PreviewRequest, PreviewInv
  PROVE  Previewed!InterfacesDistinct /\ Previewed!HostsRealized
<1>1. Previewed!InterfacesDistinct
  BY DEF PreviewInv, PreviewPorts, Previewed!InterfacesDistinct, Previewed!Ends
<1>2. ASSUME NEW h \in req.hosts
      PROVE  /\ Cardinality(Previewed!LinksOf(h)) <= 1
             /\ \A l \in Previewed!LinksOf(h) : plan.address[h] = l.subnet
             /\ plan.pc = "done" =>
                  /\ plan.lost = 0 =>
                       \A k \in Previewed!Wanted(h) :
                         (\A j \in Previewed!Wanted(h) : k <= j) =>
                           \E l \in Previewed!LinksOf(h) : req.switches[k].switch \in DOMAIN l.ports
                  /\ plan.lost = 0 /\ Previewed!Wanted(h) = {} /\ Homed(h) =>
                       \E l \in Previewed!LinksOf(h) : req.home[h] \in DOMAIN l.ports
                  /\ Homed(h) /\ plan.lost <= Cardinality(Previewed!Wanted(h)) => Previewed!LinksOf(h) # {}
  <2>1. \A v : Lone(h, v) => /\ Cardinality(Previewed!LinksOf(h)) = 1
                             /\ \E l \in Previewed!LinksOf(h) : DOMAIN l.ports = {h, v}
                             /\ \A l \in Previewed!LinksOf(h) : plan.address[h] = l.subnet
    BY FS_Singleton DEF Lone
  <2>2. CASE h \in DOMAIN plan.behind
    <3>1. TakenBySwitch(h)
      BY <2>2 DEF PreviewInv, PreviewHosts
    <3>2. Previewed!Wanted(h) \subseteq Nat
      BY PreviewSizes DEF Previewed!Wanted
    <3>3. PICK j \in Previewed!Wanted(h) :
            /\ plan.behind[h] = req.switches[j].switch
            /\ plan.lost = 0 => \A m \in Previewed!Wanted(h) : j <= m
      BY <3>1 DEF TakenBySwitch
    <3>4. Lone(h, req.switches[j].switch)
      BY <3>1, <3>3 DEF TakenBySwitch
    <3>5. plan.lost = 0 => \A k \in Previewed!Wanted(h) : (\A m \in Previewed!Wanted(h) : k <= m) => k = j
      BY <3>2, <3>3
    <3>6. PICK l \in Previewed!LinksOf(h) : DOMAIN l.ports = {h, req.switches[j].switch}
      BY <2>1, <3>4
    <3>7. /\ Cardinality(Previewed!LinksOf(h)) = 1
          /\ \A n \in Previewed!LinksOf(h) : plan.address[h] = n.subnet
      BY <2>1, <3>4
    <3> QED BY <3>3, <3>5, <3>6, <3>7
  <2>3. CASE h \notin DOMAIN plan.behind
    <3>1. LeftToRouter(h) /\ Cardinality(Previewed!Wanted(h)) \in Nat /\ IsFiniteSet(Previewed!Wanted(h))
          /\ plan.lost \in Nat
      BY <2>3, WantedFinite DEF PreviewInv, PreviewHosts, PreviewShape
    <3>2. plan.pc = "done" => Tries(h) = Previewed!Wanted(h) /\ Treated(h)
      BY DEF Tries, Treated, PreviewInv, PreviewHosts
    <3>3. plan.pc = "done" /\ plan.lost = 0 => Previewed!Wanted(h) = {}
      <4>1. plan.pc = "done" /\ plan.lost = 0 => Cardinality(Previewed!Wanted(h)) = 0
        BY <3>1, <3>2 DEF LeftToRouter
      <4> QED BY <3>1, <4>1, FS_EmptySet
    <3>4. CASE Previewed!LinksOf(h) = {}
      <4>1. Cardinality(Previewed!LinksOf(h)) = 0
        BY <3>4, FS_EmptySet
      <4>2. ~Lone(h, req.home[h])
        BY <3>4 DEF Lone
      <4>3. plan.pc = "done" /\ Homed(h) => plan.lost >= Cardinality(Previewed!Wanted(h)) + 1
        BY <3>1, <3>2, <4>2 DEF LeftToRouter
      <4> QED BY <3>1, <3>3, <3>4, <4>1, <4>3
    <3>5. CASE Previewed!LinksOf(h) # {}
      <4>1. Homed(h) /\ Lone(h, req.home[h])
        BY <3>1, <3>5 DEF LeftToRouter
      <4> QED BY <2>1, <3>3, <3>5, <4>1
    <3> QED BY <3>4, <3>5
  <2> QED BY <2>2, <2>3
<1>3. Previewed!HostsRealized
  BY <1>2, PreviewCardinality DEF Previewed!HostsRealized, Previewed!Ends, Homed
<1> QED BY <1>1, <1>3

\* No interface is used twice however calls fail, and every host of a preview is behind the
\* switch or the router that the plan gives it unless a call for it has failed.
THEOREM PreviewCorrect ==
  PreviewRequest /\ Previewed!Spec => [](Previewed!InterfacesDistinct /\ Previewed!HostsRealized)
<1>1. PreviewRequest /\ Previewed!Init => PreviewRequest /\ PreviewInv
  BY PreviewBegins DEF Previewed!Init
<1>2. PreviewRequest /\ PreviewInv /\ [Previewed!Next]_Previewed!vars => (PreviewRequest /\ PreviewInv)'
  <2>1. PreviewRequest /\ req' = req => PreviewRequest'
    BY DEF PreviewRequest, Outer
  <2> QED BY <2>1, PreviewStep, PreviewWaits DEF Previewed!vars
<1>3. PreviewRequest /\ PreviewInv => Previewed!InterfacesDistinct /\ Previewed!HostsRealized
  BY PreviewPromises
<1> QED BY <1>1, <1>2, <1>3, PTL DEF Previewed!Spec

-----------------------------------------------------------------------------
(* Topologies that are built without a preview *)

BuiltRequest ==
  /\ req.routers \in Nat
  /\ req.roles \in Seq({"host", "device"})
  /\ req.slots \subseteq Nat \ {0}
  /\ req.edges \in Seq({e \in Built!Routers \X Built!Routers : e[1] # e[2]})
  /\ req.extra \in Seq({e \in Built!Routers \X Built!Routers : e[1] # e[2]})

BuiltRecord(p) ==
  p = [pc |-> p.pc, links |-> p.links, pairs |-> p.pairs, lost |-> p.lost, next |-> p.next,
       deal |-> p.deal, home |-> p.home, direct |-> p.direct, slot |-> p.slot,
       docker |-> p.docker, switches |-> p.switches, lans |-> p.lans, k |-> p.k, i |-> p.i,
       left |-> p.left, counter |-> p.counter]

\* The last id of a host, the hosts there are, and the stages after those of the switches.
Base == req.routers + Built!Hosts
Given == DOMAIN plan.home
Late == {"lan", "move", "enrich", "done"}

BuiltShape ==
  /\ BuiltRecord(plan)
  /\ plan.pc \in {"start", "star", "routers", "hosts", "raised", "group", "switch"} \cup Late
  /\ plan.k \in Nat \ {0} /\ plan.i \in Nat /\ plan.lost \in Nat /\ plan.counter \in Nat

\* Nodes take their ids in order: the routers, the hosts, the switches.
BuiltIds ==
  /\ \A h \in Given : /\ h \in (req.routers + 1)..Base /\ h < plan.counter
                      /\ plan.home[h] \in Built!Routers
  /\ plan.pc \in {"start", "routers"} => plan.counter = req.routers + 1
  /\ plan.pc = "hosts" =>
       /\ plan.counter = req.routers + plan.k /\ plan.k <= Built!Hosts + 1
       /\ plan.deal \in [1..Built!Hosts -> Built!Routers]
  /\ plan.pc \in {"group", "switch"} => plan.counter = Base + 1
  /\ plan.pc \in Late => plan.counter = Base + Len(plan.switches) + Len(plan.lans) + 1
  /\ plan.pc = "switch" =>
       plan.k <= Len(plan.switches) + 1 /\ (plan.k = Len(plan.switches) + 1 => plan.i = 0)

Drawn == [id : Nat, router : Nat, hosts : SUBSET Nat]

BuiltSwitches ==
  /\ plan.switches \in Seq(Drawn) /\ plan.lans \in Seq(Drawn)
  /\ \A m \in DOMAIN plan.switches :
       LET s == plan.switches[m] IN
       /\ s.id = Base + m /\ s.router \in Built!Routers
       /\ s.hosts \subseteq Built!HostsOf(s.router)
       /\ plan.pc = "group" => s.router < plan.k
  /\ \A m, n \in DOMAIN plan.switches :
       m # n => plan.switches[m].hosts \cap plan.switches[n].hosts = {}
  /\ \A m \in DOMAIN plan.lans :
       /\ plan.lans[m].id = Base + Len(plan.switches) + m
       /\ plan.lans[m].router \in Built!Routers
  /\ plan.pc \notin {"group", "switch"} \cup Late => plan.switches = <<>>
  /\ plan.pc \notin Late => plan.lans = <<>>
  /\ plan.pc = "move" => plan.lans # <<>>

\* No link has been made of a node from this id on.
Fresh ==
  IF plan.pc = "switch" THEN Base + plan.k + IF plan.i > 0 THEN 1 ELSE 0 ELSE plan.counter
Lans == {plan.lans[m].id : m \in DOMAIN plan.lans}

BuiltPorts ==
  /\ plan.next \in [Built!Routers \cup Given -> Nat]
  /\ \A h \in Given : plan.next[h] # 0
  /\ \A p \in plan.pairs : p \subseteq 1..(Fresh - 1)
  /\ \A l \in plan.links :
       /\ DOMAIN l \in plan.pairs
       /\ \A v \in DOMAIN l : l[v] \in Nat /\ (v \in DOMAIN plan.next => l[v] < plan.next[v])
       /\ plan.pc = "switch" /\ plan.i > 0 /\ Base + plan.k \in DOMAIN l => l[Base + plan.k] < plan.i
  /\ \A l, m \in plan.links : \A v \in DOMAIN l \cap DOMAIN m :
       l[v] = m[v] => l = m \/ (v \in Lans /\ l[v] # 0)

\* The hosts that are yet to be linked to the current switch have not been.
Current == IF plan.pc = "switch" THEN Base + plan.k ELSE plan.counter - 1
BuiltLeft ==
  /\ plan.pc \notin {"switch", "move"} \/ (plan.pc = "switch" /\ plan.i = 0) => plan.left = {}
  /\ \A h \in plan.left : {h, Current} \notin plan.pairs
  /\ plan.pc = "move" =>
       \A h \in plan.left :
         /\ h \in plan.direct /\ plan.home[h] = Built!Lan.router
         /\ \A l \in Built!LinksOf(h) : DOMAIN l = {h, plan.home[h]}

\* Switches whose turn has come; their hosts are no longer linked directly, but for those
\* that are left.
Opened(m) ==
  \/ plan.pc \in Late
  \/ plan.pc = "switch" /\ (m < plan.k \/ (m = plan.k /\ plan.i > 0))

BuiltTurns ==
  /\ plan.direct \subseteq Given
  /\ plan.pc \in {"hosts", "group"} => plan.direct = Given
  /\ \A m \in DOMAIN plan.switches :
       plan.switches[m].hosts \cap plan.direct =
         IF Opened(m) THEN (IF plan.pc = "switch" /\ m = plan.k THEN plan.left ELSE {})
         ELSE plan.switches[m].hosts

\* Where a host may be linked.
Place(h, w) ==
  IF h \in plan.direct
  THEN \/ w = plan.home[h]
       \/ \E m \in DOMAIN plan.lans : w = plan.lans[m].id /\ plan.lans[m].router = plan.home[h]
  ELSE \E m \in DOMAIN plan.switches : w = plan.switches[m].id /\ h \in plan.switches[m].hosts

Placed(h) ==
  \/ Built!LinksOf(h) = {}
  \/ \E l \in plan.links : \E w : Place(h, w) /\ Built!LinksOf(h) = {l} /\ DOMAIN l = {h, w}

Uplinked(s) == \E l \in plan.links : DOMAIN l = {s.router, s.id}
Unlinked == {h \in Given : Built!LinksOf(h) = {}}

BuiltHosts ==
  /\ \A h \in Given : Placed(h)
  /\ plan.lost = 0 =>
       /\ \A m \in DOMAIN plan.switches : Opened(m) => Uplinked(plan.switches[m])
       /\ \A m \in DOMAIN plan.lans : Uplinked(plan.lans[m])
  /\ Cardinality(Unlinked) <= plan.lost

\* The slots of the plain hosts so far that are asked for are their docker nodes.
Dealt ==
  IF plan.pc \in {"start", "star", "routers"} THEN 1
  ELSE IF plan.pc = "hosts" THEN plan.k ELSE Built!Hosts + 1
PlainUntil(k) == {i \in 1..(k - 1) : req.roles[i] = "host"}

BuiltDocked ==
  /\ plan.slot = Cardinality(PlainUntil(Dealt))
  /\ DOMAIN plan.docker = req.slots \cap 1..plan.slot
  /\ \A s \in DOMAIN plan.docker : plan.docker[s] - req.routers \in PlainUntil(Dealt)
  /\ \A s, t \in DOMAIN plan.docker : plan.docker[s] = plan.docker[t] => s = t
  /\ plan.pc \in {"group", "switch"} \cup Late => req.slots \subseteq DOMAIN plan.docker
  /\ plan.pc = "raised" => req.slots \ DOMAIN plan.docker # {}

BuiltInv ==
  /\ BuiltShape /\ BuiltIds /\ BuiltSwitches /\ BuiltPorts /\ BuiltLeft
  /\ BuiltTurns /\ BuiltHosts /\ BuiltDocked

LEMMA BuiltCardinality == \A S : Built!Cardinality(S) = Cardinality(S)
BY DEF Built!Cardinality, Cardinality

LEMMA BuiltSizes ==
  ASSUME BuiltRequest
  PROVE  /\ Built!Hosts \in Nat /\ Base \in Nat /\ DOMAIN req.roles = 1..Built!Hosts
         /\ Built!Routers = 1..req.routers
<1>1. Built!Hosts \in Nat /\ DOMAIN req.roles = 1..Built!Hosts
  BY DEF BuiltRequest, Built!Hosts
<1> QED BY <1>1 DEF BuiltRequest, Base, Built!Routers

LEMMA BuiltLens ==
  ASSUME BuiltSwitches
  PROVE  /\ Len(plan.switches) \in Nat /\ DOMAIN plan.switches = 1..Len(plan.switches)
         /\ Len(plan.lans) \in Nat /\ DOMAIN plan.lans = 1..Len(plan.lans)
<1> DEFINE S == Drawn
<1>1. plan.switches \in Seq(S) /\ plan.lans \in Seq(S)
  BY DEF BuiltSwitches
<1> HIDE DEF S
<1> QED BY <1>1

LEMMA BuiltNames ==
  ASSUME req' = req
  PROVE  /\ Built!Hosts' = Built!Hosts /\ Built!Routers' = Built!Routers /\ Base' = Base
         /\ BuiltRequest' = BuiltRequest
<1>1. Built!Hosts' = Built!Hosts /\ Built!Routers' = Built!Routers
  BY DEF Built!Hosts, Built!Routers
<1> QED BY <1>1 DEF Base, BuiltRequest

\* The hosts are finitely many.
LEMMA UnlinkedFinite ==
  ASSUME BuiltRequest, BuiltIds, NEW S \in SUBSET Given
  PROVE  IsFiniteSet(S) /\ Cardinality(S) \in Nat
<1>1. req.routers \in Nat /\ Base \in Nat
  BY BuiltSizes DEF BuiltRequest
<1>2. S \in SUBSET ((req.routers + 1)..Base)
  BY DEF BuiltIds
<1>3. IsFiniteSet((req.routers + 1)..Base)
  BY <1>1, FS_Interval
<1> QED BY <1>2, <1>3, FS_Subset, FS_CardinalityType

\* A call that fails for a host adds one host at most to those without a link.
LEMMA UnlinkedCounted ==
  ASSUME BuiltRequest, BuiltIds, Cardinality(Unlinked) <= plan.lost, plan.lost \in Nat,
         NEW S, NEW n \in Nat,
         \/ S \subseteq Unlinked /\ n >= plan.lost
         \/ n = plan.lost + 1 /\ \E h : S \subseteq Unlinked \cup {h}
  PROVE  Cardinality(S) <= n
<1>1. IsFiniteSet(Unlinked) /\ Cardinality(Unlinked) \in Nat
  <2>1. Unlinked \in SUBSET Given
    BY DEF Unlinked
  <2> QED BY <2>1, UnlinkedFinite
<1>2. PICK U, c : U = Unlinked /\ c = Cardinality(U)
  OBVIOUS
<1>3. CASE S \subseteq Unlinked /\ n >= plan.lost
  <2>1. Cardinality(S) <= c /\ Cardinality(S) \in Nat
    BY <1>1, <1>2, <1>3, FS_Subset, FS_CardinalityType
  <2> QED BY <1>1, <1>2, <1>3, <2>1
<1>4. CASE n = plan.lost + 1 /\ \E h : S \subseteq Unlinked \cup {h}
  <2>1. PICK h : S \subseteq U \cup {h}
    BY <1>2, <1>4
  <2>2. IsFiniteSet(U \cup {h}) /\ Cardinality(U \cup {h}) \in Nat /\ Cardinality(U \cup {h}) <= c + 1
    <3>1. IsFiniteSet(U) /\ c \in Nat
      BY <1>1, <1>2
    <3>2. CASE h \in U
      <4>1. U \cup {h} = U
        BY <3>2
      <4> QED BY <1>2, <3>1, <4>1
    <3>3. CASE h \notin U
      BY <1>2, <3>1, <3>3, FS_AddElement
    <3> QED BY <3>2, <3>3
  <2>3. Cardinality(S) <= Cardinality(U \cup {h}) /\ Cardinality(S) \in Nat
    BY <2>1, <2>2, FS_Subset, FS_CardinalityType
  <2> QED BY <1>1, <1>2, <1>4, <2>2, <2>3
<1> QED BY <1>3, <1>4

-----------------------------------------------------------------------------
(* A link that is made by interfaces that are spent for it, the first of them of a router  *)
(* or a host, and the second perhaps of a switch.                                          *)
Wired(a, i, b, j) ==
  /\ a # b /\ a \in 1..(Fresh' - 1) /\ b \in 1..(Fresh' - 1) /\ i \in Nat /\ j \in Nat
  /\ \/ plan'.links \subseteq plan.links /\ plan'.pairs = plan.pairs
     \/ /\ plan'.links \subseteq plan.links \cup {Built!Ports(a, i, b, j)}
        /\ plan'.pairs = plan.pairs \cup {{a, b}}
  /\ \A l \in plan.links : a \in DOMAIN l => l[a] # i
  /\ \A l \in plan.links : b \in DOMAIN l => l[b] # j \/ (b \in Lans' /\ j # 0)

Spends(a, i, b, j) ==
  /\ Fresh \in Nat /\ Fresh' \in Nat /\ Fresh <= Fresh' /\ Lans \subseteq Lans'
  /\ plan'.next \in [Built!Routers \cup Given' -> Nat]
  /\ \A h \in Given' : plan'.next[h] # 0
  /\ \A v \in DOMAIN plan'.next :
       v < Fresh => v \in DOMAIN plan.next /\ plan'.next[v] >= plan.next[v]
  /\ a \in DOMAIN plan'.next => i < plan'.next[a]
  /\ b \in DOMAIN plan'.next => j < plan'.next[b]
  /\ plan'.pc = "switch" /\ plan'.i > 0 =>
       /\ \A l \in plan.links : Base + plan'.k \in DOMAIN l => l[Base + plan'.k] < plan'.i
       /\ a = Base + plan'.k => i < plan'.i
       /\ b = Base + plan'.k => j < plan'.i

LEMMA BuiltWires ==
  ASSUME req' = req, BuiltPorts, plan.next \in [Built!Routers \cup Given -> Nat],
         NEW a, NEW i, NEW b, NEW j, Wired(a, i, b, j), Spends(a, i, b, j)
  PROVE  BuiltPorts'
<1> DEFINE new == Built!Ports(a, i, b, j)
<1>0. Built!Routers' = Built!Routers /\ Base' = Base
  BY BuiltNames
<1>1. /\ a # b /\ a \in 1..(Fresh' - 1) /\ b \in 1..(Fresh' - 1) /\ i \in Nat /\ j \in Nat
      /\ \/ plan'.links \subseteq plan.links /\ plan'.pairs = plan.pairs
         \/ plan'.links \subseteq plan.links \cup {new} /\ plan'.pairs = plan.pairs \cup {{a, b}}
      /\ \A l \in plan.links : a \in DOMAIN l => l[a] # i
      /\ \A l \in plan.links : b \in DOMAIN l => l[b] # j \/ (b \in Lans' /\ j # 0)
  BY DEF Wired
<1>2. DOMAIN new = {a, b} /\ new[a] = i /\ new[b] = j
  BY <1>1 DEF Built!Ports
<1> HIDE DEF new
<1>3. \A p \in plan.pairs : p \subseteq 1..(Fresh' - 1)
  <2>1. Fresh \in Nat /\ Fresh' \in Nat /\ Fresh <= Fresh'
    BY DEF Spends
  <2>2. \A p \in plan.pairs : p \subseteq 1..(Fresh - 1)
    BY DEF BuiltPorts
  <2> QED BY <2>1, <2>2
<1>4. \A p \in plan'.pairs : p \subseteq 1..(Fresh' - 1)
  BY <1>1, <1>3
<1>5. ASSUME NEW l \in plan.links
      PROVE  /\ DOMAIN l \in plan'.pairs
             /\ \A v \in DOMAIN l : l[v] \in Nat /\ (v \in DOMAIN plan'.next => l[v] < plan'.next[v])
             /\ plan'.pc = "switch" /\ plan'.i > 0 /\ Base + plan'.k \in DOMAIN l =>
                  l[Base + plan'.k] < plan'.i
  <2>1. DOMAIN l \in plan.pairs /\ DOMAIN l \subseteq 1..(Fresh - 1)
        /\ \A v \in DOMAIN l : l[v] \in Nat /\ (v \in DOMAIN plan.next => l[v] < plan.next[v])
    BY DEF BuiltPorts
  <2>2. ASSUME NEW v \in DOMAIN l, v \in DOMAIN plan'.next
        PROVE  l[v] < plan'.next[v]
    <3>1. v < Fresh
      BY <2>1 DEF Spends
    <3>2. v \in DOMAIN plan.next /\ plan'.next[v] >= plan.next[v] /\ plan'.next[v] \in Nat
      BY <2>2, <3>1 DEF Spends
    <3>3. plan.next[v] \in Nat /\ l[v] < plan.next[v] /\ l[v] \in Nat
      BY <2>1, <3>2
    <3> QED BY <3>2, <3>3
  <2> QED BY <1>1, <2>1, <2>2 DEF Spends
<1>6. new \in plan'.links \ plan.links =>
        /\ DOMAIN new \in plan'.pairs
        /\ \A v \in DOMAIN new :
             new[v] \in Nat /\ (v \in DOMAIN plan'.next => new[v] < plan'.next[v])
        /\ plan'.pc = "switch" /\ plan'.i > 0 /\ Base + plan'.k \in DOMAIN new =>
             new[Base + plan'.k] < plan'.i
  BY <1>1, <1>2 DEF Spends
<1>7. plan'.links \subseteq plan.links \cup {new}
  BY <1>1
<1>8. \A l \in plan'.links :
        /\ DOMAIN l \in plan'.pairs
        /\ \A v \in DOMAIN l : l[v] \in Nat /\ (v \in DOMAIN plan'.next => l[v] < plan'.next[v])
        /\ plan'.pc = "switch" /\ plan'.i > 0 /\ Base + plan'.k \in DOMAIN l =>
             l[Base + plan'.k] < plan'.i
  BY <1>5, <1>6, <1>7
<1>9. \A l, m \in plan.links : \A v \in DOMAIN l \cap DOMAIN m :
        l[v] = m[v] => l = m \/ (v \in Lans' /\ l[v] # 0)
  BY DEF BuiltPorts, Spends
<1>10. \A l \in plan.links : \A v \in DOMAIN l \cap DOMAIN new :
         l[v] = new[v] => v \in Lans' /\ new[v] # 0
  BY <1>1, <1>2
<1>11. \A l, m \in plan'.links : \A v \in DOMAIN l \cap DOMAIN m :
        l[v] = m[v] => l = m \/ (v \in Lans' /\ l[v] # 0)
  BY <1>7, <1>9, <1>10
<1>12. plan'.next \in [Built!Routers \cup Given' -> Nat] /\ \A h \in Given' : plan'.next[h] # 0
  BY DEF Spends
<1> QED BY <1>0, <1>4, <1>8, <1>11, <1>12 DEF BuiltPorts

\* Where nothing is linked, no interface changes.
LEMMA BuiltPortsKept ==
  ASSUME req' = req, BuiltPorts,
         plan'.links = plan.links, plan'.pairs = plan.pairs, plan'.next = plan.next,
         plan'.home = plan.home, plan'.lans = plan.lans, Fresh' = Fresh,
         plan'.pc = "switch" => plan'.i = 0
  PROVE  BuiltPorts'
<1>1. Built!Routers' = Built!Routers /\ Given' = Given /\ Lans' = Lans
  BY BuiltNames DEF Given, Lans
<1> QED BY <1>1 DEF BuiltPorts

Grows(s, t) == \A m \in DOMAIN s : m \in DOMAIN t /\ t[m] = s[m]

\* A host that a step neither links nor moves.
LEMMA PlacedKept ==
  ASSUME NEW h, Placed(h), Built!LinksOf(h)' = Built!LinksOf(h),
         plan'.home[h] = plan.home[h], h \in plan'.direct <=> h \in plan.direct,
         Grows(plan.switches, plan'.switches), Grows(plan.lans, plan'.lans)
  PROVE  Placed(h)'
<1>1. CASE Built!LinksOf(h) = {}
  BY <1>1 DEF Placed
<1>2. CASE Built!LinksOf(h) # {}
  <2>1. PICK l, w : l \in plan.links /\ Place(h, w) /\ Built!LinksOf(h) = {l} /\ DOMAIN l = {h, w}
    BY <1>2 DEF Placed
  <2>2. Place(h, w)'
    <3>1. CASE h \in plan.direct
      BY <2>1, <3>1 DEF Place, Grows
    <3>2. CASE h \notin plan.direct
      BY <2>1, <3>2 DEF Place, Grows
    <3> QED BY <3>1, <3>2
  <2>3. l \in plan'.links
    BY <2>1 DEF Built!LinksOf
  <2> QED BY <2>1, <2>2, <2>3 DEF Placed
<1> QED BY <1>1, <1>2

-----------------------------------------------------------------------------
(* Steps that go on to the next stage, or past a pair, a switch or a router *)
Passes ==
  /\ req' = req
  /\ plan'.links = plan.links /\ plan'.pairs = plan.pairs /\ plan'.lost = plan.lost
  /\ plan'.next = plan.next /\ plan'.home = plan.home /\ plan'.direct = plan.direct
  /\ plan'.switches = plan.switches /\ plan'.lans = plan.lans /\ plan'.left = plan.left
  /\ plan'.slot = plan.slot /\ plan'.docker = plan.docker
  /\ plan.left = {} /\ Fresh' = Fresh /\ (plan'.pc = "switch" => plan'.i = 0)
  /\ plan'.pc # "move" /\ (plan'.pc = "group" => plan.pc = "hosts")
  /\ plan'.pc \in {"hosts", "group"} => plan.direct = Given
  /\ plan.switches = <<>> \/ plan'.pc \in {"group", "switch"} \cup Late
  /\ plan.lans = <<>> \/ plan'.pc \in Late
  /\ \A m \in DOMAIN plan.switches : Opened(m)' <=> Opened(m)
  /\ Dealt' = Dealt
  /\ plan'.pc \in {"group", "switch"} \cup Late => req.slots \subseteq DOMAIN plan.docker
  /\ plan'.pc = "raised" => req.slots \ DOMAIN plan.docker # {}

LEMMA BuiltPasses ==
  ASSUME BuiltRequest, BuiltInv, BuiltShape', BuiltIds', Passes
  PROVE  BuiltInv'
<1>1. Given' = Given /\ Base' = Base /\ Built!Routers' = Built!Routers /\ Late' = Late
      /\ Built!Hosts' = Built!Hosts /\ req' = req
  BY BuiltNames DEF Passes, Given, Late
<1>2. BuiltSwitches'
  <2>1. \A r : Built!HostsOf(r)' = Built!HostsOf(r)
    BY DEF Passes, Built!HostsOf
  <2>2. BuiltSwitches /\ (plan'.pc = "group" => plan.switches = <<>>)
    BY DEF BuiltInv, BuiltSwitches, Passes, Late
  <2> QED BY <1>1, <2>1, <2>2 DEF Passes, BuiltSwitches
<1>3. BuiltPorts'
  BY BuiltPortsKept DEF BuiltInv, Passes
<1>4. BuiltLeft'
  BY DEF BuiltLeft, Passes
<1>5. BuiltTurns'
  <2>1. \A m \in DOMAIN plan.switches :
          plan.switches[m].hosts \cap plan.direct = IF Opened(m) THEN {} ELSE plan.switches[m].hosts
    BY DEF BuiltInv, BuiltTurns, Passes
  <2>2. plan.direct \subseteq Given
    BY DEF BuiltInv, BuiltTurns
  <2> QED BY <1>1, <2>1, <2>2 DEF BuiltTurns, Passes
<1>6. BuiltHosts'
  <2>1. \A h : Built!LinksOf(h)' = Built!LinksOf(h)
    BY DEF Built!LinksOf, Passes
  <2>2. \A h \in Given : Placed(h)'
    <3>1. \A h \in Given : Placed(h)
      BY DEF BuiltInv, BuiltHosts
    <3>2. Grows(plan.switches, plan'.switches) /\ Grows(plan.lans, plan'.lans)
      BY DEF Passes, Grows
    <3>3. plan'.home = plan.home /\ plan'.direct = plan.direct
      BY DEF Passes
    <3> QED BY <2>1, <3>1, <3>2, <3>3, PlacedKept
  <2>3. /\ \A m : Uplinked(plan.switches[m])' <=> Uplinked(plan.switches[m])
        /\ \A m : Uplinked(plan.lans[m])' <=> Uplinked(plan.lans[m])
    BY DEF Uplinked, Passes
  <2>4. Unlinked' = Unlinked
    BY <1>1, <2>1 DEF Unlinked
  <2>5. plan'.lost = plan.lost /\ Cardinality(Unlinked) <= plan.lost
    BY DEF BuiltInv, BuiltHosts, Passes
  <2>6. plan'.lost = 0 =>
       /\ \A m \in DOMAIN plan'.switches : Opened(m)' => Uplinked(plan.switches[m])'
       /\ \A m \in DOMAIN plan'.lans : Uplinked(plan.lans[m])'
    BY <2>3 DEF BuiltInv, BuiltHosts, Passes
  <2> QED BY <1>1, <2>2, <2>4, <2>5, <2>6 DEF BuiltHosts
<1>7. BuiltDocked'
  <2>1. PlainUntil(Dealt)' = PlainUntil(Dealt)
    BY DEF PlainUntil, Passes
  <2> QED BY <1>1, <2>1 DEF BuiltInv, BuiltDocked, Passes
<1> QED BY <1>2, <1>3, <1>4, <1>5, <1>6, <1>7 DEF BuiltInv

\* What such a step leaves alone.
Rests ==
  /\ BuiltRecord(plan)'
  /\ plan'.links = plan.links /\ plan'.pairs = plan.pairs /\ plan'.lost = plan.lost
  /\ plan'.next = plan.next /\ plan'.home = plan.home /\ plan'.direct = plan.direct
  /\ plan'.switches = plan.switches /\ plan'.lans = plan.lans /\ plan'.left = plan.left
  /\ plan'.slot = plan.slot /\ plan'.docker = plan.docker

LEMMA BuiltBegins ==
  ASSUME BuiltRequest, plan = Built!Begun
  PROVE  BuiltInv
<1>1. /\ BuiltRecord(plan) /\ plan.pc = "start" /\ plan.links = {} /\ plan.pairs = {}
      /\ plan.lost = 0 /\ plan.next = [r \in Built!Routers |-> 0] /\ plan.home = <<>>
      /\ plan.direct = {} /\ plan.slot = 0 /\ plan.docker = <<>> /\ plan.switches = <<>>
      /\ plan.lans = <<>> /\ plan.k = 1 /\ plan.i = 0 /\ plan.left = {}
      /\ plan.counter = req.routers + 1
  BY DEF Built!Begun, BuiltRecord
<1>2. Given = {} /\ DOMAIN <<>> = {}
  BY <1>1 DEF Given
<1>3. BuiltShape /\ BuiltIds /\ BuiltLeft /\ BuiltTurns
  BY <1>1, <1>2, BuiltSizes DEF BuiltRequest, BuiltShape, BuiltIds, BuiltLeft, BuiltTurns, Late
<1>4. BuiltSwitches
  <2> DEFINE S == Drawn
  <2>1. <<>> \in Seq(S)
    OBVIOUS
  <2> QED BY <1>1, <1>2, <2>1 DEF BuiltSwitches
<1>5. BuiltPorts
  BY <1>1, <1>2 DEF BuiltPorts
<1>6. BuiltHosts
  <2>1. Unlinked = {}
    BY <1>2 DEF Unlinked
  <2> QED BY <1>1, <1>2, <2>1, FS_EmptySet DEF BuiltHosts
<1>7. BuiltDocked
  <2>1. PlainUntil(Dealt) = {} /\ 1..plan.slot = {}
    BY <1>1 DEF PlainUntil, Dealt
  <2> QED BY <1>1, <1>2, <2>1, FS_EmptySet DEF BuiltDocked, Late
<1> QED BY <1>3, <1>4, <1>5, <1>6, <1>7 DEF BuiltInv

\* What is there at the stages without switches, or with nothing left to move.
LEMMA BuiltStages ==
  ASSUME BuiltRequest, BuiltInv
  PROVE  /\ BuiltRecord(plan) /\ plan.k \in Nat \ {0} /\ plan.i \in Nat /\ plan.lost \in Nat
         /\ plan.counter \in Nat /\ req.routers \in Nat /\ Built!Hosts \in Nat /\ Base \in Nat
         /\ Base = req.routers + Built!Hosts
         /\ Len(plan.switches) \in Nat /\ DOMAIN plan.switches = 1..Len(plan.switches)
         /\ Len(plan.lans) \in Nat /\ DOMAIN plan.lans = 1..Len(plan.lans)
         /\ plan.pc \in {"start", "routers", "hosts"} => plan.switches = <<>>
         /\ plan.pc \in {"start", "routers", "hosts", "group", "switch"} => plan.lans = <<>>
         /\ plan.pc \notin {"switch", "move"} => plan.left = {}
         /\ plan.pc = "switch" /\ plan.i = 0 => plan.left = {}
         /\ plan.pc \in {"start", "routers"} => Given = {}
<1>1. plan.pc \in {"start", "routers"} => Given = {}
  BY BuiltSizes DEF BuiltInv, BuiltIds, BuiltRequest
<1>2. BuiltShape /\ BuiltSwitches
  BY DEF BuiltInv
<1>3. /\ plan.pc \in {"start", "routers", "hosts"} => plan.switches = <<>>
      /\ plan.pc \in {"start", "routers", "hosts", "group", "switch"} => plan.lans = <<>>
  BY <1>2 DEF BuiltSwitches, Late
<1>4. /\ plan.pc \notin {"switch", "move"} => plan.left = {}
      /\ plan.pc = "switch" /\ plan.i = 0 => plan.left = {}
  BY DEF BuiltInv, BuiltLeft
<1> QED BY <1>1, <1>2, <1>3, <1>4, BuiltLens, BuiltSizes DEF BuiltShape, BuiltRequest, Base

LEMMA BuiltStarts ==
  ASSUME BuiltRequest, BuiltInv, Built!Begins
  PROVE  BuiltInv'
<1>1. plan.pc = "start" /\ req' = req
  BY DEF Built!Begins
<1>2. PICK pc \in {"star", "routers"} : plan' = [plan EXCEPT !.pc = pc]
  BY DEF Built!Begins
<1>3. Rests /\ plan'.pc = pc /\ plan'.k = plan.k /\ plan'.i = plan.i /\ plan'.counter = plan.counter
  BY <1>2, BuiltStages DEF Rests, BuiltRecord
<1>4. BuiltShape'
  BY <1>3, BuiltStages DEF Rests, BuiltShape
<1>5. BuiltIds'
  <2>1. Given = {} /\ Given' = {} /\ plan.counter = req.routers + 1
    BY <1>1, <1>3, BuiltStages DEF Given, Rests, BuiltInv, BuiltIds
  <2> QED BY <1>1, <1>3, <2>1 DEF BuiltIds, Late
<1>6. Passes
  BY <1>1, <1>3, BuiltStages, BuiltNames DEF Passes, Rests, Fresh, Opened, Dealt, Late
<1> QED BY <1>4, <1>5, <1>6, BuiltPasses

LEMMA BuiltDeals ==
  ASSUME BuiltRequest, BuiltInv, Built!DealsHosts
  PROVE  BuiltInv'
<1>1. plan.pc = "routers" /\ req' = req
  BY DEF Built!DealsHosts
<1>2. PICK deal \in [1..Built!Hosts -> Built!Routers] :
        plan' = [plan EXCEPT !.pc = "hosts", !.deal = deal, !.k = 1]
  BY DEF Built!DealsHosts
<1>3. Rests /\ plan'.pc = "hosts" /\ plan'.k = 1 /\ plan'.i = plan.i /\ plan'.counter = plan.counter
      /\ plan'.deal = deal
  BY <1>2, BuiltStages DEF Rests, BuiltRecord
<1>4. BuiltShape'
  BY <1>3, BuiltStages DEF Rests, BuiltShape
<1>5. BuiltIds'
  <2>1. Given' = {} /\ plan.counter = req.routers + 1
    BY <1>1, <1>3, BuiltStages DEF Given, Rests, BuiltInv, BuiltIds
  <2> QED BY <1>1, <1>3, <2>1, BuiltNames, BuiltStages DEF BuiltIds, Late
<1>6. Passes
  <2>1. plan.direct = Given
    BY <1>1, BuiltStages DEF BuiltInv, BuiltTurns
  <2> QED BY <1>1, <1>3, <2>1, BuiltStages, BuiltNames DEF Passes, Rests, Fresh, Opened, Dealt, Late
<1> QED BY <1>4, <1>5, <1>6, BuiltPasses

LEMMA BuiltEndsHosts ==
  ASSUME BuiltRequest, BuiltInv, Built!EndsHosts
  PROVE  BuiltInv'
<1>1. plan.pc = "hosts" /\ req' = req /\ plan.k > Built!Hosts
  BY DEF Built!EndsHosts
<1>2. PICK pc \in {"raised", "group", "lan"} :
        /\ plan' = [plan EXCEPT !.k = 1, !.pc = pc]
        /\ pc = "raised" => req.slots \ DOMAIN plan.docker # {}
        /\ pc # "raised" => req.slots \subseteq DOMAIN plan.docker
  BY DEF Built!EndsHosts
<1>3. Rests /\ plan'.pc = pc /\ plan'.k = 1 /\ plan'.i = plan.i /\ plan'.counter = plan.counter
  BY <1>2, BuiltStages DEF Rests, BuiltRecord
<1>4. BuiltShape'
  BY <1>3, BuiltStages DEF Rests, BuiltShape, Late
<1>5. plan.k = Built!Hosts + 1 /\ plan.counter = Base + 1 /\ plan.direct = Given
  BY <1>1, BuiltStages DEF BuiltInv, BuiltIds, BuiltTurns
<1>6. BuiltIds'
  <2>1. Given' = Given
    BY <1>3 DEF Rests, Given
  <2>2. Len(<<>>) = 0
    OBVIOUS
  <2> QED BY SMTT(20), <1>1, <1>2, <1>3, <1>5, <2>1, <2>2, BuiltNames, BuiltStages
          DEF BuiltIds, Late, Rests, BuiltInv
<1>7. Passes
  BY <1>1, <1>2, <1>3, <1>5, BuiltStages, BuiltNames DEF Passes, Rests, Fresh, Opened, Dealt, Late
<1> QED BY <1>4, <1>6, <1>7, BuiltPasses

LEMMA BuiltEndsGroups ==
  ASSUME BuiltRequest, BuiltInv, Built!EndsGroups
  PROVE  BuiltInv'
<1>1. plan.pc = "group" /\ req' = req
  BY DEF Built!EndsGroups
<1>2. plan' = [plan EXCEPT !.pc = "switch", !.k = 1, !.i = 0]
  BY DEF Built!EndsGroups
<1>3. Rests /\ plan'.pc = "switch" /\ plan'.k = 1 /\ plan'.i = 0 /\ plan'.counter = plan.counter
  BY <1>2, BuiltStages DEF Rests, BuiltRecord
<1>4. BuiltShape'
  BY <1>1, <1>3, BuiltStages DEF Rests, BuiltShape, Late
<1>5. BuiltIds'
  <2>1. Given' = Given
    BY <1>3 DEF Rests, Given
  <2> QED BY <1>1, <1>3, <2>1, BuiltNames, BuiltStages DEF BuiltIds, Late, Rests, BuiltInv
<1>6. Passes
  <2>1. req.slots \subseteq DOMAIN plan.docker
    BY <1>1 DEF BuiltInv, BuiltDocked, Late
  <2>2. plan.counter = Base + 1
    BY <1>1 DEF BuiltInv, BuiltIds
  <2> QED BY <1>1, <1>3, <2>1, <2>2, BuiltStages, BuiltNames DEF Passes, Rests, Fresh, Opened, Dealt, Late
<1> QED BY <1>4, <1>5, <1>6, BuiltPasses

LEMMA BuiltEndsSwitch ==
  ASSUME BuiltRequest, BuiltInv, Built!EndsSwitch
  PROVE  BuiltInv'
<1>1. plan.pc = "switch" /\ plan.k <= Len(plan.switches) /\ plan.i > 0 /\ plan.left = {} /\ req' = req
  BY DEF Built!EndsSwitch
<1>2. plan' = [plan EXCEPT !.k = @ + 1, !.i = 0]
  BY DEF Built!EndsSwitch
<1>3. Rests /\ plan'.pc = "switch" /\ plan'.k = plan.k + 1 /\ plan'.i = 0 /\ plan'.counter = plan.counter
  BY <1>1, <1>2, BuiltStages DEF Rests, BuiltRecord
<1>4. BuiltShape'
  BY <1>1, <1>3, BuiltStages DEF Rests, BuiltShape, Late
<1>5. BuiltIds'
  <2>1. Given' = Given
    BY <1>3 DEF Rests, Given
  <2> QED BY <1>1, <1>3, <2>1, BuiltNames, BuiltStages DEF BuiltIds, Late, Rests, BuiltInv
<1>6. Passes
  <2>1. req.slots \subseteq DOMAIN plan.docker
    BY <1>1 DEF BuiltInv, BuiltDocked, Late
  <2>2. Fresh' = Fresh
    BY <1>1, <1>3, BuiltStages, BuiltNames DEF Fresh
  <2>3. \A m \in DOMAIN plan.switches : Opened(m)' <=> Opened(m)
    BY <1>1, <1>3, BuiltStages DEF Opened, Late
  <2>4. Dealt' = Dealt
    BY <1>1, <1>3, BuiltNames DEF Dealt
  <2> QED BY <1>1, <1>3, <2>1, <2>2, <2>3, <2>4, BuiltStages DEF Passes, Rests, Late
<1> QED BY <1>4, <1>5, <1>6, BuiltPasses

LEMMA BuiltEndsSwitches ==
  ASSUME BuiltRequest, BuiltInv, Built!EndsSwitches
  PROVE  BuiltInv'
<1>1. plan.pc = "switch" /\ plan.k > Len(plan.switches) /\ req' = req
  BY DEF Built!EndsSwitches
<1>2. plan' = [plan EXCEPT !.pc = "lan", !.k = 1, !.counter = @ + Len(plan.switches)]
  BY DEF Built!EndsSwitches
<1>3. Rests /\ plan'.pc = "lan" /\ plan'.k = 1 /\ plan'.i = plan.i /\ plan'.counter = plan.counter + Len(plan.switches)
  BY <1>2, BuiltStages DEF Rests, BuiltRecord
<1>4. BuiltShape'
  BY <1>1, <1>3, BuiltStages DEF Rests, BuiltShape, Late
<1>5. BuiltIds'
  <2>1. Given' = Given
    BY <1>3 DEF Rests, Given
  <2>2. Len(<<>>) = 0
    OBVIOUS
  <2>3. plan.counter = Base + 1 /\ plan.lans = <<>> /\ plan'.lans = plan.lans
        /\ plan'.switches = plan.switches
    BY <1>1, <1>3, BuiltStages DEF BuiltInv, BuiltIds, Rests
  <2>4. plan'.counter = Base + Len(plan'.switches) + Len(plan'.lans) + 1 /\ plan'.counter >= plan.counter
    BY SMTT(20), <1>3, <2>2, <2>3, BuiltStages
  <2>5. \A h \in Given' : /\ h \in (req.routers + 1)..Base /\ h < plan'.counter
                          /\ plan'.home[h] \in Built!Routers
    <3>1. \A h \in Given : /\ h \in (req.routers + 1)..Base /\ h < plan.counter
                           /\ plan.home[h] \in Built!Routers
      BY DEF BuiltInv, BuiltIds
    <3>2. plan.counter \in Nat /\ plan'.counter \in Nat /\ plan'.home = plan.home
      BY <1>3, BuiltStages DEF Rests
    <3> QED BY <2>1, <2>4, <3>1, <3>2, BuiltStages
  <2> QED BY <1>1, <1>3, <2>4, <2>5, BuiltNames DEF BuiltIds, Late
<1>6. Passes
  <2>1. req.slots \subseteq DOMAIN plan.docker
    BY <1>1 DEF BuiltInv, BuiltDocked, Late
  <2>2. plan.counter = Base + 1 /\ plan.k = Len(plan.switches) + 1 /\ plan.i = 0
    BY <1>1, BuiltStages DEF BuiltInv, BuiltIds
  <2>3. Fresh' = Fresh
    BY <1>1, <1>3, <2>2, BuiltStages, BuiltNames DEF Fresh
  <2>4. \A m \in DOMAIN plan.switches : Opened(m)' <=> Opened(m)
    BY <1>1, <1>3, <2>2, BuiltStages DEF Opened, Late
  <2>5. Dealt' = Dealt
    BY <1>1, <1>3, BuiltNames DEF Dealt
  <2> QED BY <1>1, <1>3, <2>1, <2>2, <2>3, <2>4, <2>5, BuiltStages DEF Passes, Rests, Late
<1> QED BY <1>4, <1>5, <1>6, BuiltPasses

LEMMA BuiltSkipsLan ==
  ASSUME BuiltRequest, BuiltInv, Built!SkipsLan
  PROVE  BuiltInv'
<1>1. plan.pc = "lan" /\ req' = req
  BY DEF Built!SkipsLan
<1>2. plan' = [plan EXCEPT !.k = @ + 1]
  BY DEF Built!SkipsLan
<1>3. Rests /\ plan'.pc = "lan" /\ plan'.k = plan.k + 1 /\ plan'.i = plan.i /\ plan'.counter = plan.counter
  BY <1>1, <1>2, BuiltStages DEF Rests, BuiltRecord
<1>4. BuiltShape'
  BY <1>1, <1>3, BuiltStages DEF Rests, BuiltShape, Late
<1>5. BuiltIds'
  <2>1. Given' = Given
    BY <1>3 DEF Rests, Given
  <2> QED BY <1>1, <1>3, <2>1, BuiltNames, BuiltStages DEF BuiltIds, Late, Rests, BuiltInv
<1>6. Passes
  <2>1. req.slots \subseteq DOMAIN plan.docker
    BY <1>1 DEF BuiltInv, BuiltDocked, Late
  <2> QED BY <1>1, <1>3, <2>1, BuiltStages, BuiltNames DEF Passes, Rests, Fresh, Opened, Dealt, Late
<1> QED BY <1>4, <1>5, <1>6, BuiltPasses

LEMMA BuiltEndsLan ==
  ASSUME BuiltRequest, BuiltInv, Built!EndsLan
  PROVE  BuiltInv'
<1>1. plan.pc = "move" /\ plan.left = {} /\ req' = req
  BY DEF Built!EndsLan
<1>2. plan' = [plan EXCEPT !.pc = "lan", !.k = @ + 1]
  BY DEF Built!EndsLan
<1>3. Rests /\ plan'.pc = "lan" /\ plan'.k = plan.k + 1 /\ plan'.i = plan.i /\ plan'.counter = plan.counter
  BY <1>1, <1>2, BuiltStages DEF Rests, BuiltRecord
<1>4. BuiltShape'
  BY <1>1, <1>3, BuiltStages DEF Rests, BuiltShape, Late
<1>5. BuiltIds'
  <2>1. Given' = Given
    BY <1>3 DEF Rests, Given
  <2> QED BY <1>1, <1>3, <2>1, BuiltNames, BuiltStages DEF BuiltIds, Late, Rests, BuiltInv
<1>6. Passes
  <2>1. req.slots \subseteq DOMAIN plan.docker
    BY <1>1 DEF BuiltInv, BuiltDocked, Late
  <2> QED BY <1>1, <1>3, <2>1, BuiltStages, BuiltNames DEF Passes, Rests, Fresh, Opened, Dealt, Late
<1> QED BY <1>4, <1>5, <1>6, BuiltPasses

\* Pairs of routers to link.
LEMMA EdgeLens ==
  ASSUME BuiltRequest
  PROVE  /\ Len(req.edges) \in Nat
         /\ \A e \in {req.edges, req.edges \o req.extra} : \A k \in 1..Len(e) :
              e[k][1] \in Built!Routers /\ e[k][2] \in Built!Routers /\ e[k][1] # e[k][2]
<1> DEFINE S == {e \in Built!Routers \X Built!Routers : e[1] # e[2]}
<1>1. req.edges \in Seq(S) /\ req.extra \in Seq(S)
  BY DEF BuiltRequest
<1>2. \A e \in S : e[1] \in Built!Routers /\ e[2] \in Built!Routers /\ e[1] # e[2]
  OBVIOUS
<1> HIDE DEF S
<1>3. Len(req.edges) \in Nat /\ req.edges \o req.extra \in Seq(S)
  BY <1>1
<1>4. \A e \in Seq(S) : \A k \in 1..Len(e) : e[k] \in S
  OBVIOUS
<1> QED BY <1>1, <1>2, <1>3, <1>4

LEMMA BuiltEndsLans ==
  ASSUME BuiltRequest, BuiltInv, Built!EndsLans
  PROVE  BuiltInv'
<1>1. plan.pc = "lan" /\ req' = req
  BY DEF Built!EndsLans
<1>2. plan' = [plan EXCEPT !.pc = "enrich", !.k = Len(req.edges) + 1]
  BY DEF Built!EndsLans
<1>3. Rests /\ plan'.pc = "enrich" /\ plan'.k = Len(req.edges) + 1 /\ plan'.i = plan.i /\ plan'.counter = plan.counter
  BY <1>1, <1>2, BuiltStages DEF Rests, BuiltRecord
<1>4. BuiltShape'
  BY SMTT(20), <1>1, <1>3, EdgeLens, BuiltStages DEF Rests, BuiltShape, Late
<1>5. BuiltIds'
  <2>1. Given' = Given
    BY <1>3 DEF Rests, Given
  <2> QED BY <1>1, <1>3, <2>1, BuiltNames, BuiltStages DEF BuiltIds, Late, Rests, BuiltInv
<1>6. Passes
  <2>1. req.slots \subseteq DOMAIN plan.docker
    BY <1>1 DEF BuiltInv, BuiltDocked, Late
  <2> QED BY <1>1, <1>3, <2>1, BuiltStages, BuiltNames DEF Passes, Rests, Fresh, Opened, Dealt, Late
<1> QED BY <1>4, <1>5, <1>6, BuiltPasses

LEMMA BuiltEnds ==
  ASSUME BuiltRequest, BuiltInv, Built!EndsBuild
  PROVE  BuiltInv'
<1>1. plan.pc = "enrich" /\ req' = req
  BY DEF Built!EndsBuild
<1>2. plan' = [plan EXCEPT !.pc = "done"]
  BY DEF Built!EndsBuild
<1>3. Rests /\ plan'.pc = "done" /\ plan'.k = plan.k /\ plan'.i = plan.i /\ plan'.counter = plan.counter
  BY <1>1, <1>2, BuiltStages DEF Rests, BuiltRecord
<1>4. BuiltShape'
  BY <1>1, <1>3, BuiltStages DEF Rests, BuiltShape, Late
<1>5. BuiltIds'
  <2>1. Given' = Given
    BY <1>3 DEF Rests, Given
  <2> QED BY <1>1, <1>3, <2>1, BuiltNames, BuiltStages DEF BuiltIds, Late, Rests, BuiltInv
<1>6. Passes
  <2>1. req.slots \subseteq DOMAIN plan.docker
    BY <1>1 DEF BuiltInv, BuiltDocked, Late
  <2> QED BY <1>1, <1>3, <2>1, BuiltStages, BuiltNames DEF Passes, Rests, Fresh, Opened, Dealt, Late
<1> QED BY <1>4, <1>5, <1>6, BuiltPasses

-----------------------------------------------------------------------------
(* Steps that link *)

\* What a call that adds a link leaves alone.
Beside(p, q) ==
  /\ BuiltRecord(q) /\ q.pc = p.pc /\ q.next = p.next /\ q.deal = p.deal /\ q.home = p.home
  /\ q.direct = p.direct /\ q.slot = p.slot /\ q.docker = p.docker
  /\ q.switches = p.switches /\ q.lans = p.lans /\ q.k = p.k /\ q.i = p.i
  /\ q.left = p.left /\ q.counter = p.counter

\* What it adds, and what it costs when it fails.
Made(ok, S) == IF ok THEN S ELSE {}
Missed(p, a, b, ok) == IF ok \/ {a, b} \in p.pairs THEN 0 ELSE 1

Adds(p, a, i, b, j, ok, q) ==
  /\ Beside(p, q)
  /\ q.links = p.links \cup Made(ok, {Built!Ports(a, i, b, j)})
  /\ q.pairs = p.pairs \cup Made(ok, {{a, b}})
  /\ q.lost = p.lost + Missed(p, a, b, ok)

LEMMA BuiltAdded ==
  ASSUME NEW p, NEW a, NEW i, NEW b, NEW j, NEW ok \in BOOLEAN, NEW q,
         BuiltRecord(p), q = Built!Added(p, a, i, b, j, ok)
  PROVE  Adds(p, a, i, b, j, ok, q)
<1> DEFINE new == Made(ok, {Built!Ports(a, i, b, j)})
           pair == Made(ok, {{a, b}})
           failed == Missed(p, a, b, ok)
<1>1. q = [p EXCEPT !.links = p.links \cup new, !.pairs = p.pairs \cup pair,
                    !.lost = p.lost + failed]
  <2>1. PICK r : r = [p EXCEPT !.links = p.links \cup new]
    OBVIOUS
  <2>2. r.pairs = p.pairs /\ BuiltRecord(r) /\ r.lost = p.lost
    <3> HIDE DEF new
    <3> QED BY <2>1 DEF BuiltRecord
  <2>3. PICK t : t = [r EXCEPT !.pairs = p.pairs \cup pair]
    OBVIOUS
  <2>4. t.lost = p.lost
    <3> HIDE DEF pair
    <3> QED BY <2>2, <2>3 DEF BuiltRecord
  <2> QED BY <2>1, <2>2, <2>3, <2>4 DEF Built!Added, Built!Pair, Made, Missed
<1> HIDE DEF new, pair, failed
<1>2. /\ Beside(p, q) /\ q.links = p.links \cup new /\ q.pairs = p.pairs \cup pair
      /\ q.lost = p.lost + failed
  BY <1>1 DEF BuiltRecord, Beside
<1> QED BY <1>2 DEF new, pair, failed, Adds

Drops(p, a, b, q) ==
  /\ Beside(p, q) /\ q.links = {l \in p.links : DOMAIN l # {a, b}}
  /\ q.pairs = p.pairs /\ q.lost = p.lost

LEMMA BuiltRemoved ==
  ASSUME NEW p, NEW a, NEW b, NEW q, BuiltRecord(p), q = Built!Removed(p, a, b)
  PROVE  Drops(p, a, b, q)
<1> DEFINE rest == {l \in p.links : DOMAIN l # {a, b}}
<1>1. q = [p EXCEPT !.links = rest]
  BY DEF Built!Removed, Built!Ends, Built!Pair
<1> HIDE DEF rest
<1>2. Beside(p, q) /\ q.links = rest /\ q.pairs = p.pairs /\ q.lost = p.lost
  BY <1>1 DEF BuiltRecord, Beside
<1> QED BY <1>2 DEF rest, Drops

\* A link between nodes that are no hosts.
Joins(a, i, b, j, ok) ==
  /\ req' = req /\ plan'.home = plan.home /\ plan'.direct = plan.direct
  /\ plan'.switches = plan.switches /\ Grows(plan.lans, plan'.lans)
  /\ plan'.links = plan.links \cup Made(ok, {Built!Ports(a, i, b, j)})
  /\ a \notin Given /\ b \notin Given
  /\ plan'.lost \in Nat /\ plan'.lost >= plan.lost

LEMMA BuiltJoins ==
  ASSUME BuiltRequest, BuiltInv, NEW a, NEW i, NEW b, NEW j, NEW ok, Joins(a, i, b, j, ok)
  PROVE  /\ Given' = Given /\ \A h \in Given : Built!LinksOf(h)' = Built!LinksOf(h)
         /\ \A h \in Given' : Placed(h)'
         /\ Cardinality(Unlinked') <= plan'.lost
         /\ plan'.lost = 0 =>
              /\ \A m \in DOMAIN plan.switches : Opened(m) => Uplinked(plan.switches[m])'
              /\ \A m \in DOMAIN plan.lans : Uplinked(plan.lans[m])'
<1>1. DOMAIN Built!Ports(a, i, b, j) = {a, b}
  BY DEF Built!Ports
<1>2. Given' = Given
  BY DEF Given, Joins
<1>3. \A h \in Given : Built!LinksOf(h)' = Built!LinksOf(h)
  BY <1>1 DEF Joins, Made, Built!LinksOf, Built!Ends
<1>4. \A h \in Given' : Placed(h)'
  <2>1. \A h \in Given : Placed(h)
    BY DEF BuiltInv, BuiltHosts
  <2>2. /\ Grows(plan.switches, plan'.switches) /\ Grows(plan.lans, plan'.lans)
        /\ plan'.home = plan.home /\ plan'.direct = plan.direct
    BY DEF Joins, Grows
  <2> QED BY <1>2, <1>3, <2>1, <2>2, PlacedKept
<1>5. Cardinality(Unlinked') <= plan'.lost
  <2>1. Unlinked' = Unlinked
    BY <1>2, <1>3 DEF Unlinked
  <2>2. /\ BuiltIds /\ Cardinality(Unlinked) <= plan.lost /\ plan.lost \in Nat
        /\ plan'.lost \in Nat /\ plan'.lost >= plan.lost
    BY DEF BuiltInv, BuiltHosts, BuiltShape, Joins
  <2>3. PICK S, n : S = Unlinked' /\ n = plan'.lost
    OBVIOUS
  <2>4. S \subseteq Unlinked /\ n \in Nat /\ n >= plan.lost
    BY <2>1, <2>2, <2>3
  <2>5. Cardinality(S) <= n
    BY <2>2, <2>4, UnlinkedCounted
  <2> QED BY <2>3, <2>5
<1>6. ASSUME plan'.lost = 0
      PROVE  /\ \A m \in DOMAIN plan.switches : Opened(m) => Uplinked(plan.switches[m])'
             /\ \A m \in DOMAIN plan.lans : Uplinked(plan.lans[m])'
  <2>1. plan.lost = 0 /\ plan.links \subseteq plan'.links
    BY <1>6 DEF Joins, BuiltInv, BuiltShape
  <2>2. /\ \A m \in DOMAIN plan.switches : Opened(m) => Uplinked(plan.switches[m])
        /\ \A m \in DOMAIN plan.lans : Uplinked(plan.lans[m])
    BY <2>1 DEF BuiltInv, BuiltHosts
  <2>3. /\ \A m \in DOMAIN plan.lans : plan'.lans[m] = plan.lans[m]
        /\ plan'.switches = plan.switches
    BY DEF Joins, Grows
  <2> QED BY <2>1, <2>2, <2>3 DEF Uplinked
<1> QED BY <1>2, <1>3, <1>4, <1>5, <1>6

LEMMA BuiltPair ==
  ASSUME BuiltRequest, BuiltInv, plan.pc \in {"routers", "enrich"},
         NEW edges \in {req.edges, req.edges \o req.extra}, Built!LinksPairOf(edges)
  PROVE  BuiltInv'
<1>1. PICK a, b, i, j, k : /\ a = edges[plan.k][1] /\ b = edges[plan.k][2]
                           /\ i = plan.next[a] /\ j = plan.next[b] /\ k = plan.k
  OBVIOUS
<1>2. /\ req' = req /\ k \in 1..Len(edges) /\ k \in Nat /\ plan.left = {}
      /\ a \in Built!Routers /\ b \in Built!Routers /\ a # b
  <2>1. req' = req /\ plan.k <= Len(edges)
    BY DEF Built!LinksPairOf
  <2>2. Len(edges) \in Nat
    <3> DEFINE S == {e \in Built!Routers \X Built!Routers : e[1] # e[2]}
    <3>1. req.edges \in Seq(S) /\ req.extra \in Seq(S)
      BY DEF BuiltRequest
    <3> HIDE DEF S
    <3>2. req.edges \o req.extra \in Seq(S)
      BY <3>1
    <3>3. edges \in Seq(S)
      BY <3>1, <3>2
    <3> QED BY <3>3
  <2>3. plan.k \in 1..Len(edges)
    BY <2>1, <2>2, BuiltStages
  <2> QED BY <1>1, <2>1, <2>3, EdgeLens, BuiltStages
<1>3. PICK seen \in BOOLEAN :
        \/ seen /\ plan' = [plan EXCEPT !.k = k + 1]
        \/ ~seen /\ \E ok \in Built!Answers(a, b) : plan' = Built!RouterLink(a, b, ok)
  BY <1>1, BuiltStages DEF Built!LinksPairOf, BuiltRecord
<1>4. CASE seen
  <2>1. Rests /\ plan'.pc = plan.pc /\ plan'.k = k + 1 /\ plan'.i = plan.i /\ plan'.counter = plan.counter
    BY <1>3, <1>4, BuiltStages DEF Rests, BuiltRecord
  <2>2. BuiltShape'
    BY <1>2, <2>1, BuiltStages DEF Rests, BuiltShape, Late, BuiltInv
  <2>3. Given' = Given
    BY <2>1 DEF Rests, Given
  <2>4. BuiltIds'
    BY <1>2, <2>1, <2>3, BuiltNames DEF BuiltIds, Late, Rests, BuiltInv
  <2>5. plan.pc = "enrich" => req.slots \subseteq DOMAIN plan.docker
    BY DEF BuiltInv, BuiltDocked, Late
  <2>6. Passes
    BY <1>2, <2>1, <2>5, BuiltStages, BuiltNames DEF Passes, Rests, Fresh, Opened, Dealt, Late
  <2> QED BY <2>2, <2>4, <2>6, BuiltPasses
<1>5. CASE ~seen
  <2>1. PICK ok \in BOOLEAN :
          plan' = [Built!Added(plan, a, i, b, j, ok)
                     EXCEPT !.next[a] = @ + 1, !.next[b] = @ + 1, !.k = @ + 1]
    BY ZenonT(40), <1>1, <1>3, <1>5 DEF Built!Answers, Built!RouterLink
  <2>0. PICK q : q = Built!Added(plan, a, i, b, j, ok)
    OBVIOUS
  <2>2. /\ Beside(plan, q)
        /\ q.links = plan.links \cup Made(ok, {Built!Ports(a, i, b, j)})
        /\ q.pairs = plan.pairs \cup Made(ok, {{a, b}})
        /\ q.lost = plan.lost + Missed(plan, a, b, ok)
    <3>1. BuiltRecord(plan)
      BY BuiltStages
    <3>2. Adds(plan, a, i, b, j, ok, q)
      BY <2>0, <3>1, BuiltAdded
    <3> QED BY <3>2 DEF Adds
  <2>3. plan.next \in [Built!Routers \cup Given -> Nat] /\ i \in Nat /\ j \in Nat
    BY <1>1, <1>2 DEF BuiltInv, BuiltPorts
  <2>4. PICK n : n = [[plan.next EXCEPT ![a] = i + 1] EXCEPT ![b] = j + 1]
    OBVIOUS
  <2>5. plan' = [q EXCEPT !.next = n, !.k = k + 1]
    <3>1. plan' = [q EXCEPT !.next[a] = @ + 1, !.next[b] = @ + 1, !.k = @ + 1]
      BY <2>0, <2>1
    <3>2. [plan.next EXCEPT ![a] = i + 1][b] = j
      BY <1>1, <1>2, <2>3
    <3>3. PICK p : p = [q EXCEPT !.next = [plan.next EXCEPT ![a] = i + 1]]
      OBVIOUS
    <3>4. p.next = [plan.next EXCEPT ![a] = i + 1] /\ p.k = k
      BY <1>1, <2>2, <3>3 DEF Beside, BuiltRecord
    <3>5. PICK t : t = [p EXCEPT !.next = n]
      OBVIOUS
    <3>6. t.k = k
      BY <2>2, <3>3, <3>4, <3>5 DEF Beside, BuiltRecord
    <3>7. plan' = [t EXCEPT !.k = k + 1]
      BY <1>1, <2>2, <2>4, <3>1, <3>2, <3>3, <3>4, <3>5, <3>6 DEF Beside
    <3> QED BY <3>3, <3>5, <3>7
  <2>6. /\ BuiltRecord(plan)' /\ plan'.pc = plan.pc /\ plan'.next = n /\ plan'.home = plan.home
        /\ plan'.direct = plan.direct /\ plan'.slot = plan.slot /\ plan'.docker = plan.docker
        /\ plan'.switches = plan.switches /\ plan'.lans = plan.lans /\ plan'.k = k + 1
        /\ plan'.i = plan.i /\ plan'.left = plan.left /\ plan'.counter = plan.counter
        /\ plan'.links = q.links /\ plan'.pairs = q.pairs /\ plan'.lost = q.lost
    BY <2>2, <2>5 DEF BuiltRecord, Beside
  <2>7. plan'.lost \in Nat /\ plan'.lost >= plan.lost
    BY <2>2, <2>6, BuiltStages DEF Missed
  <2>8. /\ Given' = Given /\ Lans' = Lans /\ Base' = Base /\ Built!Routers' = Built!Routers
        /\ Built!Hosts' = Built!Hosts /\ \A r : Built!HostsOf(r)' = Built!HostsOf(r)
    BY <1>2, <2>6, BuiltNames DEF Given, Lans, Built!HostsOf
  <2>9. BuiltShape' /\ BuiltIds' /\ BuiltSwitches'
    <3>1. BuiltShape'
      BY <1>2, <2>6, <2>7, BuiltStages DEF BuiltShape, Late, BuiltInv
    <3>2. BuiltIds'
      BY <1>2, <2>6, <2>8 DEF BuiltIds, Late, BuiltInv
    <3>3. BuiltSwitches'
      BY <2>6, <2>8 DEF BuiltSwitches, BuiltInv, Late
    <3> QED BY <3>1, <3>2, <3>3
  <2>10. BuiltPorts'
    <3>1. Fresh' = plan.counter /\ Fresh = plan.counter /\ a < plan.counter /\ b < plan.counter
          /\ plan.counter \in Nat /\ a \in Nat \ {0} /\ b \in Nat \ {0}
      <4>1. Fresh' = plan.counter /\ Fresh = plan.counter
        BY <2>6 DEF Fresh
      <4>2. plan.counter >= req.routers + 1
        <5>1. plan.pc = "routers" => plan.counter = req.routers + 1
          BY DEF BuiltInv, BuiltIds
        <5>2. plan.pc = "enrich" => plan.counter = Base + Len(plan.switches) + Len(plan.lans) + 1
          BY DEF BuiltInv, BuiltIds, Late
        <5>3. /\ req.routers \in Nat /\ Built!Hosts \in Nat /\ Base = req.routers + Built!Hosts
              /\ Len(plan.switches) \in Nat /\ Len(plan.lans) \in Nat /\ plan.counter \in Nat
          BY BuiltStages
        <5>4. CASE plan.pc = "routers"
          BY <5>1, <5>3, <5>4
        <5>5. CASE plan.pc = "enrich"
          <6>1. \A r, h, m, s \in Nat : (r + h) + m + s + 1 >= r + 1
            OBVIOUS
          <6>2. Base + Len(plan.switches) + Len(plan.lans) + 1 >= req.routers + 1
            BY <5>3, <6>1
          <6> QED BY <5>2, <5>5, <6>2
        <5> QED BY <5>4, <5>5
      <4>3. a \in 1..req.routers /\ b \in 1..req.routers
        BY <1>2, BuiltSizes
      <4> QED BY SMTT(20), <4>1, <4>2, <4>3, BuiltStages
    <3>2. \A l \in plan.links : /\ a \in DOMAIN l => l[a] # i
                                /\ b \in DOMAIN l => l[b] # j
      <4>1. a \in DOMAIN plan.next /\ b \in DOMAIN plan.next
        BY <1>2, <2>3
      <4>2. \A l \in plan.links : \A v \in DOMAIN l :
              l[v] \in Nat /\ (v \in DOMAIN plan.next => l[v] < plan.next[v])
        BY DEF BuiltInv, BuiltPorts
      <4> QED BY <1>1, <2>3, <4>1, <4>2
    <3>3. Wired(a, i, b, j)
      <4>1. \/ plan'.links = plan.links /\ plan'.pairs = plan.pairs
            \/ /\ plan'.links = plan.links \cup {Built!Ports(a, i, b, j)}
               /\ plan'.pairs = plan.pairs \cup {{a, b}}
        BY <2>2, <2>6 DEF Made
      <4> QED BY <1>2, <2>3, <3>1, <3>2, <4>1 DEF Wired
    <3>4. /\ n \in [Built!Routers \cup Given -> Nat] /\ i < n[a] /\ j < n[b]
          /\ \A v \in DOMAIN plan.next : n[v] >= plan.next[v]
      <4>1. /\ plan.next \in [Built!Routers \cup Given -> Nat] /\ i = plan.next[a] /\ j = plan.next[b]
            /\ n = [[plan.next EXCEPT ![a] = i + 1] EXCEPT ![b] = j + 1] /\ i \in Nat /\ j \in Nat
            /\ a \in Built!Routers \cup Given /\ b \in Built!Routers \cup Given /\ a # b
        BY <1>1, <1>2, <2>3, <2>4
      <4> QED BY <4>1
    <3>5. \A h \in Given : n[h] # 0
      <4>1. \A h \in Given : plan.next[h] # 0 /\ plan.next[h] \in Nat /\ n[h] >= plan.next[h] /\ n[h] \in Nat
        BY <2>3, <3>4 DEF BuiltInv, BuiltPorts
      <4> QED BY <4>1
    <3>6. Spends(a, i, b, j)
      BY SMTT(20), <1>2, <2>3, <2>6, <2>8, <3>1, <3>4, <3>5 DEF Spends
    <3> QED BY <1>2, <2>3, <3>3, <3>6, BuiltWires DEF BuiltInv
  <2>11. BuiltLeft' /\ BuiltTurns'
    <3>1. \A m : Opened(m)' <=> Opened(m)
      BY <2>6 DEF Opened, Late
    <3> QED BY <1>2, <2>6, <2>8, <3>1 DEF BuiltLeft, BuiltTurns, BuiltInv
  <2>12. BuiltHosts'
    <3>1. a \notin Given /\ b \notin Given
      BY <1>2, BuiltSizes DEF BuiltInv, BuiltIds, BuiltRequest
    <3>2. Joins(a, i, b, j, ok)
      BY <1>2, <2>2, <2>6, <2>7, <3>1 DEF Joins, Grows
    <3>3. \A m : Opened(m)' <=> Opened(m)
      BY <2>6 DEF Opened, Late
    <3>4. /\ \A h \in Given' : Placed(h)'
          /\ Cardinality(Unlinked') <= plan'.lost
          /\ plan'.lost = 0 =>
               /\ \A m \in DOMAIN plan.switches : Opened(m) => Uplinked(plan.switches[m])'
               /\ \A m \in DOMAIN plan.lans : Uplinked(plan.lans[m])'
      BY <3>2, BuiltJoins
    <3> QED BY <2>6, <3>3, <3>4 DEF BuiltHosts
  <2>13. BuiltDocked'
    <3>1. PlainUntil(Dealt)' = PlainUntil(Dealt)
      BY <1>2, <2>6, <2>8 DEF PlainUntil, Dealt
    <3> QED BY <1>2, <2>6, <3>1 DEF BuiltInv, BuiltDocked, Late
  <2> QED BY <2>9, <2>10, <2>11, <2>12, <2>13 DEF BuiltInv
<1> QED BY <1>4, <1>5

LEMMA BuiltLinksPair ==
  ASSUME BuiltRequest, BuiltInv, Built!LinksPair \/ Built!EnrichesPair
  PROVE  BuiltInv'
BY BuiltPair DEF Built!LinksPair, Built!EnrichesPair

\* The groups of a router become switches after those there are.
SwitchesOf(r, sw) ==
  /\ sw \in Seq(Drawn)
  /\ Grows(plan.switches, sw)
  /\ \A m \in DOMAIN sw : m \notin DOMAIN plan.switches =>
       sw[m].id = Base + m /\ sw[m].router = r /\ sw[m].hosts \subseteq Built!HostsOf(r)
  /\ \A m, n \in DOMAIN sw :
       m \notin DOMAIN plan.switches /\ n \notin DOMAIN plan.switches /\ m # n =>
         sw[m].hosts \cap sw[n].hosts = {}

LEMMA SwitchesAppended ==
  ASSUME BuiltRequest, BuiltInv, NEW r \in Nat, NEW n \in 1..2, NEW of \in [Built!HostsOf(r) -> 1..n]
  PROVE  SwitchesOf(r, plan.switches \o
           [g \in 1..n |-> [id |-> req.routers + Built!Hosts + Len(plan.switches) + g,
                            router |-> r, hosts |-> {h \in Built!HostsOf(r) : of[h] = g}]])
<1>1. PICK s, b, H, len : s = plan.switches /\ b = Base /\ H = Built!HostsOf(r) /\ len = Len(s)
  OBVIOUS
<1>2. PICK t : t = [g \in 1..n |-> [id |-> b + len + g, router |-> r, hosts |-> {h \in H : of[h] = g}]]
  OBVIOUS
<1>3. b \in Nat /\ H \subseteq Nat /\ len \in Nat /\ s \in Seq(Drawn)
      /\ b = req.routers + Built!Hosts
  <2>1. Built!HostsOf(r) \subseteq Nat
    BY SMTT(20), BuiltStages DEF BuiltInv, BuiltIds, Built!HostsOf, Given
  <2>2. plan.switches \in Seq(Drawn)
    BY DEF BuiltInv, BuiltSwitches
  <2> QED BY <1>1, <2>1, <2>2, BuiltStages
<1>4. t \in Seq(Drawn) /\ Len(t) = n
  <2>1. \A g \in 1..n : [id |-> b + len + g, router |-> r, hosts |-> {h \in H : of[h] = g}] \in Drawn
    <3> TAKE g \in 1..n
    <3>1. b + len + g \in Nat
      <4>1. g \in Nat
        OBVIOUS
      <4> QED BY <1>3, <4>1
    <3>2. {h \in H : of[h] = g} \in SUBSET Nat
      BY <1>3
    <3> QED BY <3>1, <3>2 DEF Drawn
  <2> DEFINE D == Drawn
  <2>2. \A g \in 1..n : t[g] \in D
    BY <1>2, <2>1
  <2> HIDE DEF D
  <2>3. DOMAIN t = 1..n /\ n \in Nat
    BY <1>2
  <2>4. t \in [1..n -> D]
    BY <1>2, <2>2, <2>3
  <2> QED BY <2>3, <2>4 DEF D
<1>5. PICK sw : sw = s \o t
  OBVIOUS
<1>6. /\ sw \in Seq(Drawn) /\ DOMAIN s = 1..len /\ DOMAIN sw = 1..(len + n)
      /\ \A m \in 1..len : sw[m] = s[m]
      /\ \A m \in (len + 1)..(len + n) : sw[m] = t[m - len]
  <2> DEFINE D == Drawn
  <2>1. s \in Seq(D) /\ t \in Seq(D) /\ Len(s) = len /\ Len(t) = n
    BY <1>1, <1>3, <1>4
  <2> HIDE DEF D
  <2>2. sw \in Seq(D) /\ Len(sw) = len + n
    BY <1>5, <2>1
  <2>3. \A m \in 1..(len + n) : sw[m] = IF m <= len THEN s[m] ELSE t[m - len]
    BY <1>5, <2>1
  <2>4. DOMAIN s = 1..len /\ DOMAIN sw = 1..(len + n)
    BY <2>1, <2>2
  <2>5. n \in Nat /\ len \in Nat
    BY <1>3
  <2> QED BY <2>2, <2>3, <2>4, <2>5 DEF D
<1>7. ASSUME NEW m \in DOMAIN sw, m \notin DOMAIN s
      PROVE  m - len \in 1..n /\ sw[m].id = b + m /\ sw[m].router = r
             /\ sw[m].hosts = {h \in H : of[h] = m - len}
  <2>1. m \in (len + 1)..(len + n) /\ m - len \in 1..n
    BY <1>3, <1>6, <1>7
  <2>2. sw[m] = [id |-> b + len + (m - len), router |-> r, hosts |-> {h \in H : of[h] = m - len}]
    BY <1>2, <1>6, <2>1
  <2>3. b + len + (m - len) = b + m
    BY SMTT(20), <1>3, <2>1
  <2> QED BY <2>1, <2>2, <2>3
<1>8. \A m, p \in DOMAIN sw : m \notin DOMAIN s /\ p \notin DOMAIN s /\ m # p =>
        sw[m].hosts \cap sw[p].hosts = {}
  <2> TAKE m, p \in DOMAIN sw
  <2> HAVE m \notin DOMAIN s /\ p \notin DOMAIN s /\ m # p
  <2>1. m - len # p - len
    BY <1>3, <1>6
  <2>2. sw[m].hosts = {h \in H : of[h] = m - len} /\ sw[p].hosts = {h \in H : of[h] = p - len}
    BY <1>7
  <2> QED BY <2>1, <2>2
<1>9. SwitchesOf(r, sw)
  <2>1. Grows(s, sw)
    BY <1>3, <1>6 DEF Grows
  <2>2. \A m \in DOMAIN sw : m \notin DOMAIN s => sw[m].id = b + m /\ sw[m].router = r /\ sw[m].hosts \subseteq H
    BY <1>7
  <2> QED BY <1>1, <1>6, <1>8, <2>1, <2>2 DEF SwitchesOf
<1>10. sw = plan.switches \o
           [g \in 1..n |-> [id |-> req.routers + Built!Hosts + Len(plan.switches) + g,
                            router |-> r, hosts |-> {h \in Built!HostsOf(r) : of[h] = g}]]
  BY <1>1, <1>2, <1>3, <1>5
<1> QED BY <1>9, <1>10

LEMMA BuiltGroups ==
  ASSUME BuiltRequest, BuiltInv, Built!GroupsRouter
  PROVE  BuiltInv'
<1>1. PICK k : k = plan.k
  OBVIOUS
<1>2. /\ plan.pc = "group" /\ k \in 1..req.routers /\ req' = req /\ k \in Nat /\ plan.left = {}
      /\ plan.lans = <<>>
  <2>1. plan.pc = "group" /\ k <= req.routers /\ req' = req
    BY <1>1 DEF Built!GroupsRouter
  <2>2. k \in Nat \ {0} /\ req.routers \in Nat
    BY <1>1, BuiltStages
  <2> QED BY <2>1, <2>2, BuiltStages
<1>3. PICK sw : SwitchesOf(k, sw) /\ plan' = [plan EXCEPT !.k = k + 1, !.switches = sw]
  <2>1. CASE plan' = [plan EXCEPT !.k = @ + 1]
    <3>1. plan' = [plan EXCEPT !.k = k + 1, !.switches = plan.switches]
      BY <1>1, <2>1, BuiltStages DEF BuiltRecord
    <3>2. SwitchesOf(k, plan.switches)
      BY DEF BuiltInv, BuiltSwitches, SwitchesOf, Grows
    <3> QED BY <3>1, <3>2
  <2>2. CASE plan' # [plan EXCEPT !.k = @ + 1]
    <3>1. PICK n \in 1..2 : \E of \in [Built!HostsOf(plan.k) -> 1..n] :
            plan' = [plan EXCEPT !.k = @ + 1, !.switches = @ \o
              [g \in 1..n |-> [id |-> req.routers + Built!Hosts + Len(plan.switches) + g,
                               router |-> plan.k, hosts |-> {h \in Built!HostsOf(plan.k) : of[h] = g}]]]
      BY <2>2, Zenon DEF Built!GroupsRouter
    <3>2. PICK of \in [Built!HostsOf(plan.k) -> 1..n] :
            plan' = [plan EXCEPT !.k = @ + 1, !.switches = @ \o
              [g \in 1..n |-> [id |-> req.routers + Built!Hosts + Len(plan.switches) + g,
                               router |-> plan.k, hosts |-> {h \in Built!HostsOf(plan.k) : of[h] = g}]]]
      BY <3>1, Zenon
    <3>3. PICK sw : sw = plan.switches \o
              [g \in 1..n |-> [id |-> req.routers + Built!Hosts + Len(plan.switches) + g,
                               router |-> plan.k, hosts |-> {h \in Built!HostsOf(plan.k) : of[h] = g}]]
      OBVIOUS
    <3>4. SwitchesOf(k, sw)
      <4>1. SwitchesOf(plan.k, sw)
        BY <1>1, <1>2, <3>3, SwitchesAppended
      <4> QED BY <1>1, <4>1
    <3>5. plan' = [plan EXCEPT !.k = k + 1, !.switches = sw]
      BY <1>1, <3>2, <3>3, BuiltStages DEF BuiltRecord
    <3> QED BY <3>4, <3>5
  <2> QED BY <2>1, <2>2
<1>4. /\ BuiltRecord(plan)' /\ plan'.pc = plan.pc /\ plan'.next = plan.next /\ plan'.home = plan.home
      /\ plan'.direct = plan.direct /\ plan'.slot = plan.slot /\ plan'.docker = plan.docker
      /\ plan'.switches = sw /\ plan'.lans = plan.lans /\ plan'.k = k + 1
      /\ plan'.i = plan.i /\ plan'.left = plan.left /\ plan'.counter = plan.counter
      /\ plan'.links = plan.links /\ plan'.pairs = plan.pairs /\ plan'.lost = plan.lost
  BY <1>3, BuiltStages DEF BuiltRecord
<1>5. /\ Given' = Given /\ Lans' = Lans /\ Base' = Base /\ Built!Routers' = Built!Routers
      /\ Built!Hosts' = Built!Hosts /\ \A r : Built!HostsOf(r)' = Built!HostsOf(r)
  BY <1>2, <1>4, BuiltNames DEF Given, Lans, Built!HostsOf
<1>6. BuiltShape' /\ BuiltIds'
  <2>1. BuiltShape'
    BY <1>2, <1>4, BuiltStages DEF BuiltShape
  <2>2. BuiltIds'
    BY <1>2, <1>4, <1>5 DEF BuiltIds, BuiltInv, Late
  <2> QED BY <2>1, <2>2
<1>7. /\ sw \in Seq(Drawn) /\ Grows(plan.switches, sw)
      /\ \A m \in DOMAIN sw : m \notin DOMAIN plan.switches =>
           sw[m].id = Base + m /\ sw[m].router = k /\ sw[m].hosts \subseteq Built!HostsOf(k)
      /\ \A m, n \in DOMAIN sw :
           m \notin DOMAIN plan.switches /\ n \notin DOMAIN plan.switches /\ m # n =>
             sw[m].hosts \cap sw[n].hosts = {}
  BY <1>3 DEF SwitchesOf
<1>8. /\ \A m \in DOMAIN plan.switches :
           /\ plan.switches[m].id = Base + m /\ plan.switches[m].router \in Built!Routers
           /\ plan.switches[m].hosts \subseteq Built!HostsOf(plan.switches[m].router)
           /\ plan.switches[m].router < k
      /\ \A m, n \in DOMAIN plan.switches :
           m # n => plan.switches[m].hosts \cap plan.switches[n].hosts = {}
  BY <1>1, <1>2 DEF BuiltInv, BuiltSwitches
<1>9. k \in Built!Routers /\ \A r \in Built!Routers : r \in Nat
  BY <1>2, BuiltSizes
<1>10. \A m \in DOMAIN sw :
         /\ sw[m].id = Base + m /\ sw[m].router \in Built!Routers
         /\ sw[m].hosts \subseteq Built!HostsOf(sw[m].router)
         /\ sw[m].router < k + 1
  <2> TAKE m \in DOMAIN sw
  <2>1. CASE m \in DOMAIN plan.switches
    <3>1. sw[m] = plan.switches[m]
      BY <1>7, <2>1 DEF Grows
    <3>2. PICK s : s = plan.switches[m]
      OBVIOUS
    <3>3. /\ s.id = Base + m /\ s.router \in Built!Routers
          /\ s.hosts \subseteq Built!HostsOf(s.router) /\ s.router < k
      BY <1>8, <2>1, <3>2
    <3>4. s.router < k + 1
      <4>1. s.router \in Nat /\ k \in Nat /\ s.router < k
        BY <1>2, <1>9, <3>3
      <4> QED BY <4>1
    <3> QED BY <3>1, <3>2, <3>3, <3>4
  <2>2. CASE m \notin DOMAIN plan.switches
    BY <1>2, <1>7, <1>9, <2>2
  <2> QED BY <2>1, <2>2
<1>11. \A m, n \in DOMAIN sw : m # n => sw[m].hosts \cap sw[n].hosts = {}
  <2>1. ASSUME NEW m \in DOMAIN plan.switches, NEW n \in DOMAIN sw, n \notin DOMAIN plan.switches
        PROVE  sw[m].hosts \cap sw[n].hosts = {}
    <3>1. sw[m] = plan.switches[m] /\ plan.switches[m].router # k
      BY <1>2, <1>7, <1>8, <1>9 DEF Grows
    <3>2. plan.switches[m].hosts \subseteq Built!HostsOf(plan.switches[m].router)
      BY <1>8
    <3>3. sw[n].hosts \subseteq Built!HostsOf(k)
      BY <1>7, <2>1
    <3>4. \A r : r # k => Built!HostsOf(r) \cap Built!HostsOf(k) = {}
      BY DEF Built!HostsOf
    <3>5. PICK r : r = plan.switches[m].router
      OBVIOUS
    <3> QED BY <3>1, <3>2, <3>3, <3>4, <3>5
  <2>2. \A m, n \in DOMAIN plan.switches : m # n => sw[m].hosts \cap sw[n].hosts = {}
    BY <1>7, <1>8 DEF Grows
  <2> TAKE m, n \in DOMAIN sw
  <2>3. CASE m \in DOMAIN plan.switches /\ n \in DOMAIN plan.switches
    BY <2>2, <2>3
  <2>4. CASE m \in DOMAIN plan.switches /\ n \notin DOMAIN plan.switches
    BY <2>1, <2>4
  <2>5. CASE m \notin DOMAIN plan.switches /\ n \in DOMAIN plan.switches
    BY <2>1, <2>5
  <2>6. CASE m \notin DOMAIN plan.switches /\ n \notin DOMAIN plan.switches
    BY <1>7, <2>6
  <2> QED BY <2>3, <2>4, <2>5, <2>6
<1>12. BuiltSwitches'
  <2>1. plan'.lans \in Seq(Drawn) /\ DOMAIN plan'.lans = {}
    BY <1>2, <1>4 DEF BuiltInv, BuiltSwitches
  <2> QED BY <1>2, <1>4, <1>5, <1>7, <1>10, <1>11, <2>1 DEF BuiltSwitches, Late
<1>13. BuiltPorts'
  <2>1. Fresh' = Fresh
    BY <1>2, <1>4 DEF Fresh
  <2> QED BY <1>2, <1>4, <2>1, BuiltPortsKept DEF BuiltInv
<1>14. BuiltLeft'
  BY <1>2, <1>4 DEF BuiltLeft
<1>15. \A m : ~Opened(m) /\ ~Opened(m)'
  BY <1>2, <1>4 DEF Opened, Late
<1>16. BuiltTurns'
  <2>1. plan.direct = Given
    BY <1>2 DEF BuiltInv, BuiltTurns
  <2>2. \A m \in DOMAIN sw : sw[m].hosts \cap Given = sw[m].hosts
    BY <1>10 DEF Built!HostsOf, Given
  <2> QED BY <1>4, <1>5, <1>15, <2>1, <2>2 DEF BuiltTurns
<1>17. BuiltHosts'
  <2>1. \A h : Built!LinksOf(h)' = Built!LinksOf(h)
    BY <1>4 DEF Built!LinksOf
  <2>2. \A h \in Given : Placed(h)'
    <3>1. \A h \in Given : Placed(h)
      BY DEF BuiltInv, BuiltHosts
    <3>2. Grows(plan.switches, plan'.switches) /\ Grows(plan.lans, plan'.lans)
      BY <1>4, <1>7 DEF Grows
    <3> QED BY <1>4, <2>1, <3>1, <3>2, PlacedKept
  <2>3. Unlinked' = Unlinked
    BY <1>5, <2>1 DEF Unlinked
  <2>4. DOMAIN plan'.lans = {}
    BY <1>2, <1>4
  <2>5. Cardinality(Unlinked) <= plan.lost
    BY DEF BuiltInv, BuiltHosts
  <2> QED BY <1>4, <1>5, <1>15, <2>2, <2>3, <2>4, <2>5 DEF BuiltHosts
<1>18. BuiltDocked'
  <2>1. PlainUntil(Dealt)' = PlainUntil(Dealt)
    BY <1>2, <1>4, <1>5 DEF PlainUntil, Dealt
  <2> QED BY <1>2, <1>4, <2>1 DEF BuiltInv, BuiltDocked, Late
<1> QED BY <1>6, <1>12, <1>13, <1>14, <1>16, <1>17, <1>18 DEF BuiltInv

-----------------------------------------------------------------------------
(* Steps that give a host its only link *)
\* A host is linked to its router or a switch, never to another host.
LEMMA PlaceApart ==
  ASSUME BuiltRequest, BuiltInv, NEW g \in Given, NEW w, Place(g, w)
  PROVE  w \in Nat /\ (w <= req.routers \/ w > Base) /\ w \notin Given /\ w # g
<1>1. w \in Nat /\ (w <= req.routers \/ w > Base)
  <2>1. CASE w = plan.home[g]
    BY SMTT(20), <2>1, BuiltSizes DEF BuiltInv, BuiltIds, BuiltRequest
  <2>2. CASE \E m \in DOMAIN plan.lans : w = plan.lans[m].id
    <3>1. PICK m \in DOMAIN plan.lans : w = plan.lans[m].id
      BY <2>2
    <3>2. w = Base + Len(plan.switches) + m
      BY <3>1 DEF BuiltInv, BuiltSwitches
    <3>3. m \in Nat \ {0} /\ Base \in Nat /\ Len(plan.switches) \in Nat
      BY <3>1, BuiltStages
    <3> QED BY <3>2, <3>3
  <2>3. CASE \E m \in DOMAIN plan.switches : w = plan.switches[m].id
    <3>1. PICK m \in DOMAIN plan.switches : w = plan.switches[m].id
      BY <2>3
    <3>2. w = Base + m
      BY <3>1 DEF BuiltInv, BuiltSwitches
    <3>3. m \in Nat \ {0} /\ Base \in Nat
      BY <3>1, BuiltStages
    <3> QED BY <3>2, <3>3
  <2> QED BY <2>1, <2>2, <2>3 DEF Place
<1>2. \A h \in Given : h \in (req.routers + 1)..Base
  BY DEF BuiltInv, BuiltIds
<1>3. req.routers \in Nat /\ Base \in Nat
  BY BuiltStages
<1> QED BY <1>1, <1>2, <1>3

Moves(h, w, i, j, ok) ==
  /\ req' = req /\ Given \subseteq Given' /\ Given' \subseteq Given \cup {h}
  /\ Grows(plan.switches, plan'.switches) /\ Grows(plan.lans, plan'.lans)
  /\ h \in (req.routers + 1)..Base /\ w \notin Given /\ Place(h, w)'
  /\ \A l \in plan.links : h \notin DOMAIN l => l \in plan'.links
  /\ \A l \in plan'.links :
       IF h \in DOMAIN l THEN ok /\ l = Built!Ports(h, i, w, j) ELSE l \in plan.links
  /\ ok => Built!Ports(h, i, w, j) \in plan'.links
  /\ \A g \in Given \ {h} :
       plan'.home[g] = plan.home[g] /\ (g \in plan'.direct <=> g \in plan.direct)
  /\ plan'.lost = plan.lost + IF ok THEN 0 ELSE 1

\* The other hosts stay where they are, and the links of switches to routers too.
Moved ==
  /\ \A g \in Given' : Placed(g)'
  /\ Cardinality(Unlinked') <= plan'.lost
  /\ plan'.lost = 0 =>
       /\ \A m \in DOMAIN plan.switches : Opened(m) => Uplinked(plan.switches[m])'
       /\ \A m \in DOMAIN plan.lans : Uplinked(plan.lans[m])'

LEMMA BuiltMoves ==
  ASSUME BuiltRequest, BuiltInv, NEW h, NEW w, NEW i, NEW j, NEW ok \in BOOLEAN,
         Moves(h, w, i, j, ok)
  PROVE  Moved /\ \A g \in Given \ {h} : Built!LinksOf(g)' = Built!LinksOf(g)
<1> DEFINE new == Built!Ports(h, i, w, j)
<1>1. DOMAIN new = {h, w}
  BY DEF Built!Ports
<1> HIDE DEF new
<1>2. /\ Given \subseteq Given' /\ Given' \subseteq Given \cup {h}
      /\ Grows(plan.switches, plan'.switches) /\ Grows(plan.lans, plan'.lans)
      /\ h \in (req.routers + 1)..Base /\ w \notin Given /\ Place(h, w)'
      /\ \A l \in plan.links : h \notin DOMAIN l => l \in plan'.links
      /\ \A l \in plan'.links : IF h \in DOMAIN l THEN ok /\ l = new ELSE l \in plan.links
      /\ ok => new \in plan'.links
      /\ \A g \in Given \ {h} :
           plan'.home[g] = plan.home[g] /\ (g \in plan'.direct <=> g \in plan.direct)
      /\ plan'.lost = plan.lost + IF ok THEN 0 ELSE 1
  BY DEF Moves, new
<1>3. \A g \in Given \ {h} : Built!LinksOf(g)' = Built!LinksOf(g)
  <2> TAKE g \in Given \ {h}
  <2>1. \A l \in Built!LinksOf(g) : h \notin DOMAIN l
    <3>1. Placed(g)
      BY DEF BuiltInv, BuiltHosts
    <3>2. CASE Built!LinksOf(g) = {}
      BY <3>2
    <3>3. CASE Built!LinksOf(g) # {}
      <4>1. PICK l, u : Place(g, u) /\ Built!LinksOf(g) = {l} /\ DOMAIN l = {g, u}
        BY <3>1, <3>3 DEF Placed
      <4>2. u \in Nat /\ (u <= req.routers \/ u > Base)
        BY <4>1, PlaceApart
      <4>3. u # h
        BY <1>2, <4>2, BuiltStages
      <4> QED BY <4>1, <4>3
    <3> QED BY <3>2, <3>3
  <2>2. g # h /\ g # w
    BY <1>2
  <2>3. g \notin DOMAIN new
    BY <1>1, <2>2
  <2> QED BY <1>2, <2>1, <2>3 DEF Built!LinksOf, Built!Ends
<1>4. Built!LinksOf(h)' = IF ok THEN {new} ELSE {}
  BY <1>1, <1>2 DEF Built!LinksOf, Built!Ends
<1>5. ASSUME NEW g \in Given' PROVE Placed(g)'
  <2>1. CASE g = h
    <3>1. CASE ok
      BY <1>1, <1>2, <1>4, <2>1, <3>1 DEF Placed
    <3>2. CASE ~ok
      BY <1>4, <2>1, <3>2 DEF Placed
    <3> QED BY <3>1, <3>2
  <2>2. CASE g # h
    <3>1. g \in Given /\ Placed(g)
      BY <1>2, <2>2 DEF BuiltInv, BuiltHosts
    <3> QED BY <1>2, <1>3, <2>2, <3>1, PlacedKept
  <2> QED BY <2>1, <2>2
<1>6. Cardinality(Unlinked') <= plan'.lost
  <2>1. BuiltIds /\ Cardinality(Unlinked) <= plan.lost /\ plan.lost \in Nat
    BY DEF BuiltInv, BuiltHosts, BuiltShape
  <2>2. PICK S, n : S = Unlinked' /\ n = plan'.lost
    OBVIOUS
  <2>3. n \in Nat /\ n = plan.lost + IF ok THEN 0 ELSE 1
    BY <1>2, <2>1, <2>2
  <2>4. S \subseteq Unlinked \cup {h}
    BY <1>2, <1>3, <2>2 DEF Unlinked
  <2>5. ok => h \notin S
    BY <1>4, <2>2 DEF Unlinked
  <2>6. \/ S \subseteq Unlinked /\ n >= plan.lost
        \/ n = plan.lost + 1 /\ \E g : S \subseteq Unlinked \cup {g}
    BY <2>1, <2>3, <2>4, <2>5
  <2>7. Cardinality(S) <= n
    BY <2>1, <2>3, <2>6, UnlinkedCounted
  <2> QED BY <2>2, <2>7
<1>7. ASSUME plan'.lost = 0, NEW s, Uplinked(s),
             s.router \in Built!Routers, s.id \in Nat, s.id > Base
      PROVE  Uplinked(s)'
  <2>1. PICK l \in plan.links : DOMAIN l = {s.router, s.id}
    BY <1>7 DEF Uplinked
  <2>2. h # s.router /\ h # s.id
    BY <1>2, <1>7, BuiltSizes DEF BuiltRequest
  <2>3. l \in plan'.links
    BY <1>2, <2>1, <2>2
  <2> QED BY <2>1, <2>3 DEF Uplinked
<1>8. ASSUME plan'.lost = 0
      PROVE  /\ \A m \in DOMAIN plan.switches : Opened(m) => Uplinked(plan.switches[m])'
             /\ \A m \in DOMAIN plan.lans : Uplinked(plan.lans[m])'
  <2>1. plan.lost = 0
    BY <1>2, <1>8, BuiltStages
  <2>2. /\ \A m \in DOMAIN plan.switches : Opened(m) => Uplinked(plan.switches[m])
        /\ \A m \in DOMAIN plan.lans : Uplinked(plan.lans[m])
    BY <2>1 DEF BuiltInv, BuiltHosts
  <2>3. /\ \A m \in DOMAIN plan.lans : plan'.lans[m] = plan.lans[m]
        /\ \A m \in DOMAIN plan.switches : plan'.switches[m] = plan.switches[m]
    BY <1>2 DEF Grows
  <2>4. \A m \in DOMAIN plan.switches :
          plan.switches[m].router \in Built!Routers /\ plan.switches[m].id = Base + m
    BY DEF BuiltInv, BuiltSwitches
  <2>5. \A m \in DOMAIN plan.lans :
          plan.lans[m].router \in Built!Routers /\ plan.lans[m].id = Base + Len(plan.switches) + m
    BY DEF BuiltInv, BuiltSwitches
  <2>6. Base \in Nat /\ Len(plan.switches) \in Nat
        /\ (\A m \in DOMAIN plan.switches : m \in Nat \ {0})
        /\ (\A m \in DOMAIN plan.lans : m \in Nat \ {0})
    BY SMTT(20), BuiltStages
  <2>7. \A m \in DOMAIN plan.switches : plan.switches[m].id \in Nat /\ plan.switches[m].id > Base
    <3> TAKE m \in DOMAIN plan.switches
    <3>1. m \in Nat \ {0}
      BY <2>6
    <3> QED BY <2>4, <2>6, <3>1
  <2>8. \A m \in DOMAIN plan.lans : plan.lans[m].id \in Nat /\ plan.lans[m].id > Base
    <3> TAKE m \in DOMAIN plan.lans
    <3>1. m \in Nat \ {0}
      BY <2>6
    <3> QED BY <2>5, <2>6, <3>1
  <2>9. \A m \in DOMAIN plan.switches : Opened(m) => Uplinked(plan.switches[m])'
    <3> TAKE m \in DOMAIN plan.switches
    <3> HAVE Opened(m)
    <3>1. PICK s : s = plan.switches[m]
      OBVIOUS
    <3>2. Uplinked(s) /\ s.router \in Built!Routers /\ s.id \in Nat /\ s.id > Base
      BY <2>2, <2>4, <2>7, <3>1
    <3>3. Uplinked(s)'
      BY <1>7, <1>8, <3>2
    <3> QED BY <2>3, <3>1, <3>3 DEF Uplinked
  <2>10. \A m \in DOMAIN plan.lans : Uplinked(plan.lans[m])'
    <3> TAKE m \in DOMAIN plan.lans
    <3>1. PICK s : s = plan.lans[m]
      OBVIOUS
    <3>2. Uplinked(s) /\ s.router \in Built!Routers /\ s.id \in Nat /\ s.id > Base
      BY <2>2, <2>5, <2>8, <3>1
    <3>3. Uplinked(s)'
      BY <1>7, <1>8, <3>2
    <3> QED BY <2>3, <3>1, <3>3 DEF Uplinked
  <2> QED BY <2>9, <2>10
<1> QED BY <1>3, <1>5, <1>6, <1>8 DEF Moved

\* The hosts that are dealt are linked to their routers, one after the other.
LEMMA PlainAdded ==
  ASSUME BuiltRequest, NEW k \in 1..Built!Hosts
  PROVE  LET plain == req.roles[k] = "host" IN
         /\ PlainUntil(k + 1) = PlainUntil(k) \cup (IF plain THEN {k} ELSE {})
         /\ k \notin PlainUntil(k)
         /\ Cardinality(PlainUntil(k)) \in Nat
         /\ Cardinality(PlainUntil(k + 1)) = Cardinality(PlainUntil(k)) + IF plain THEN 1 ELSE 0
<1>1. Built!Hosts \in Nat /\ k - 1 \in Int
  BY BuiltSizes
<1>2. PlainUntil(k + 1) = PlainUntil(k) \cup (IF req.roles[k] = "host" THEN {k} ELSE {})
  BY <1>1 DEF PlainUntil
<1>3. IsFiniteSet(1..(k - 1)) /\ PlainUntil(k) \subseteq 1..(k - 1)
  BY <1>1, FS_Interval DEF PlainUntil
<1>4. IsFiniteSet(PlainUntil(k)) /\ Cardinality(PlainUntil(k)) \in Nat
  BY <1>3, FS_Subset, FS_CardinalityType
<1>5. k \notin PlainUntil(k)
  BY <1>1 DEF PlainUntil
<1>6. Cardinality(PlainUntil(k) \cup {k}) = Cardinality(PlainUntil(k)) + 1
  BY <1>4, <1>5, FS_AddElement
<1>7. CASE req.roles[k] = "host"
  BY <1>2, <1>4, <1>5, <1>6, <1>7
<1>8. CASE req.roles[k] # "host"
  <2>1. PlainUntil(k + 1) = PlainUntil(k)
    BY <1>2, <1>8
  <2> QED BY <1>4, <1>5, <1>8, <2>1
<1> QED BY <1>7, <1>8

\* A plain host takes the next slot, and its node becomes the docker node of that slot if
\* the slot is asked for.
Docks(k, h, slot, docker) ==
  /\ slot = plan.slot + IF req.roles[k] = "host" THEN 1 ELSE 0
  /\ docker = IF req.roles[k] = "host" /\ slot \in req.slots
              THEN Built!With(plan.docker, slot, h) ELSE plan.docker

LEMMA BuiltDocks ==
  ASSUME BuiltRequest, BuiltDocked, plan.pc = "hosts", plan'.pc = "hosts", req' = req,
         NEW k \in 1..Built!Hosts, plan.k = k, plan'.k = k + 1,
         NEW h, h = req.routers + k, NEW slot, NEW docker, Docks(k, h, slot, docker),
         plan'.slot = slot, plan'.docker = docker
  PROVE  BuiltDocked'
<1>1. k \in Nat /\ req.routers \in Nat /\ h - req.routers = k
  BY BuiltSizes DEF BuiltRequest
<1>2. Dealt = k /\ PlainUntil(Dealt)' = PlainUntil(k + 1)
  BY DEF Dealt, PlainUntil
<1>3. PICK P, Q : P = PlainUntil(k) /\ Q = PlainUntil(k + 1)
  OBVIOUS
<1>4. /\ plan.slot = Cardinality(P) /\ DOMAIN plan.docker = req.slots \cap 1..plan.slot
      /\ \A s \in DOMAIN plan.docker : plan.docker[s] - req.routers \in P
      /\ \A s, t \in DOMAIN plan.docker : plan.docker[s] = plan.docker[t] => s = t
  BY <1>2, <1>3 DEF BuiltDocked
<1>5. /\ k \notin P /\ plan.slot \in Nat /\ slot = Cardinality(Q) /\ P \subseteq Q
      /\ req.roles[k] = "host" => k \in Q
  BY <1>3, <1>4, PlainAdded DEF Docks
<1>6. CASE req.roles[k] = "host" /\ slot \in req.slots
  <2>1. slot = plan.slot + 1 /\ slot \notin DOMAIN plan.docker
    BY <1>4, <1>5, <1>6 DEF Docks
  <2>2. docker = Built!With(plan.docker, slot, h)
    BY <1>6 DEF Docks
  <2>3. /\ DOMAIN docker = DOMAIN plan.docker \cup {slot} /\ docker[slot] = h
        /\ \A s \in DOMAIN plan.docker : docker[s] = plan.docker[s]
    BY <2>1, <2>2 DEF Built!With
  <2>4. DOMAIN docker = req.slots \cap 1..slot
    BY <1>4, <1>5, <1>6, <2>1, <2>3
  <2>5. \A s \in DOMAIN docker : docker[s] - req.routers \in Q
    BY <1>1, <1>4, <1>5, <1>6, <2>3
  <2>6. \A s \in DOMAIN plan.docker : plan.docker[s] # h
    BY <1>1, <1>4, <1>5
  <2>7. \A s, t \in DOMAIN docker : docker[s] = docker[t] => s = t
    BY <1>4, <2>3, <2>6
  <2> QED BY <1>2, <1>3, <1>5, <2>4, <2>5, <2>7 DEF BuiltDocked, Late
<1>7. CASE ~(req.roles[k] = "host" /\ slot \in req.slots)
  <2>1. docker = plan.docker
    BY <1>7 DEF Docks
  <2>2. slot = plan.slot \/ (slot = plan.slot + 1 /\ slot \notin req.slots)
    BY <1>5, <1>7 DEF Docks
  <2>3. DOMAIN docker = req.slots \cap 1..slot
    BY <1>4, <1>5, <2>1, <2>2
  <2>4. \A s \in DOMAIN docker : docker[s] - req.routers \in Q
    BY <1>4, <1>5, <2>1
  <2> QED BY <1>2, <1>3, <1>4, <1>5, <2>1, <2>3, <2>4 DEF BuiltDocked, Late
<1> QED BY <1>6, <1>7

LEMMA BuiltAddsHost ==
  ASSUME BuiltRequest, BuiltInv, Built!AddsHost
  PROVE  BuiltInv'
<1>1. PICK k, h, r, j : k = plan.k /\ h = plan.counter /\ r = plan.deal[plan.k] /\ j = plan.next[r]
  OBVIOUS
<1>2. /\ req' = req /\ plan.pc = "hosts" /\ k \in 1..Built!Hosts /\ k \in Nat /\ k # 0
      /\ h = req.routers + k /\ h \in (req.routers + 1)..Base /\ h \in Nat
      /\ r \in Built!Routers /\ r \in 1..req.routers /\ plan.left = {}
      /\ plan.switches = <<>> /\ plan.lans = <<>> /\ req.routers \in Nat /\ Built!Hosts \in Nat
  <2>1. req' = req /\ plan.pc = "hosts" /\ k <= Built!Hosts
    BY <1>1 DEF Built!AddsHost
  <2>2. /\ plan.counter = req.routers + plan.k
        /\ plan.deal \in [1..Built!Hosts -> Built!Routers]
    BY <2>1 DEF BuiltInv, BuiltIds
  <2>3. k \in Nat \ {0} /\ req.routers \in Nat /\ Built!Hosts \in Nat /\ Base = req.routers + Built!Hosts
    BY <1>1, BuiltStages
  <2>4. h = req.routers + k /\ h \in (req.routers + 1)..Base /\ k \in 1..Built!Hosts
    BY <1>1, <2>1, <2>2, <2>3
  <2>5. r \in Built!Routers
    BY <1>1, <2>2, <2>4
  <2> QED BY <1>1, <2>1, <2>3, <2>4, <2>5, BuiltStages, BuiltSizes
<1>3. PICK ok \in Built!Answers(plan.counter, plan.deal[plan.k]) :
        plan' = [Built!Added(plan, plan.counter, 0, plan.deal[plan.k], plan.next[plan.deal[plan.k]], ok)
         EXCEPT
           !.next = Built!With(Built!With(@, plan.deal[plan.k], @[plan.deal[plan.k]] + 1), plan.counter, 1),
           !.home = Built!With(@, plan.counter, plan.deal[plan.k]), !.direct = @ \cup {plan.counter},
           !.slot = IF req.roles[plan.k] = "host" THEN plan.slot + 1 ELSE @,
           !.docker = IF req.roles[plan.k] = "host" /\ plan.slot + 1 \in req.slots
                      THEN Built!With(@, plan.slot + 1, plan.counter) ELSE @,
           !.counter = @ + 1, !.k = @ + 1]
  BY DEF Built!AddsHost
<1>0. ok \in BOOLEAN
  BY DEF Built!Answers
<1>4. PICK q : q = Built!Added(plan, h, 0, r, plan.next[r], ok)
  OBVIOUS
<1>5. Adds(plan, h, 0, r, j, ok, q)
  BY <1>0, <1>1, <1>4, BuiltAdded, BuiltStages
<1>6. PICK n, g, d : /\ n = Built!With(Built!With(plan.next, r, plan.next[r] + 1), h, 1)
                     /\ g = Built!With(plan.home, h, r) /\ d = plan.direct \cup {h}
  OBVIOUS
<1>7. PICK slot : slot = IF req.roles[k] = "host" THEN plan.slot + 1 ELSE plan.slot
  OBVIOUS
<1>8. PICK docker : docker = IF req.roles[k] = "host" /\ plan.slot + 1 \in req.slots
                             THEN Built!With(plan.docker, plan.slot + 1, h) ELSE plan.docker
  OBVIOUS
<1>9. Docks(k, h, slot, docker)
  <2>1. plan.slot = Cardinality(PlainUntil(k))
    BY <1>1, <1>2 DEF BuiltInv, BuiltDocked, Dealt
  <2>2. plan.slot \in Nat
    BY <1>2, <2>1, PlainAdded
  <2> QED BY <1>7, <1>8, <2>2 DEF Docks
<1>10. plan' = [q EXCEPT !.next = n, !.home = g, !.direct = d, !.slot = slot, !.docker = docker,
                         !.counter = h + 1, !.k = k + 1]
  <2>1. /\ BuiltRecord(q) /\ q.next = plan.next /\ q.home = plan.home /\ q.direct = plan.direct
        /\ q.slot = plan.slot /\ q.docker = plan.docker /\ q.counter = h /\ q.k = k
    BY <1>1, <1>5 DEF Adds, Beside
  <2>2. plan' = [q EXCEPT
           !.next = Built!With(Built!With(@, r, @[r] + 1), h, 1),
           !.home = Built!With(@, h, r), !.direct = @ \cup {h},
           !.slot = IF req.roles[k] = "host" THEN plan.slot + 1 ELSE @,
           !.docker = IF req.roles[k] = "host" /\ plan.slot + 1 \in req.slots
                      THEN Built!With(@, plan.slot + 1, h) ELSE @,
           !.counter = @ + 1, !.k = @ + 1]
    BY <1>1, <1>3, <1>4
  <2> QED BY <1>6, <1>7, <1>8, <2>1, <2>2 DEF BuiltRecord
<1>11. /\ BuiltRecord(plan)' /\ plan'.pc = plan.pc /\ plan'.next = n /\ plan'.home = g
       /\ plan'.deal = plan.deal /\ plan'.direct = d /\ plan'.slot = slot /\ plan'.docker = docker
       /\ plan'.switches = plan.switches /\ plan'.lans = plan.lans /\ plan'.k = k + 1
       /\ plan'.i = plan.i /\ plan'.left = plan.left /\ plan'.counter = h + 1
       /\ plan'.links = plan.links \cup Made(ok, {Built!Ports(h, 0, r, j)})
       /\ plan'.pairs = plan.pairs \cup Made(ok, {{h, r}})
       /\ plan'.lost = plan.lost + Missed(plan, h, r, ok)
  <2>1. /\ BuiltRecord(plan)' /\ plan'.pc = q.pc /\ plan'.next = n /\ plan'.home = g
        /\ plan'.deal = q.deal /\ plan'.direct = d /\ plan'.slot = slot /\ plan'.docker = docker
        /\ plan'.switches = q.switches /\ plan'.lans = q.lans /\ plan'.k = k + 1
        /\ plan'.i = q.i /\ plan'.left = q.left /\ plan'.counter = h + 1
        /\ plan'.links = q.links /\ plan'.pairs = q.pairs /\ plan'.lost = q.lost
    <3>1. BuiltRecord(q)
      BY <1>5 DEF Adds, Beside
    <3> QED BY <1>10, <3>1 DEF BuiltRecord
  <2> QED BY <1>5, <2>1 DEF Adds, Beside
<1>12. /\ h \notin Given /\ Given' = Given \cup {h} /\ g[h] = r
       /\ \A v \in Given : g[v] = plan.home[v]
  <2>1. h \notin Given
    BY <1>1, <1>2 DEF BuiltInv, BuiltIds
  <2> QED BY <1>6, <1>11, <2>1 DEF Built!With, Given
<1>13. /\ Lans' = Lans /\ Base' = Base /\ Built!Routers' = Built!Routers /\ Built!Hosts' = Built!Hosts
  BY <1>2, <1>11, BuiltNames DEF Lans
<1>14. /\ plan.next \in [Built!Routers \cup Given -> Nat] /\ j \in Nat
       /\ n \in [Built!Routers \cup Given' -> Nat]
       /\ n[h] = 1 /\ n[r] = j + 1 /\ \A v \in DOMAIN plan.next : v # r => n[v] = plan.next[v]
       /\ h \notin Built!Routers
  <2>1. plan.next \in [Built!Routers \cup Given -> Nat] /\ j \in Nat
    BY <1>1, <1>2 DEF BuiltInv, BuiltPorts
  <2>2. h \notin Built!Routers
    BY <1>2, BuiltSizes
  <2>3. PICK m : m = Built!With(plan.next, r, plan.next[r] + 1)
    OBVIOUS
  <2>4. m \in [Built!Routers \cup Given -> Nat] /\ m[r] = j + 1
        /\ \A v \in DOMAIN plan.next : v # r => m[v] = plan.next[v]
    <3>1. m = [v \in Built!Routers \cup Given |-> IF v = r THEN j + 1 ELSE plan.next[v]]
      BY <1>1, <1>2, <2>1, <2>3 DEF Built!With
    <3> QED BY <1>2, <2>1, <3>1
  <2>5. n = [v \in (Built!Routers \cup Given) \cup {h} |-> IF v = h THEN 1 ELSE m[v]]
    BY <1>1, <1>6, <2>3, <2>4 DEF Built!With
  <2> QED BY <1>2, <1>12, <2>1, <2>2, <2>4, <2>5
<1>15. {h, r} \notin plan.pairs /\ plan.counter \in Nat /\ Fresh = h /\ Fresh' = h + 1
       /\ \A l \in plan.links : h \notin DOMAIN l
  <2>1. Fresh = h /\ Fresh' = h + 1
    BY <1>1, <1>2, <1>11 DEF Fresh
  <2>2. \A p \in plan.pairs : h \notin p
    BY <1>2, <2>1 DEF BuiltInv, BuiltPorts
  <2> QED BY <1>1, <1>2, <2>1, <2>2 DEF BuiltInv, BuiltPorts
<1>16. plan'.lost = (plan.lost + IF ok THEN 0 ELSE 1) /\ plan.lost \in Nat /\ plan'.lost \in Nat
  BY <1>11, <1>15, BuiltStages DEF Missed
<1>17. BuiltShape' /\ BuiltIds' /\ BuiltSwitches' /\ BuiltTurns' /\ BuiltLeft'
  <2>1. BuiltShape'
    <3>1. k + 1 \in Nat \ {0} /\ h + 1 \in Nat
      BY <1>2
    <3> QED BY <1>2, <1>11, <1>16, <3>1, BuiltStages DEF BuiltShape
  <2>2. BuiltIds'
    <3>1. \A v \in Given' : /\ v \in (req.routers + 1)..Base /\ v < h + 1
                           /\ g[v] \in Built!Routers
      <4>1. \A v \in Given : v \in (req.routers + 1)..Base /\ v < h /\ plan.home[v] \in Built!Routers
        BY <1>1 DEF BuiltInv, BuiltIds
      <4>2. \A v \in Given : v < h + 1
        BY <1>2, <4>1, BuiltStages
      <4>3. h < h + 1
        BY <1>2
      <4> QED BY <1>2, <1>12, <4>1, <4>2, <4>3
    <3>2. h + 1 = req.routers + (k + 1) /\ k + 1 <= Built!Hosts + 1
      BY <1>2
    <3>3. plan.deal \in [1..Built!Hosts -> Built!Routers]
      BY <1>2 DEF BuiltInv, BuiltIds
    <3> QED BY <1>2, <1>11, <1>13, <3>1, <3>2, <3>3 DEF BuiltIds, Late
  <2>3. BuiltSwitches'
    <3>1. plan'.switches = <<>> /\ plan'.lans = <<>> /\ <<>> \in Seq(Drawn) /\ DOMAIN <<>> = {}
      BY <1>2, <1>11
    <3> QED BY <1>2, <1>11, <3>1 DEF BuiltSwitches, Late
  <2>4. BuiltTurns'
    BY <1>2, <1>6, <1>11, <1>12 DEF BuiltInv, BuiltTurns
  <2>5. BuiltLeft'
    BY <1>2, <1>11 DEF BuiltLeft
  <2> QED BY <2>1, <2>2, <2>3, <2>4, <2>5
<1>18. BuiltPorts'
  <2>1. r # h /\ h \in 1..h /\ r \in 1..h /\ h + 1 - 1 = h
    BY <1>2
  <2>2. \A l \in plan.links : r \in DOMAIN l => l[r] # j
    <3>1. r \in DOMAIN plan.next
      BY <1>2, <1>14
    <3>2. \A l \in plan.links : \A v \in DOMAIN l :
            l[v] \in Nat /\ (v \in DOMAIN plan.next => l[v] < plan.next[v])
      BY DEF BuiltInv, BuiltPorts
    <3> QED BY <1>1, <1>14, <3>1, <3>2
  <2>3. Wired(h, 0, r, j)
    <3>1. \/ plan'.links = plan.links /\ plan'.pairs = plan.pairs
          \/ /\ plan'.links = plan.links \cup {Built!Ports(h, 0, r, j)}
             /\ plan'.pairs = plan.pairs \cup {{h, r}}
      BY <1>0, <1>11 DEF Made
    <3> QED BY <1>14, <1>15, <2>1, <2>2, <3>1 DEF Wired
  <2>4. \A v \in DOMAIN plan.next : n[v] >= plan.next[v] /\ v \in DOMAIN n
    <3> TAKE v \in DOMAIN plan.next
    <3>1. CASE v = r
      BY <1>1, <1>2, <1>14, <3>1
    <3>2. CASE v # r
      BY <1>12, <1>14, <3>2
    <3> QED BY <3>1, <3>2
  <2>5. \A v \in Given' : n[v] # 0
    <3>1. \A v \in Given : plan.next[v] # 0 /\ v # r
      BY <1>2 DEF BuiltInv, BuiltPorts, BuiltIds
    <3> QED BY <1>12, <1>14, <3>1
  <2>6. Spends(h, 0, r, j)
    <3>1. \A v \in DOMAIN n : v < h => v \in DOMAIN plan.next
      BY <1>2, <1>12, <1>14
    <3>2. Fresh \in Nat /\ Fresh' \in Nat /\ Fresh <= Fresh' /\ Lans \subseteq Lans' /\ plan'.pc # "switch"
      BY SMTT(20), <1>2, <1>11, <1>13, <1>15
    <3>3. 0 < n[h] /\ j < n[r]
      BY <1>14
    <3>4. plan'.next = n /\ Built!Routers' = Built!Routers /\ Fresh = h
      BY <1>11, <1>13, <1>15
    <3> QED BY <1>14, <2>4, <2>5, <3>1, <3>2, <3>3, <3>4 DEF Spends
  <2>7. BuiltPorts
    BY DEF BuiltInv
  <2> QED BY <1>2, <1>14, <2>3, <2>6, <2>7, BuiltWires
<1>19. BuiltHosts'
  <2>1. Moves(h, r, 0, j, ok)
    <3>1. Place(h, r)'
      BY <1>6, <1>11, <1>12 DEF Place
    <3>2. r \notin Given
      BY <1>2, BuiltSizes DEF BuiltInv, BuiltIds
    <3>3. Grows(plan.switches, plan'.switches) /\ Grows(plan.lans, plan'.lans)
      BY <1>11 DEF Grows
    <3>4. /\ \A l \in plan.links : l \in plan'.links
          /\ \A l \in plan'.links : l \in plan.links \/ (ok /\ l = Built!Ports(h, 0, r, j))
          /\ ok => Built!Ports(h, 0, r, j) \in plan'.links
      BY <1>0, <1>11 DEF Made
    <3>5. DOMAIN Built!Ports(h, 0, r, j) = {h, r}
      BY DEF Built!Ports
    <3>6. \A v \in Given \ {h} : plan'.home[v] = plan.home[v] /\ (v \in plan'.direct <=> v \in plan.direct)
      BY <1>6, <1>11, <1>12
    <3> QED BY <1>2, <1>12, <1>15, <1>16, <3>1, <3>2, <3>3, <3>4, <3>5, <3>6 DEF Moves
  <2>2. Moved
    BY <1>0, <2>1, BuiltMoves
  <2>3. \A m : ~Opened(m) /\ ~Opened(m)'
    BY <1>2, <1>11 DEF Opened, Late
  <2>4. DOMAIN plan'.lans = {}
    BY <1>2, <1>11
  <2> QED BY <2>2, <2>3, <2>4 DEF Moved, BuiltHosts
<1>20. BuiltDocked'
  <2>1. BuiltDocked
    BY DEF BuiltInv
  <2> QED BY <1>1, <1>2, <1>9, <1>11, <2>1, BuiltDocks
<1> QED BY <1>17, <1>18, <1>19, <1>20 DEF BuiltInv

-----------------------------------------------------------------------------
(* Hosts that move behind the switches of the planner *)
AtTurn(k, s) ==
  /\ k \in DOMAIN plan.switches /\ k \in Nat \ {0} /\ s.id = Base + k
  /\ s.router \in Built!Routers /\ s.router \in 1..req.routers
  /\ s.hosts \subseteq Built!HostsOf(s.router) /\ s.hosts \subseteq Given
  /\ s.id \in Nat /\ s.id > Base /\ s.router <= Base /\ s.id \notin Given
  /\ s.router \notin Given /\ Base \in Nat /\ req.routers \in Nat
  /\ plan.counter = Base + 1 /\ plan.lans = <<>>
  /\ plan.next \in [Built!Routers \cup Given -> Nat]
  /\ s.id \notin Built!Routers /\ s.id \notin DOMAIN plan.next

LEMMA SwitchTurn ==
  ASSUME BuiltRequest, BuiltInv, plan.pc = "switch",
         NEW k, k = plan.k, k <= Len(plan.switches), NEW s, s = plan.switches[k]
  PROVE  AtTurn(k, s)
<1>1. k \in DOMAIN plan.switches /\ k \in Nat \ {0} /\ Base \in Nat /\ req.routers \in Nat
      /\ Base = req.routers + Built!Hosts /\ Built!Hosts \in Nat /\ plan.lans = <<>>
  BY BuiltStages
<1>2. /\ s.id = Base + k /\ s.router \in Built!Routers
      /\ s.hosts \subseteq Built!HostsOf(s.router)
  BY <1>1 DEF BuiltInv, BuiltSwitches
<1>3. s.router \in 1..req.routers
  BY <1>2, BuiltSizes
<1>4. s.id \in Nat /\ s.id > Base /\ s.router <= Base
  BY SMTT(20), <1>1, <1>2, <1>3
<1>5. \A h \in Given : h \in (req.routers + 1)..Base
  BY DEF BuiltInv, BuiltIds
<1>6. s.id \notin Given /\ s.router \notin Given /\ s.id \notin Built!Routers
  BY SMTT(20), <1>1, <1>3, <1>4, <1>5, BuiltSizes
<1>7. plan.counter = Base + 1 /\ plan.next \in [Built!Routers \cup Given -> Nat]
  BY DEF BuiltInv, BuiltIds, BuiltPorts
<1>8. s.hosts \subseteq Given
  BY <1>2 DEF Built!HostsOf, Given
<1> QED BY <1>1, <1>2, <1>3, <1>4, <1>6, <1>7, <1>8 DEF AtTurn

\* The stage of the switches, where hosts move and links change.
Turns ==
  /\ req' = req /\ BuiltRecord(plan)' /\ plan.pc = "switch" /\ plan'.pc = "switch"
  /\ plan'.home = plan.home /\ plan'.slot = plan.slot /\ plan'.docker = plan.docker
  /\ plan'.switches = plan.switches /\ plan'.lans = plan.lans /\ plan'.k = plan.k
  /\ plan.k <= Len(plan.switches) /\ plan'.i = plan.i + 1 /\ plan'.counter = plan.counter
  /\ plan'.lost \in Nat

LEMMA BuiltTurn ==
  ASSUME BuiltRequest, BuiltInv, Turns
  PROVE  BuiltShape' /\ BuiltIds' /\ BuiltSwitches' /\ BuiltDocked'
         /\ Given' = Given /\ Lans' = {} /\ Lans = {} /\ Base' = Base /\ Built!Routers' = Built!Routers
         /\ Fresh' = Base + plan.k + 1 /\ plan'.i \in Nat /\ plan'.i > 0
<1>1. /\ Given' = Given /\ Lans' = Lans /\ Base' = Base /\ Built!Routers' = Built!Routers
      /\ Built!Hosts' = Built!Hosts /\ \A r : Built!HostsOf(r)' = Built!HostsOf(r)
  BY BuiltNames DEF Given, Lans, Built!HostsOf, Turns
<1>2. plan'.i \in Nat /\ plan'.i > 0 /\ plan.i + 1 # 0
  BY BuiltStages DEF Turns
<1>3. Lans = {}
  BY BuiltStages DEF Lans, Turns
<1>4. BuiltShape'
  BY <1>2, BuiltStages DEF BuiltShape, Turns
<1>5. BuiltIds'
  <2>1. plan.k # Len(plan.switches) + 1 /\ plan.k <= Len(plan.switches) + 1
    BY BuiltStages DEF Turns
  <2> QED BY <1>1, <2>1 DEF BuiltIds, BuiltInv, Late, Turns
<1>6. BuiltSwitches'
  BY <1>1 DEF BuiltSwitches, BuiltInv, Late, Turns
<1>7. BuiltDocked'
  <2>1. PlainUntil(Dealt)' = PlainUntil(Dealt)
    BY <1>1 DEF PlainUntil, Dealt, Turns
  <2> QED BY <1>1, <2>1 DEF BuiltInv, BuiltDocked, Late, Turns
<1>8. Fresh' = Base + plan.k + 1
  <2>1. Fresh' = Base + plan.k + IF plan'.i > 0 THEN 1 ELSE 0
    BY <1>1 DEF Fresh, Turns
  <2> QED BY <1>2, <2>1
<1> QED BY <1>1, <1>2, <1>3, <1>4, <1>5, <1>6, <1>7, <1>8

LEMMA BuiltLinksSwitch ==
  ASSUME BuiltRequest, BuiltInv, Built!LinksSwitch
  PROVE  BuiltInv'
<1>1. PICK k, s, r, w, i : /\ k = plan.k /\ s = plan.switches[k] /\ r = s.router /\ w = s.id
                           /\ i = plan.next[r]
  OBVIOUS
<1>2. /\ req' = req /\ plan.pc = "switch" /\ k <= Len(plan.switches) /\ plan.i = 0
  BY <1>1 DEF Built!LinksSwitch
<1>3. PICK ok \in Built!Answers(r, w) :
        plan' = [Built!Added(plan, r, plan.next[r], w, 0, ok)
                   EXCEPT !.next[r] = @ + 1, !.i = 1, !.left = s.hosts]
  BY <1>1 DEF Built!LinksSwitch, Built!Switch
<1>4. ok \in BOOLEAN
  BY DEF Built!Answers
<1>5. /\ k \in DOMAIN plan.switches /\ k \in Nat \ {0} /\ w = Base + k
      /\ r \in Built!Routers /\ r \in 1..req.routers
      /\ s.hosts \subseteq Built!HostsOf(r) /\ s.hosts \subseteq Given
      /\ w \in Nat /\ w > Base /\ r <= Base /\ w \notin Given
      /\ r \notin Given /\ Base \in Nat /\ req.routers \in Nat
      /\ plan.counter = Base + 1 /\ plan.lans = <<>>
      /\ plan.next \in [Built!Routers \cup Given -> Nat]
      /\ w \notin Built!Routers /\ w \notin DOMAIN plan.next
  <2>1. AtTurn(k, s)
    BY <1>1, <1>2, SwitchTurn
  <2> QED BY <1>1, <2>1 DEF AtTurn
<1>6. PICK q : q = Built!Added(plan, r, i, w, 0, ok)
  OBVIOUS
<1>7. Adds(plan, r, i, w, 0, ok, q)
  BY <1>4, <1>6, BuiltAdded, BuiltStages
<1>8. PICK n, H : n = [plan.next EXCEPT ![r] = i + 1] /\ H = s.hosts
  OBVIOUS
<1>9. plan' = [q EXCEPT !.next = n, !.i = 1, !.left = H]
  <2>1. q.next = plan.next /\ BuiltRecord(q)
    BY <1>7 DEF Adds, Beside
  <2>2. plan' = [q EXCEPT !.next[r] = @ + 1, !.i = 1, !.left = H]
    BY <1>1, <1>3, <1>6, <1>8
  <2> QED BY <1>1, <1>8, <2>1, <2>2 DEF BuiltRecord
<1>10. /\ BuiltRecord(plan)' /\ plan'.pc = plan.pc /\ plan'.next = n /\ plan'.home = plan.home
       /\ plan'.direct = plan.direct /\ plan'.slot = plan.slot /\ plan'.docker = plan.docker
       /\ plan'.switches = plan.switches /\ plan'.lans = plan.lans /\ plan'.k = k
       /\ plan'.i = 1 /\ plan'.left = H /\ plan'.counter = plan.counter
       /\ plan'.links = plan.links \cup Made(ok, {Built!Ports(r, i, w, 0)})
       /\ plan'.pairs = plan.pairs \cup Made(ok, {{r, w}})
       /\ plan'.lost = plan.lost + Missed(plan, r, w, ok)
  <2>1. /\ BuiltRecord(plan)' /\ plan'.pc = q.pc /\ plan'.next = n /\ plan'.home = q.home
        /\ plan'.direct = q.direct /\ plan'.slot = q.slot /\ plan'.docker = q.docker
        /\ plan'.switches = q.switches /\ plan'.lans = q.lans /\ plan'.k = q.k
        /\ plan'.i = 1 /\ plan'.left = H /\ plan'.counter = q.counter
        /\ plan'.links = q.links /\ plan'.pairs = q.pairs /\ plan'.lost = q.lost
    <3>1. BuiltRecord(q)
      BY <1>7 DEF Adds, Beside
    <3> QED BY <1>9, <3>1 DEF BuiltRecord
  <2> QED BY <1>1, <1>7, <2>1 DEF Adds, Beside
<1>11. /\ Fresh = w /\ {r, w} \notin plan.pairs /\ \A p \in plan.pairs : w \notin p
  <2>1. Fresh = w
    BY <1>1, <1>2, <1>5 DEF Fresh
  <2> QED BY <1>5, <2>1 DEF BuiltInv, BuiltPorts
<1>12. plan'.lost = (plan.lost + IF ok THEN 0 ELSE 1) /\ plan.lost \in Nat /\ plan'.lost \in Nat
       /\ plan'.lost >= plan.lost
  <2>1. plan'.lost = plan.lost + IF ok THEN 0 ELSE 1
    BY <1>10, <1>11 DEF Missed
  <2>2. plan.lost \in Nat
    BY BuiltStages
  <2> QED BY <2>1, <2>2
<1>13. Turns
  BY <1>1, <1>2, <1>10, <1>12 DEF Turns
<1>14. BuiltShape' /\ BuiltIds' /\ BuiltSwitches' /\ BuiltDocked'
       /\ Given' = Given /\ Lans' = {} /\ Lans = {} /\ Base' = Base /\ Built!Routers' = Built!Routers
       /\ Fresh' = w + 1
  BY <1>1, <1>5, <1>13, BuiltTurn
<1>15. i \in Nat /\ n \in [Built!Routers \cup Given -> Nat] /\ n[r] = i + 1
       /\ \A v \in DOMAIN plan.next : n[v] >= plan.next[v]
  <2>1. i \in Nat /\ r \in Built!Routers \cup Given /\ i = plan.next[r]
    BY <1>1, <1>5
  <2>2. n \in [Built!Routers \cup Given -> Nat] /\ n[r] = i + 1
    BY <1>5, <1>8, <2>1
  <2>3. \A v \in DOMAIN plan.next : n[v] >= plan.next[v]
    <3> TAKE v \in DOMAIN plan.next
    <3>1. CASE v = r
      BY <2>1, <2>2, <3>1
    <3>2. CASE v # r
      BY <1>5, <1>8, <3>2
    <3> QED BY <3>1, <3>2
  <2> QED BY <2>1, <2>2, <2>3
<1>16. BuiltPorts'
  <2>1. \A l \in plan.links : r \in DOMAIN l => l[r] # i
    <3>1. r \in DOMAIN plan.next
      BY <1>5
    <3>2. \A l \in plan.links : \A v \in DOMAIN l :
            l[v] \in Nat /\ (v \in DOMAIN plan.next => l[v] < plan.next[v])
      BY DEF BuiltInv, BuiltPorts
    <3> QED BY <1>1, <1>15, <3>1, <3>2
  <2>2. \A l \in plan.links : w \notin DOMAIN l
    BY <1>11 DEF BuiltInv, BuiltPorts
  <2>3. Wired(r, i, w, 0)
    <3>1. \/ plan'.links = plan.links /\ plan'.pairs = plan.pairs
          \/ /\ plan'.links = plan.links \cup {Built!Ports(r, i, w, 0)}
             /\ plan'.pairs = plan.pairs \cup {{r, w}}
      BY <1>4, <1>10 DEF Made
    <3>2. r # w /\ r \in 1..(Fresh' - 1) /\ w \in 1..(Fresh' - 1)
      BY <1>5, <1>14
    <3> QED BY <1>15, <2>1, <2>2, <3>1, <3>2 DEF Wired
  <2>4. \A h \in Given : n[h] # 0
    <3>1. \A h \in Given : plan.next[h] # 0 /\ plan.next[h] \in Nat /\ n[h] >= plan.next[h] /\ n[h] \in Nat
      BY <1>5, <1>15 DEF BuiltInv, BuiltPorts
    <3> QED BY <3>1
  <2>5. Spends(r, i, w, 0)
    <3>1. Fresh \in Nat /\ Fresh' \in Nat /\ Fresh <= Fresh' /\ Lans \subseteq Lans'
      BY <1>5, <1>11, <1>14
    <3>2. i < n[r] /\ w \notin DOMAIN n
      BY <1>5, <1>15
    <3>3. /\ \A l \in plan.links : Base + plan'.k \in DOMAIN l => l[Base + plan'.k] < plan'.i
          /\ r # Base + plan'.k /\ 0 < plan'.i
      BY <1>5, <1>10, <2>2
    <3> QED BY <1>10, <1>14, <1>15, <1>5, <2>4, <3>1, <3>2, <3>3 DEF Spends
  <2>6. BuiltPorts
    BY DEF BuiltInv
  <2> QED BY <1>2, <1>5, <2>3, <2>5, <2>6, BuiltWires
<1>17. BuiltLeft'
  <2>1. Current' = w
    BY <1>1, <1>2, <1>5, <1>10, <1>14 DEF Current
  <2>2. \A h \in H : {h, w} \notin plan'.pairs
    <3>1. \A h \in H : h # r /\ h # w
      BY <1>5, <1>8
    <3> QED BY <1>4, <1>10, <1>11, <3>1 DEF Made
  <2>3. plan'.pc = "switch" /\ plan'.i # 0 /\ plan'.left = H
    BY <1>2, <1>10
  <2>4. \A h \in plan'.left : {h, Current'} \notin plan'.pairs
    BY <2>1, <2>2, <2>3
  <2> QED BY <2>3, <2>4 DEF BuiltLeft
<1>18. \A m \in DOMAIN plan.switches : Opened(m)' <=> Opened(m) \/ m = k
  BY <1>1, <1>2, <1>10 DEF Opened, Late
<1>19. BuiltTurns'
  <2>1. ~Opened(k)
    BY <1>1, <1>2, <1>5 DEF Opened, Late
  <2>2. \A m \in DOMAIN plan.switches :
       plan.switches[m].hosts \cap plan.direct =
         IF Opened(m) THEN (IF plan.pc = "switch" /\ m = plan.k THEN plan.left ELSE {})
         ELSE plan.switches[m].hosts
    BY DEF BuiltInv, BuiltTurns
  <2>3. plan.direct \subseteq Given
    BY DEF BuiltInv, BuiltTurns
  <2>4. \A m \in DOMAIN plan.switches :
       plan.switches[m].hosts \cap plan.direct =
         IF Opened(m)' THEN (IF m = k THEN H ELSE {}) ELSE plan.switches[m].hosts
    BY <1>1, <1>8, <1>18, <2>1, <2>2
  <2> QED BY <1>2, <1>10, <1>14, <2>3, <2>4 DEF BuiltTurns
<1>20. BuiltHosts'
  <2>1. Joins(r, i, w, 0, ok)
    BY <1>2, <1>5, <1>10, <1>12 DEF Joins, Grows
  <2>2. /\ \A h \in Given' : Placed(h)'
        /\ Cardinality(Unlinked') <= plan'.lost
        /\ plan'.lost = 0 =>
             /\ \A m \in DOMAIN plan.switches : Opened(m) => Uplinked(plan.switches[m])'
             /\ \A m \in DOMAIN plan.lans : Uplinked(plan.lans[m])'
    BY <2>1, BuiltJoins
  <2>3. plan'.lost = 0 => Uplinked(plan.switches[k])'
    <3>1. HAVE plan'.lost = 0
    <3>2. Built!Ports(r, i, w, 0) \in plan'.links
      BY <1>4, <1>10, <1>12, <3>1 DEF Made
    <3>3. DOMAIN Built!Ports(r, i, w, 0) = {r, w}
      BY DEF Built!Ports
    <3>4. plan'.switches[k] = s
      BY <1>1, <1>10
    <3> QED BY <1>1, <3>2, <3>3, <3>4, <1>10 DEF Uplinked
  <2>4. DOMAIN plan'.lans = {} /\ DOMAIN plan.lans = {}
    BY <1>5, <1>10
  <2> QED BY <1>10, <1>18, <2>2, <2>3, <2>4 DEF BuiltHosts
<1> QED BY <1>14, <1>16, <1>17, <1>19, <1>20 DEF BuiltInv

LEMMA BuiltRehomesHost ==
  ASSUME BuiltRequest, BuiltInv, Built!RehomesHost
  PROVE  BuiltInv'
<1>1. PICK k, s, r, w, c : /\ k = plan.k /\ s = plan.switches[k] /\ r = s.router /\ w = s.id
                           /\ c = plan.i
  OBVIOUS
<1>2. /\ req' = req /\ plan.pc = "switch" /\ k <= Len(plan.switches)
  BY <1>1 DEF Built!RehomesHost
<1>5. /\ k \in DOMAIN plan.switches /\ k \in Nat \ {0} /\ w = Base + k
      /\ r \in Built!Routers /\ r \in 1..req.routers
      /\ s.hosts \subseteq Built!HostsOf(r) /\ s.hosts \subseteq Given
      /\ w \in Nat /\ w > Base /\ r <= Base /\ w \notin Given
      /\ r \notin Given /\ Base \in Nat /\ req.routers \in Nat
      /\ plan.counter = Base + 1 /\ plan.lans = <<>>
      /\ plan.next \in [Built!Routers \cup Given -> Nat]
      /\ w \notin Built!Routers /\ w \notin DOMAIN plan.next
  <2>1. AtTurn(k, s)
    BY <1>1, <1>2, SwitchTurn
  <2> QED BY <1>1, <2>1 DEF AtTurn
\* The switch is linked, and the hosts that are left are linked directly.
<1>3. c \in Nat /\ (plan.left # {} => c > 0 /\ plan.left = s.hosts \cap plan.direct)
  <2>1. c \in Nat /\ (plan.left # {} => c # 0)
    BY <1>1, <1>2, BuiltStages
  <2>2. c # 0 => Opened(k)
    BY <1>1, <1>2, <2>1 DEF Opened
  <2>3. Opened(k) => s.hosts \cap plan.direct = plan.left
    BY <1>1, <1>2, <1>5 DEF BuiltInv, BuiltTurns
  <2> QED BY <2>1, <2>2, <2>3
<1>4. PICK h \in plan.left :
        LET p == IF h \in plan.direct THEN Built!Removed(plan, h, Built!Switch.router) ELSE plan
        IN  \E ok \in Built!Answers(h, Built!Switch.id) :
            plan' = [Built!Added(p, h, plan.next[h], Built!Switch.id, plan.i, ok)
                       EXCEPT !.next[h] = @ + 1, !.direct = @ \ {h}, !.i = @ + 1,
                              !.left = @ \ {h}]
  BY Zenon DEF Built!RehomesHost
<1>6. /\ h \in plan.direct /\ h \in s.hosts /\ h \in Given /\ c > 0 /\ plan.home[h] = r
      /\ h \in (req.routers + 1)..Base /\ h # w /\ h # r /\ h \notin Built!Routers
      /\ {h, w} \notin plan.pairs /\ Opened(k)
  <2>1. h \in plan.direct /\ h \in s.hosts /\ c > 0
    BY <1>3, <1>4
  <2>2. h \in Given /\ plan.home[h] = r /\ h \in (req.routers + 1)..Base
    BY <1>5, <2>1 DEF Built!HostsOf, Given, BuiltInv, BuiltIds
  <2>3. {h, w} \notin plan.pairs
    BY <1>1, <1>2, <1>4, <1>5 DEF BuiltInv, BuiltLeft, Current
  <2>4. h # w /\ h # r /\ h \notin Built!Routers
    BY <1>5, <2>2, BuiltSizes
  <2>5. Opened(k)
    BY <1>1, <1>2, <2>1 DEF Opened
  <2> QED BY <2>1, <2>2, <2>3, <2>4, <2>5
<1>7. PICK ok \in BOOLEAN :
        plan' = [Built!Added(Built!Removed(plan, h, r), h, plan.next[h], w, plan.i, ok)
                       EXCEPT !.next[h] = @ + 1, !.direct = @ \ {h}, !.i = @ + 1,
                              !.left = @ \ {h}]
  BY <1>1, <1>4, <1>6 DEF Built!Answers, Built!Switch
<1>8. PICK j, p, q : /\ j = plan.next[h] /\ p = Built!Removed(plan, h, r)
                     /\ q = Built!Added(p, h, j, w, c, ok)
  OBVIOUS
<1>9. Drops(plan, h, r, p)
  BY <1>8, BuiltRemoved, BuiltStages
<1>10. Adds(p, h, j, w, c, ok, q)
  BY <1>8, <1>9, BuiltAdded DEF Drops, Beside
<1>11. PICK n, d, H : /\ n = [plan.next EXCEPT ![h] = j + 1] /\ d = plan.direct \ {h}
                      /\ H = plan.left \ {h}
  OBVIOUS
<1>12. /\ Beside(plan, q)
       /\ q.links = {l \in plan.links : DOMAIN l # {h, r}} \cup Made(ok, {Built!Ports(h, j, w, c)})
       /\ q.pairs = plan.pairs \cup Made(ok, {{h, w}})
       /\ q.lost = plan.lost + IF ok THEN 0 ELSE 1
  <2>1. p.pairs = plan.pairs /\ p.links = {l \in plan.links : DOMAIN l # {h, r}} /\ p.lost = plan.lost
        /\ Beside(plan, p)
    BY <1>9 DEF Drops
  <2>2. Beside(plan, q)
    BY <1>10, <2>1 DEF Adds, Beside
  <2> QED BY <1>6, <1>10, <2>1, <2>2 DEF Adds, Missed
<1>13. plan' = [q EXCEPT !.next = n, !.direct = d, !.i = c + 1, !.left = H]
  <2>1. q.next = plan.next /\ BuiltRecord(q) /\ q.direct = plan.direct /\ q.i = c /\ q.left = plan.left
    BY <1>1, <1>12 DEF Beside
  <2>2. plan' = [q EXCEPT !.next[h] = @ + 1, !.direct = @ \ {h}, !.i = @ + 1, !.left = @ \ {h}]
    BY <1>1, <1>7, <1>8
  <2> QED BY <1>8, <1>11, <2>1, <2>2 DEF BuiltRecord
<1>14. /\ BuiltRecord(plan)' /\ plan'.pc = plan.pc /\ plan'.next = n /\ plan'.home = plan.home
       /\ plan'.direct = d /\ plan'.slot = plan.slot /\ plan'.docker = plan.docker
       /\ plan'.switches = plan.switches /\ plan'.lans = plan.lans /\ plan'.k = k
       /\ plan'.i = c + 1 /\ plan'.left = H /\ plan'.counter = plan.counter
       /\ plan'.links = q.links /\ plan'.pairs = q.pairs /\ plan'.lost = q.lost
  <2>1. /\ BuiltRecord(plan)' /\ plan'.pc = q.pc /\ plan'.next = n /\ plan'.home = q.home
        /\ plan'.direct = d /\ plan'.slot = q.slot /\ plan'.docker = q.docker
        /\ plan'.switches = q.switches /\ plan'.lans = q.lans /\ plan'.k = q.k
        /\ plan'.i = c + 1 /\ plan'.left = H /\ plan'.counter = q.counter
        /\ plan'.links = q.links /\ plan'.pairs = q.pairs /\ plan'.lost = q.lost
    <3>1. BuiltRecord(q)
      BY <1>12 DEF Beside
    <3> QED BY <1>13, <3>1 DEF BuiltRecord
  <2> QED BY <1>1, <1>12, <2>1 DEF Beside
<1>15. plan'.lost = (plan.lost + IF ok THEN 0 ELSE 1) /\ plan.lost \in Nat /\ plan'.lost \in Nat
  BY <1>12, <1>14, BuiltStages
<1>16. Turns
  BY <1>1, <1>2, <1>14, <1>15 DEF Turns
<1>17. BuiltShape' /\ BuiltIds' /\ BuiltSwitches' /\ BuiltDocked'
       /\ Given' = Given /\ Lans' = {} /\ Lans = {} /\ Base' = Base /\ Built!Routers' = Built!Routers
       /\ Fresh' = w + 1
  BY <1>1, <1>5, <1>16, BuiltTurn
<1>18. j \in Nat /\ n \in [Built!Routers \cup Given -> Nat] /\ n[h] = j + 1
       /\ \A v \in DOMAIN plan.next : n[v] >= plan.next[v]
  <2>1. j \in Nat /\ h \in Built!Routers \cup Given /\ j = plan.next[h]
    BY <1>5, <1>6, <1>8
  <2>2. n \in [Built!Routers \cup Given -> Nat] /\ n[h] = j + 1
    BY <1>5, <1>11, <2>1
  <2>3. \A v \in DOMAIN plan.next : n[v] >= plan.next[v]
    <3> TAKE v \in DOMAIN plan.next
    <3>1. CASE v = h
      BY <2>1, <2>2, <3>1
    <3>2. CASE v # h
      BY <1>5, <1>11, <3>2
    <3> QED BY <3>1, <3>2
  <2> QED BY <2>1, <2>2, <2>3
<1>19. Fresh = w + 1 /\ Fresh \in Nat
  BY <1>1, <1>2, <1>5, <1>6 DEF Fresh
<1>20. BuiltPorts'
  <2>0. BuiltPorts /\ plan'.i = c + 1 /\ plan'.pc = "switch" /\ plan'.k = k
    BY <1>2, <1>14 DEF BuiltInv
  <2>1. \A l \in plan.links : h \in DOMAIN l => l[h] # j
    <3>1. h \in DOMAIN plan.next
      BY <1>5, <1>6
    <3>2. \A l \in plan.links : \A v \in DOMAIN l :
            l[v] \in Nat /\ (v \in DOMAIN plan.next => l[v] < plan.next[v])
      BY <2>0 DEF BuiltPorts
    <3> QED BY <1>8, <1>18, <3>1, <3>2
  <2>2. \A l \in plan.links : w \in DOMAIN l => l[w] \in Nat /\ l[w] < c
    BY <1>1, <1>2, <1>5, <1>6, <2>0 DEF BuiltPorts
  <2>3. Wired(h, j, w, c)
    <3>1. \/ plan'.links \subseteq plan.links /\ plan'.pairs = plan.pairs
          \/ /\ plan'.links \subseteq plan.links \cup {Built!Ports(h, j, w, c)}
             /\ plan'.pairs = plan.pairs \cup {{h, w}}
      BY <1>12, <1>14 DEF Made
    <3>2. h # w /\ h \in 1..(Fresh' - 1) /\ w \in 1..(Fresh' - 1)
      BY <1>5, <1>6, <1>17
    <3>3. \A l \in plan.links : w \in DOMAIN l => l[w] # c
      BY <1>3, <2>2
    <3> QED BY <1>3, <1>18, <2>1, <3>1, <3>2, <3>3 DEF Wired
  <2>4. \A g \in Given : n[g] # 0
    <3>1. \A g \in Given : plan.next[g] # 0 /\ plan.next[g] \in Nat /\ n[g] >= plan.next[g] /\ n[g] \in Nat
      BY <1>5, <1>18, <2>0 DEF BuiltPorts
    <3> QED BY <3>1
  <2>5. Spends(h, j, w, c)
    <3>1. Fresh \in Nat /\ Fresh' \in Nat /\ Fresh <= Fresh' /\ Lans \subseteq Lans'
      BY <1>17, <1>19
    <3>2. j < n[h] /\ w \notin DOMAIN n
      BY <1>5, <1>18
    <3>3. /\ \A l \in plan.links : Base + k \in DOMAIN l => l[Base + k] < c + 1
          /\ h # Base + k /\ c < c + 1
      <4>1. \A l \in plan.links : w \in DOMAIN l => l[w] < c + 1
        BY <1>3, <2>2
      <4> QED BY <1>3, <1>5, <1>6, <4>1
    <3>4. plan'.next = n /\ DOMAIN plan.next = DOMAIN n
      BY <1>5, <1>14, <1>18
    <3> QED BY <1>17, <1>18, <2>0, <2>4, <3>1, <3>2, <3>3, <3>4 DEF Spends
  <2> QED BY <1>2, <1>5, <2>0, <2>3, <2>5, BuiltWires
<1>21. BuiltLeft'
  <2>1. Current' = w
    BY <1>1, <1>2, <1>5, <1>14, <1>17 DEF Current
  <2>2. \A g \in H : {g, w} \notin plan'.pairs
    <3>1. \A g \in H : g # h /\ {g, w} \notin plan.pairs
      BY <1>1, <1>2, <1>5, <1>11 DEF BuiltInv, BuiltLeft, Current
    <3>2. \A g \in H : {g, w} # {h, w}
      BY <1>6, <3>1
    <3> QED BY <1>12, <1>14, <3>1, <3>2 DEF Made
  <2>3. plan'.pc = "switch" /\ plan'.i # 0 /\ plan'.left = H
    BY <1>2, <1>3, <1>14
  <2>4. \A g \in plan'.left : {g, Current'} \notin plan'.pairs
    BY <2>1, <2>2, <2>3
  <2> QED BY <2>3, <2>4 DEF BuiltLeft
<1>22. \A m \in DOMAIN plan.switches : Opened(m)' <=> Opened(m)
  <2>1. c > 0 /\ c + 1 > 0
    BY <1>3, <1>6
  <2> QED BY <1>1, <1>2, <1>14, <2>1 DEF Opened, Late
<1>23. BuiltTurns'
  <2>1. /\ \A m \in DOMAIN plan.switches :
             plan.switches[m].hosts \cap plan.direct =
               IF Opened(m) THEN (IF m = k THEN plan.left ELSE {})
               ELSE plan.switches[m].hosts
        /\ plan.direct \subseteq Given
    BY <1>1, <1>2 DEF BuiltInv, BuiltTurns
  <2>2. \A m \in DOMAIN plan.switches : m # k => h \notin plan.switches[m].hosts
    BY <1>1, <1>5, <1>6 DEF BuiltInv, BuiltSwitches
  <2>3. \A m \in DOMAIN plan.switches :
             plan.switches[m].hosts \cap d =
               IF Opened(m)' THEN (IF m = k THEN H ELSE {})
               ELSE plan.switches[m].hosts
    <3> TAKE m \in DOMAIN plan.switches
    <3>1. CASE m = k
      BY <1>6, <1>11, <1>22, <2>1, <3>1
    <3>2. CASE m # k
      BY <1>11, <1>22, <2>1, <2>2, <3>2
    <3> QED BY <3>1, <3>2
  <2> QED BY <1>2, <1>11, <1>14, <1>17, <2>1, <2>3 DEF BuiltTurns
<1>24. BuiltHosts'
  <2>1. \A l \in plan.links : h \in DOMAIN l => DOMAIN l = {h, r}
    <3>1. Placed(h)
      BY <1>6 DEF BuiltInv, BuiltHosts
    <3>2. CASE Built!LinksOf(h) = {}
      BY <3>2 DEF Built!LinksOf, Built!Ends
    <3>3. CASE Built!LinksOf(h) # {}
      <4>1. PICK l, u : Place(h, u) /\ Built!LinksOf(h) = {l} /\ DOMAIN l = {h, u}
        BY <3>1, <3>3 DEF Placed
      <4>2. DOMAIN plan.lans = {}
        BY <1>5
      <4>3. u = r
        BY <1>6, <4>1, <4>2 DEF Place
      <4> QED BY <4>1, <4>3 DEF Built!LinksOf, Built!Ends
    <3> QED BY <3>2, <3>3
  <2>2. Moves(h, w, j, c, ok)
    <3>1. Place(h, w)'
      <4>1. h \notin plan'.direct
        BY <1>11, <1>14
      <4>2. k \in DOMAIN plan'.switches /\ w = plan'.switches[k].id /\ h \in plan'.switches[k].hosts
        BY <1>1, <1>5, <1>6, <1>14
      <4> QED BY <4>1, <4>2 DEF Place
    <3>2. Grows(plan.switches, plan'.switches) /\ Grows(plan.lans, plan'.lans)
      BY <1>14 DEF Grows
    <3>3. DOMAIN Built!Ports(h, j, w, c) = {h, w}
      BY DEF Built!Ports
    <3>4. /\ \A l \in plan.links : h \notin DOMAIN l => l \in plan'.links
          /\ \A l \in plan'.links :
               IF h \in DOMAIN l THEN ok /\ l = Built!Ports(h, j, w, c) ELSE l \in plan.links
          /\ ok => Built!Ports(h, j, w, c) \in plan'.links
      <4>1. plan'.links = {l \in plan.links : DOMAIN l # {h, r}} \cup Made(ok, {Built!Ports(h, j, w, c)})
        BY <1>12, <1>14
      <4>2. \A l \in plan.links : h \notin DOMAIN l => DOMAIN l # {h, r}
        OBVIOUS
      <4> QED BY <2>1, <3>3, <4>1, <4>2 DEF Made
    <3>5. \A g \in Given \ {h} :
            plan'.home[g] = plan.home[g] /\ (g \in plan'.direct <=> g \in plan.direct)
      BY <1>11, <1>14
    <3> QED BY <1>2, <1>5, <1>6, <1>15, <1>17, <3>1, <3>2, <3>4, <3>5 DEF Moves
  <2>3. Moved
    BY <2>2, BuiltMoves
  <2> QED BY <1>14, <1>22, <2>3 DEF Moved, BuiltHosts
<1> QED BY <1>17, <1>20, <1>21, <1>23, <1>24 DEF BuiltInv

-----------------------------------------------------------------------------
(* Hosts that move behind a LAN switch *)
\* The stage of the routers, after that of the planner's switches.
AtLan(r) ==
  /\ r \in Nat \ {0} /\ Base \in Nat /\ req.routers \in Nat /\ r <= Base /\ plan.counter \in Nat
  /\ r \in Built!Routers /\ r \in 1..req.routers /\ r \notin Given
  /\ plan.counter > Base /\ plan.counter \notin Given /\ plan.counter \notin Built!Routers
  /\ plan.counter = Base + Len(plan.switches) + Len(plan.lans) + 1
  /\ Len(plan.switches) \in Nat /\ Len(plan.lans) \in Nat /\ DOMAIN plan.lans = 1..Len(plan.lans)
  /\ DOMAIN plan.switches = 1..Len(plan.switches)
  /\ plan.next \in [Built!Routers \cup Given -> Nat] /\ Fresh = plan.counter
  /\ \A v \in Given : v \in (req.routers + 1)..Base /\ v < plan.counter

LEMMA LanTurn ==
  ASSUME BuiltRequest, BuiltInv, plan.pc \in Late, NEW r \in Built!Routers
  PROVE  AtLan(r)
<1>1. /\ Base \in Nat /\ req.routers \in Nat /\ Base = req.routers + Built!Hosts
      /\ Built!Hosts \in Nat /\ plan.counter \in Nat
      /\ Len(plan.switches) \in Nat /\ Len(plan.lans) \in Nat
      /\ DOMAIN plan.switches = 1..Len(plan.switches) /\ DOMAIN plan.lans = 1..Len(plan.lans)
  BY BuiltStages
<1>2. r \in 1..req.routers /\ r \in Nat \ {0} /\ r <= Base
  BY <1>1, BuiltSizes
<1>3. plan.counter = Base + Len(plan.switches) + Len(plan.lans) + 1
  BY DEF BuiltInv, BuiltIds
<1>4. plan.counter > Base
  <2>1. \A b, m, n \in Nat : b + m + n + 1 > b
    OBVIOUS
  <2> QED BY <1>1, <1>3, <2>1
<1>5. \A v \in Given : v \in (req.routers + 1)..Base /\ v < plan.counter
  BY DEF BuiltInv, BuiltIds
<1>6. r \notin Given /\ plan.counter \notin Given /\ plan.counter \notin Built!Routers
  BY <1>1, <1>2, <1>4, <1>5, BuiltSizes
<1>7. plan.next \in [Built!Routers \cup Given -> Nat] /\ Fresh = plan.counter
  BY DEF BuiltInv, BuiltPorts, Fresh, Late
<1> QED BY <1>1, <1>2, <1>3, <1>4, <1>5, <1>6, <1>7 DEF AtLan

\* A host that is still linked to its router was never moved.
LEMMA RemainingDirect ==
  ASSUME BuiltRequest, BuiltInv, plan.pc = "lan", NEW r \in Built!Routers, NEW h \in Built!Remaining(r)
  PROVE  /\ h \in Given /\ plan.home[h] = r /\ h \in plan.direct
         /\ \A l \in plan.links : h \in DOMAIN l => DOMAIN l = {h, r}
<1>1. h \in Given /\ plan.home[h] = r /\ \E l \in plan.links : DOMAIN l = {h, r}
  BY DEF Built!Remaining, Built!HostsOf, Built!Ends, Built!Pair, Given
<1>2. PICK l \in plan.links : DOMAIN l = {h, r}
  BY <1>1
<1>3. l \in Built!LinksOf(h)
  BY <1>2 DEF Built!LinksOf, Built!Ends
<1>4. Placed(h)
  BY <1>1 DEF BuiltInv, BuiltHosts
<1>5. PICK u : Place(h, u) /\ Built!LinksOf(h) = {l} /\ DOMAIN l = {h, u}
  BY <1>3, <1>4 DEF Placed
<1>6. /\ r \in Nat \ {0} /\ Base \in Nat /\ req.routers \in Nat /\ r <= Base /\ r \notin Given
      /\ DOMAIN plan.switches = 1..Len(plan.switches) /\ Len(plan.switches) \in Nat
  <2>1. AtLan(r)
    BY LanTurn DEF Late
  <2> QED BY <2>1 DEF AtLan
<1>7. u = r
  <2>1. h # r
    BY <1>1, <1>6
  <2> QED BY <1>2, <1>5, <2>1
<1>8. h \in plan.direct
  <2>1. SUFFICES ASSUME h \notin plan.direct PROVE FALSE
    OBVIOUS
  <2>2. PICK m \in DOMAIN plan.switches : r = plan.switches[m].id
    BY <1>5, <1>7, <2>1 DEF Place
  <2>3. r = Base + m
    BY <2>2 DEF BuiltInv, BuiltSwitches
  <2> QED BY <1>6, <2>2, <2>3
<1> QED BY <1>1, <1>2, <1>5, <1>8 DEF Built!LinksOf, Built!Ends

LEMMA BuiltAggregatesLan ==
  ASSUME BuiltRequest, BuiltInv, Built!AggregatesLan
  PROVE  BuiltInv'
<1>1. PICK r, w, i : r = plan.k /\ w = plan.counter /\ i = plan.next[r]
  OBVIOUS
<1>2. /\ req' = req /\ plan.pc = "lan" /\ r \in Built!Routers
  <2>1. req' = req /\ plan.pc = "lan" /\ r <= req.routers
    BY <1>1 DEF Built!AggregatesLan
  <2>2. r \in Nat \ {0} /\ req.routers \in Nat
    BY <1>1, BuiltStages
  <2> QED BY <2>1, <2>2, BuiltSizes
<1>3. /\ r \in Nat \ {0} /\ Base \in Nat /\ req.routers \in Nat /\ r <= Base /\ w \in Nat
      /\ r \in 1..req.routers /\ r \notin Given
      /\ w > Base /\ w \notin Given /\ w \notin Built!Routers
      /\ w = Base + Len(plan.switches) + Len(plan.lans) + 1
      /\ Len(plan.switches) \in Nat /\ Len(plan.lans) \in Nat /\ DOMAIN plan.lans = 1..Len(plan.lans)
      /\ plan.next \in [Built!Routers \cup Given -> Nat] /\ Fresh = w
      /\ \A v \in Given : v \in (req.routers + 1)..Base /\ v < w
  <2>1. AtLan(r)
    BY <1>2, LanTurn DEF Late
  <2> QED BY <1>1, <2>1 DEF AtLan
<1>0. w \in Nat /\ w + 1 \in Nat /\ r \in 1..w /\ w \in 1..w /\ r # w /\ w + 1 - 1 = w /\ w <= w + 1
  <2>1. w \in Nat /\ r \in Nat \ {0} /\ Base \in Nat /\ r <= Base /\ w > Base
    BY <1>3
  <2> QED BY <2>1
<1>4. PICK H, lan : H = Built!Remaining(r) /\ lan = [id |-> w, router |-> r, hosts |-> H]
  OBVIOUS
<1>5. PICK ok \in Built!Answers(r, w) :
         plan' = [Built!Added(plan, r, plan.next[r], w, 0, ok)
                    EXCEPT !.pc = "move", !.left = H, !.next[r] = @ + 1, !.counter = @ + 1,
                           !.lans = Append(@, lan)]
  <2>1. \E ok \in Built!Answers(plan.k, plan.counter) :
         plan' = [Built!Added(plan, plan.k, plan.next[plan.k], plan.counter, 0, ok)
                    EXCEPT !.pc = "move", !.left = Built!Remaining(plan.k),
                           !.next[plan.k] = @ + 1, !.counter = @ + 1,
                           !.lans = Append(@, [id |-> plan.counter, router |-> plan.k,
                                               hosts |-> Built!Remaining(plan.k)])]
    BY DEF Built!AggregatesLan
  <2> QED BY <1>1, <1>4, <2>1
<1>6. ok \in BOOLEAN
  BY DEF Built!Answers
<1>7. PICK q : q = Built!Added(plan, r, i, w, 0, ok)
  OBVIOUS
<1>8. Adds(plan, r, i, w, 0, ok, q)
  BY <1>6, <1>7, BuiltAdded, BuiltStages
<1>9. PICK n, L : n = [plan.next EXCEPT ![r] = i + 1] /\ L = Append(plan.lans, lan)
  OBVIOUS
<1>10. plan' = [q EXCEPT !.pc = "move", !.left = H, !.next = n, !.counter = w + 1, !.lans = L]
  <2>1. q.next = plan.next /\ BuiltRecord(q) /\ q.counter = w /\ q.lans = plan.lans
    BY <1>1, <1>8 DEF Adds, Beside
  <2>2. plan' = [q EXCEPT !.pc = "move", !.left = H, !.next[r] = @ + 1, !.counter = @ + 1,
                           !.lans = Append(@, lan)]
    BY <1>1, <1>5, <1>7
  <2> QED BY <1>1, <1>9, <2>1, <2>2 DEF BuiltRecord
<1>11. /\ BuiltRecord(plan)' /\ plan'.pc = "move" /\ plan'.next = n /\ plan'.home = plan.home
       /\ plan'.direct = plan.direct /\ plan'.slot = plan.slot /\ plan'.docker = plan.docker
       /\ plan'.switches = plan.switches /\ plan'.lans = L /\ plan'.k = r
       /\ plan'.i = plan.i /\ plan'.left = H /\ plan'.counter = w + 1
       /\ plan'.links = plan.links \cup Made(ok, {Built!Ports(r, i, w, 0)})
       /\ plan'.pairs = plan.pairs \cup Made(ok, {{r, w}})
       /\ plan'.lost = plan.lost + Missed(plan, r, w, ok)
  <2>1. /\ BuiltRecord(plan)' /\ plan'.pc = "move" /\ plan'.next = n /\ plan'.home = q.home
        /\ plan'.direct = q.direct /\ plan'.slot = q.slot /\ plan'.docker = q.docker
        /\ plan'.switches = q.switches /\ plan'.lans = L /\ plan'.k = q.k
        /\ plan'.i = q.i /\ plan'.left = H /\ plan'.counter = w + 1
        /\ plan'.links = q.links /\ plan'.pairs = q.pairs /\ plan'.lost = q.lost
    <3>1. BuiltRecord(q)
      BY <1>8 DEF Adds, Beside
    <3> QED BY <1>10, <3>1 DEF BuiltRecord
  <2> QED BY <1>1, <1>8, <2>1 DEF Adds, Beside
<1>12. {r, w} \notin plan.pairs /\ \A p \in plan.pairs : w \notin p
  BY <1>3 DEF BuiltInv, BuiltPorts
<1>13. plan'.lost = (plan.lost + IF ok THEN 0 ELSE 1) /\ plan.lost \in Nat /\ plan'.lost \in Nat
       /\ plan'.lost >= plan.lost
  <2>1. plan'.lost = plan.lost + IF ok THEN 0 ELSE 1
    BY <1>11, <1>12 DEF Missed
  <2>2. plan.lost \in Nat
    BY BuiltStages
  <2> QED BY <2>1, <2>2
<1>14. /\ Given' = Given /\ Base' = Base /\ Built!Routers' = Built!Routers
       /\ Built!Hosts' = Built!Hosts /\ \A g : Built!HostsOf(g)' = Built!HostsOf(g)
  BY <1>2, <1>11, BuiltNames DEF Given, Built!HostsOf
<1>15. H \subseteq Given /\ H \in SUBSET Nat /\ \A v \in Given : v \in Nat
  <2>1. H \subseteq Given
    BY <1>4 DEF Built!Remaining, Built!HostsOf, Given
  <2>2. \A v \in Given : v \in Nat
    <3>1. req.routers \in Nat /\ \A v \in Given : v \in (req.routers + 1)..Base
      BY <1>3
    <3> QED BY <3>1
  <2> QED BY <2>1, <2>2
<1>16. PICK z, b, c : /\ z = Len(plan.lans) /\ b = Base /\ c = Len(plan.switches)
                      /\ z \in Nat /\ b \in Nat /\ c \in Nat /\ w = b + c + z + 1
  BY <1>3
<1>17. /\ L \in Seq(Drawn) /\ Len(L) = z + 1 /\ DOMAIN L = 1..(z + 1) /\ L[z + 1] = lan
       /\ \A m \in 1..z : L[m] = plan.lans[m]
       /\ z \in Nat /\ DOMAIN plan.lans = 1..z /\ L # <<>>
  <2> DEFINE D == Drawn
  <2>1. lan \in D
    BY <1>3, <1>4, <1>15 DEF Drawn
  <2>2. plan.lans \in Seq(D)
    BY DEF BuiltInv, BuiltSwitches
  <2> HIDE DEF D
  <2>3. /\ L \in Seq(D) /\ Len(L) = z + 1 /\ DOMAIN L = 1..(z + 1) /\ L[z + 1] = lan
        /\ \A m \in 1..z : L[m] = plan.lans[m]
    BY <1>9, <1>16, <2>1, <2>2
  <2>4. z \in Nat /\ DOMAIN plan.lans = 1..z
    BY <1>3, <1>16
  <2> QED BY <2>3, <2>4 DEF D
<1>18. Grows(plan.lans, plan'.lans) /\ Lans' = Lans \cup {w} /\ plan'.lans[Len(plan'.lans)] = lan
  <2>1. Grows(plan.lans, plan'.lans)
    BY <1>11, <1>17 DEF Grows
  <2>2. Lans' = Lans \cup {w}
    <3>1. lan.id = w
      BY <1>4
    <3>2. plan'.lans = L
      BY <1>11
    <3>3. {L[m].id : m \in 1..(z + 1)} = {plan.lans[m].id : m \in 1..z} \cup {w}
      BY <1>17, <3>1
    <3> QED BY <1>17, <3>2, <3>3 DEF Lans
  <2>3. L[Len(L)] = lan
    BY <1>17
  <2> QED BY <1>11, <2>1, <2>2, <2>3
<1>19. BuiltShape' /\ BuiltIds' /\ BuiltSwitches' /\ BuiltDocked'
  <2>1. BuiltShape'
    <3>1. w + 1 \in Nat
      BY <1>0
    <3> QED BY <1>3, <1>11, <1>13, <3>1, BuiltStages DEF BuiltShape, Late
  <2>2. BuiltIds'
    <3>1. w + 1 = Base + Len(plan.switches) + Len(L) + 1
      <4>0. \A p, q2, u \in Nat : p + q2 + u + 1 + 1 = p + q2 + (u + 1) + 1
        OBVIOUS
      <4>1. z \in Nat /\ b \in Nat /\ c \in Nat
        BY <1>16
      <4>2. b + c + z + 1 + 1 = b + c + (z + 1) + 1
        BY <4>0, <4>1
      <4> QED BY <1>16, <1>17, <4>2
    <3>2. \A h \in Given : /\ h \in (req.routers + 1)..Base /\ h < w + 1
                          /\ plan.home[h] \in Built!Routers
      <4>1. \A h \in Given : plan.home[h] \in Built!Routers
        BY DEF BuiltInv, BuiltIds
      <4>2. /\ \A h \in Given : h \in (req.routers + 1)..Base /\ h < w
            /\ \A h \in Given : h \in Nat
        BY <1>3, <1>15
      <4>3. \A h \in Given : h < w + 1
        BY <1>0, <4>2
      <4> QED BY <4>1, <4>2, <4>3
    <3> QED BY <1>2, <1>11, <1>14, <3>1, <3>2 DEF BuiltIds, Late
  <2>3. BuiltSwitches'
    <3>1. \A m \in DOMAIN L : L[m].id = Base + Len(plan.switches) + m /\ L[m].router \in Built!Routers
      <4> TAKE m \in DOMAIN L
      <4>1. CASE m \in 1..z
        BY <1>17, <4>1 DEF BuiltInv, BuiltSwitches
      <4>2. CASE m = z + 1
        <5>0. \A p, q2, u \in Nat : p + q2 + u + 1 = p + q2 + (u + 1)
          OBVIOUS
        <5>1. b + c + z + 1 = b + c + (z + 1)
          BY <1>16, <5>0
        <5>2. lan.id = w /\ lan.router = r
          BY <1>4
        <5> QED BY <1>2, <1>16, <1>17, <4>2, <5>1, <5>2
      <4> QED BY <1>17, <4>1, <4>2
    <3>2. /\ plan.switches \in Seq(Drawn)
          /\ \A m \in DOMAIN plan.switches :
             /\ plan.switches[m].id = Base + m /\ plan.switches[m].router \in Built!Routers
             /\ plan.switches[m].hosts \subseteq Built!HostsOf(plan.switches[m].router)
          /\ \A m, n2 \in DOMAIN plan.switches :
               m # n2 => plan.switches[m].hosts \cap plan.switches[n2].hosts = {}
      BY DEF BuiltInv, BuiltSwitches
    <3> QED BY <1>11, <1>14, <1>17, <3>1, <3>2 DEF BuiltSwitches, Late
  <2>4. BuiltDocked'
    <3>1. PlainUntil(Dealt)' = PlainUntil(Dealt)
      BY <1>2, <1>11, <1>14 DEF PlainUntil, Dealt
    <3> QED BY <1>2, <1>11, <3>1 DEF BuiltInv, BuiltDocked, Late
  <2> QED BY <2>1, <2>2, <2>3, <2>4
<1>20. i \in Nat /\ n \in [Built!Routers \cup Given -> Nat] /\ n[r] = i + 1
       /\ \A v \in DOMAIN plan.next : n[v] >= plan.next[v]
  <2>1. i \in Nat /\ r \in Built!Routers \cup Given /\ i = plan.next[r]
    BY <1>1, <1>2, <1>3
  <2>2. n \in [Built!Routers \cup Given -> Nat] /\ n[r] = i + 1
    BY SMTT(20), <1>3, <1>9, <2>1
  <2>3. \A v \in DOMAIN plan.next : n[v] >= plan.next[v]
    <3> TAKE v \in DOMAIN plan.next
    <3>1. CASE v = r
      BY <2>1, <2>2, <3>1
    <3>2. CASE v # r
      BY <1>3, <1>9, <3>2
    <3> QED BY <3>1, <3>2
  <2> QED BY <2>1, <2>2, <2>3
<1>21. Fresh' = w + 1
  BY <1>11 DEF Fresh
<1>22. BuiltPorts'
  <2>0. BuiltPorts
    BY DEF BuiltInv
  <2>1. \A l \in plan.links : r \in DOMAIN l => l[r] # i
    <3>1. r \in DOMAIN plan.next
      BY <1>2, <1>3
    <3>2. \A l \in plan.links : \A v \in DOMAIN l :
            l[v] \in Nat /\ (v \in DOMAIN plan.next => l[v] < plan.next[v])
      BY <2>0 DEF BuiltPorts
    <3> QED BY <1>1, <1>20, <3>1, <3>2
  <2>2. \A l \in plan.links : w \notin DOMAIN l
    BY <1>12, <2>0 DEF BuiltPorts
  <2>3. Wired(r, i, w, 0)
    <3>1. \/ plan'.links = plan.links /\ plan'.pairs = plan.pairs
          \/ /\ plan'.links = plan.links \cup {Built!Ports(r, i, w, 0)}
             /\ plan'.pairs = plan.pairs \cup {{r, w}}
      BY <1>6, <1>11 DEF Made
    <3>2. r # w /\ r \in 1..(Fresh' - 1) /\ w \in 1..(Fresh' - 1)
      BY <1>0, <1>21
    <3> QED BY <1>20, <2>1, <2>2, <3>1, <3>2 DEF Wired
  <2>4. \A h \in Given : n[h] # 0
    <3>1. \A h \in Given : plan.next[h] # 0 /\ plan.next[h] \in Nat /\ n[h] >= plan.next[h] /\ n[h] \in Nat
      BY <1>3, <1>20, <2>0 DEF BuiltPorts
    <3> QED BY <3>1
  <2>5. Spends(r, i, w, 0)
    <3>1. Fresh \in Nat /\ Fresh' \in Nat /\ Fresh <= Fresh' /\ Lans \subseteq Lans'
      <4>1. Fresh = w
        BY <1>3
      <4> QED BY <1>0, <1>18, <1>21, <4>1
    <3>2. i < n[r] /\ w \notin DOMAIN n
      <4>1. w \notin Given /\ w \notin Built!Routers
        BY <1>3
      <4> QED BY <1>20, <4>1
    <3>3. plan'.next = n /\ DOMAIN plan.next = DOMAIN n /\ plan'.pc = "move"
      BY <1>3, <1>11, <1>20
    <3> QED BY <1>14, <1>20, <2>4, <3>1, <3>2, <3>3 DEF Spends
  <2> QED BY <1>2, <1>3, <2>0, <2>3, <2>5, BuiltWires
<1>23. BuiltHosts' /\ \A h \in Given : Built!LinksOf(h)' = Built!LinksOf(h)
  <2>1. Joins(r, i, w, 0, ok)
    BY <1>2, <1>3, <1>11, <1>13, <1>18 DEF Joins
  <2>2. /\ \A h \in Given' : Placed(h)'
        /\ Cardinality(Unlinked') <= plan'.lost
        /\ plan'.lost = 0 =>
             /\ \A m \in DOMAIN plan.switches : Opened(m) => Uplinked(plan.switches[m])'
             /\ \A m \in DOMAIN plan.lans : Uplinked(plan.lans[m])'
        /\ \A h \in Given : Built!LinksOf(h)' = Built!LinksOf(h)
    BY <2>1, BuiltJoins
  <2>3. plan'.lost = 0 => Uplinked(plan.lans[z + 1])'
    <3>1. HAVE plan'.lost = 0
    <3>2. Built!Ports(r, i, w, 0) \in plan'.links
      BY <1>6, <1>11, <1>13, <3>1 DEF Made
    <3>3. DOMAIN Built!Ports(r, i, w, 0) = {r, w}
      BY DEF Built!Ports
    <3>4. plan'.lans[z + 1].router = r /\ plan'.lans[z + 1].id = w
      BY <1>4, <1>11, <1>17
    <3>5. z' = z
      OBVIOUS
    <3> QED BY <3>2, <3>3, <3>4, <3>5 DEF Uplinked
  <2>4. \A m \in DOMAIN plan'.lans : m \in DOMAIN plan.lans \/ m = z + 1
    BY <1>11, <1>17
  <2>5. \A m : Opened(m)' <=> Opened(m)
    BY <1>2, <1>11 DEF Opened, Late
  <2>6. plan'.lost = 0 => \A m \in DOMAIN plan'.lans : Uplinked(plan.lans[m])'
    BY <2>2, <2>3, <2>4
  <2>7. plan'.lost = 0 => \A m \in DOMAIN plan'.switches : Opened(m)' => Uplinked(plan.switches[m])'
    BY <1>11, <2>2, <2>5
  <2> QED BY <2>2, <2>6, <2>7 DEF BuiltHosts
<1>24. BuiltLeft'
  <2>1. Current' = w
    <3>1. plan'.pc # "switch" /\ plan'.counter = w + 1
      BY <1>11
    <3>2. Current' = plan'.counter - 1
      BY <3>1 DEF Current
    <3> QED BY <1>0, <3>1, <3>2
  <2>2. \A h \in H : {h, w} \notin plan'.pairs
    <3>1. \A h \in H : h # r /\ h # w
      BY <1>3, <1>15
    <3> QED BY <1>6, <1>11, <1>12, <3>1 DEF Made
  <2>3. Built!Lan' = lan
    BY <1>18 DEF Built!Lan
  <2>4. \A h \in H : /\ h \in plan.direct /\ plan.home[h] = r
                    /\ \A l \in Built!LinksOf(h) : DOMAIN l = {h, r}
    BY <1>2, <1>4, RemainingDirect DEF Built!LinksOf, Built!Ends
  <2>5. \A h \in H : /\ h \in plan'.direct /\ plan'.home[h] = Built!Lan'.router
                    /\ \A l \in Built!LinksOf(h)' : DOMAIN l = {h, plan'.home[h]}
    <3>1. Built!Lan'.router = r /\ plan'.direct = plan.direct /\ plan'.home = plan.home
      BY <1>4, <1>11, <2>3
    <3>2. \A h \in H : Built!LinksOf(h)' = Built!LinksOf(h)
      BY <1>15, <1>23
    <3> QED BY <2>4, <3>1, <3>2
  <2>6. \A h \in plan'.left : {h, Current'} \notin plan'.pairs
    BY <1>11, <2>1, <2>2
  <2>7. plan'.left = H /\ plan'.pc = "move"
    BY <1>11
  <2> QED BY <2>5, <2>6, <2>7 DEF BuiltLeft
<1>25. BuiltTurns'
  <2>1. \A m : Opened(m)' /\ Opened(m)
    BY <1>2, <1>11 DEF Opened, Late
  <2>2. /\ \A m \in DOMAIN plan.switches : plan.switches[m].hosts \cap plan.direct = {}
        /\ plan.direct \subseteq Given
    BY <1>2, <2>1 DEF BuiltInv, BuiltTurns
  <2> QED BY <1>11, <1>14, <2>1, <2>2 DEF BuiltTurns
<1> QED BY <1>19, <1>22, <1>23, <1>24, <1>25 DEF BuiltInv

LEMMA BuiltMovesHost ==
  ASSUME BuiltRequest, BuiltInv, Built!MovesHost
  PROVE  BuiltInv'
<1>1. PICK z, lan, r, w : /\ z = Len(plan.lans) /\ lan = plan.lans[z] /\ r = lan.router /\ w = lan.id
  OBVIOUS
<1>2. /\ req' = req /\ plan.pc = "move" /\ plan.lans # <<>>
  BY DEF Built!MovesHost, BuiltInv, BuiltSwitches
<1>3. /\ z \in Nat \ {0} /\ z \in DOMAIN plan.lans /\ Built!Lan = lan
      /\ r \in Built!Routers /\ w = Base + Len(plan.switches) + z /\ w \in Lans
  <2>1. z \in Nat /\ DOMAIN plan.lans = 1..z
    BY <1>1, BuiltStages
  <2>2. plan.lans \in Seq(Drawn)
    BY DEF BuiltInv, BuiltSwitches
  <2>3. z # 0
    <3> DEFINE D == Drawn
    <3>1. plan.lans \in Seq(D)
      BY <2>2
    <3> HIDE DEF D
    <3> QED BY <1>1, <1>2, <3>1
  <2>4. z \in DOMAIN plan.lans
    BY <2>1, <2>3
  <2>5. plan.lans[Len(plan.lans)] = plan.lans[z]
    BY <1>1, <1>2, <2>1
  <2>6. r \in Built!Routers /\ w = Base + Len(plan.switches) + z
    BY <1>1, <2>4 DEF BuiltInv, BuiltSwitches
  <2> QED BY <1>1, <2>1, <2>3, <2>4, <2>5, <2>6 DEF Built!Lan, Lans
<1>4. /\ r \in Nat \ {0} /\ Base \in Nat /\ req.routers \in Nat /\ r <= Base
      /\ r \in 1..req.routers /\ r \notin Given /\ Fresh = plan.counter
      /\ plan.counter = Base + Len(plan.switches) + Len(plan.lans) + 1
      /\ Len(plan.switches) \in Nat
      /\ plan.next \in [Built!Routers \cup Given -> Nat]
      /\ \A v \in Given : v \in (req.routers + 1)..Base /\ v < plan.counter
  <2>1. AtLan(r)
    BY <1>2, <1>3, LanTurn DEF Late
  <2> QED BY <2>1 DEF AtLan
<1>5. /\ w \in Nat /\ w > Base /\ plan.counter = w + 1 /\ w + 1 - 1 = w /\ w \notin Given
      /\ w \notin Built!Routers /\ w + 1 \in Nat
  <2>1. \A b, c, n \in Nat : b + c + n \in Nat /\ (n # 0 => b + c + n > b)
    OBVIOUS
  <2>2. w \in Nat /\ w > Base
    BY <1>3, <1>4, <2>1
  <2>3. plan.counter = w + 1
    BY <1>1, <1>3, <1>4
  <2>4. w \notin Built!Routers /\ w \notin Given
    <3>1. \A v \in Given : v <= Base
      BY <1>4
    <3>2. \A v \in Built!Routers : v <= Base
      <4>1. req.routers <= Base /\ req.routers \in Nat /\ Base \in Nat
        BY BuiltStages
      <4>2. Built!Routers = 1..req.routers
        BY BuiltSizes
      <4> QED BY <4>1, <4>2
    <3> QED BY <1>4, <2>2, <3>1, <3>2
  <2> QED BY <2>2, <2>3, <2>4
<1>6. PICK h \in plan.left : \E ok \in Built!Answers(h, Built!Lan.id) :
       plan' = [Built!Added(Built!Removed(plan, h, Built!Lan.router), h, plan.next[h], Built!Lan.id,
                            plan.next[h], ok)
                  EXCEPT !.next[h] = @ + 1, !.left = @ \ {h}]
  BY Zenon DEF Built!MovesHost
<1>7. PICK ok \in BOOLEAN :
       plan' = [Built!Added(Built!Removed(plan, h, r), h, plan.next[h], w, plan.next[h], ok)
                  EXCEPT !.next[h] = @ + 1, !.left = @ \ {h}]
  BY <1>1, <1>3, <1>6 DEF Built!Answers
<1>8. /\ h \in plan.direct /\ h \in Given /\ plan.home[h] = r /\ h \in (req.routers + 1)..Base
      /\ h # w /\ h # r /\ h \notin Built!Routers /\ h \in Nat /\ h \in 1..w
      /\ {h, w} \notin plan.pairs /\ \A l \in plan.links : h \in DOMAIN l => DOMAIN l = {h, r}
  <2>1. h \in plan.direct /\ h \in Given
    BY <1>2, <1>6 DEF BuiltInv, BuiltLeft, BuiltTurns
  <2>2. plan.home[h] = r
    BY <1>1, <1>2, <1>3, <1>6 DEF BuiltInv, BuiltLeft
  <2>3. {h, w} \notin plan.pairs
    <3>1. Current = plan.counter - 1
      BY <1>2 DEF Current
    <3>2. Current = w
      BY <1>5, <3>1
    <3> QED BY <1>6, <3>2 DEF BuiltInv, BuiltLeft
  <2>4. \A l \in Built!LinksOf(h) : DOMAIN l = {h, plan.home[h]}
    BY <1>2, <1>6 DEF BuiltInv, BuiltLeft
  <2>5. h \in (req.routers + 1)..Base /\ h # w
    BY <1>4, <1>5, <2>1
  <2>6. h # r /\ h \notin Built!Routers /\ h \in Nat /\ h \in 1..w
    BY <1>4, <1>5, <2>5, BuiltSizes
  <2> QED BY <2>1, <2>2, <2>3, <2>4, <2>5, <2>6 DEF Built!LinksOf, Built!Ends
<1>9. PICK j, p, q : /\ j = plan.next[h] /\ p = Built!Removed(plan, h, r)
                     /\ q = Built!Added(p, h, j, w, j, ok)
  OBVIOUS
<1>10. Drops(plan, h, r, p)
  BY <1>9, BuiltRemoved, BuiltStages
<1>11. Adds(p, h, j, w, j, ok, q)
  BY <1>9, <1>10, BuiltAdded DEF Drops, Beside
<1>12. PICK n, H : n = [plan.next EXCEPT ![h] = j + 1] /\ H = plan.left \ {h}
  OBVIOUS
<1>13. /\ Beside(plan, q)
       /\ q.links = {l \in plan.links : DOMAIN l # {h, r}} \cup Made(ok, {Built!Ports(h, j, w, j)})
       /\ q.pairs = plan.pairs \cup Made(ok, {{h, w}})
       /\ q.lost = plan.lost + IF ok THEN 0 ELSE 1
  <2>1. p.pairs = plan.pairs /\ p.links = {l \in plan.links : DOMAIN l # {h, r}} /\ p.lost = plan.lost
        /\ Beside(plan, p)
    BY <1>10 DEF Drops
  <2>2. Beside(plan, q)
    BY <1>11, <2>1 DEF Adds, Beside
  <2> QED BY <1>8, <1>11, <2>1, <2>2 DEF Adds, Missed
<1>14. plan' = [q EXCEPT !.next = n, !.left = H]
  <2>1. q.next = plan.next /\ BuiltRecord(q) /\ q.left = plan.left
    BY <1>13 DEF Beside
  <2>2. plan' = [q EXCEPT !.next[h] = @ + 1, !.left = @ \ {h}]
    BY <1>7, <1>9
  <2> QED BY <1>9, <1>12, <2>1, <2>2 DEF BuiltRecord
<1>15. /\ BuiltRecord(plan)' /\ plan'.pc = "move" /\ plan'.next = n /\ plan'.home = plan.home
       /\ plan'.direct = plan.direct /\ plan'.slot = plan.slot /\ plan'.docker = plan.docker
       /\ plan'.switches = plan.switches /\ plan'.lans = plan.lans /\ plan'.k = plan.k
       /\ plan'.i = plan.i /\ plan'.left = H /\ plan'.counter = plan.counter
       /\ plan'.links = q.links /\ plan'.pairs = q.pairs /\ plan'.lost = q.lost
  <2>1. /\ BuiltRecord(plan)' /\ plan'.pc = q.pc /\ plan'.next = n /\ plan'.home = q.home
        /\ plan'.direct = q.direct /\ plan'.slot = q.slot /\ plan'.docker = q.docker
        /\ plan'.switches = q.switches /\ plan'.lans = q.lans /\ plan'.k = q.k
        /\ plan'.i = q.i /\ plan'.left = H /\ plan'.counter = q.counter
        /\ plan'.links = q.links /\ plan'.pairs = q.pairs /\ plan'.lost = q.lost
    <3>1. BuiltRecord(q)
      BY <1>13 DEF Beside
    <3> QED BY <1>14, <3>1 DEF BuiltRecord
  <2> QED BY <1>2, <1>13, <2>1 DEF Beside
<1>16. plan'.lost = (plan.lost + IF ok THEN 0 ELSE 1) /\ plan.lost \in Nat /\ plan'.lost \in Nat
  BY <1>13, <1>15, BuiltStages
<1>17. /\ Given' = Given /\ Base' = Base /\ Built!Routers' = Built!Routers /\ Lans' = Lans
       /\ Built!Hosts' = Built!Hosts /\ \A g : Built!HostsOf(g)' = Built!HostsOf(g)
  BY <1>2, <1>15, BuiltNames DEF Given, Lans, Built!HostsOf
<1>18. BuiltShape' /\ BuiltIds' /\ BuiltSwitches' /\ BuiltDocked'
  <2>1. BuiltShape'
    BY <1>15, <1>16, BuiltStages DEF BuiltShape, Late
  <2>2. BuiltIds'
    BY <1>2, <1>15, <1>17 DEF BuiltIds, BuiltInv, Late
  <2>3. BuiltSwitches'
    BY <1>2, <1>15, <1>17 DEF BuiltSwitches, BuiltInv, Late
  <2>4. BuiltDocked'
    <3>1. PlainUntil(Dealt)' = PlainUntil(Dealt)
      BY <1>2, <1>15, <1>17 DEF PlainUntil, Dealt
    <3> QED BY <1>2, <1>15, <3>1 DEF BuiltInv, BuiltDocked, Late
  <2> QED BY <2>1, <2>2, <2>3, <2>4
<1>19. j \in Nat /\ j # 0 /\ n \in [Built!Routers \cup Given -> Nat] /\ n[h] = j + 1
       /\ \A v \in DOMAIN plan.next : n[v] >= plan.next[v]
  <2>1. j \in Nat /\ h \in Built!Routers \cup Given /\ j = plan.next[h] /\ j # 0
    BY <1>4, <1>8, <1>9 DEF BuiltInv, BuiltPorts
  <2>2. n \in [Built!Routers \cup Given -> Nat] /\ n[h] = j + 1
    BY <1>4, <1>12, <2>1
  <2>3. \A v \in DOMAIN plan.next : n[v] >= plan.next[v]
    <3> TAKE v \in DOMAIN plan.next
    <3>1. CASE v = h
      BY <2>1, <2>2, <3>1
    <3>2. CASE v # h
      BY <1>4, <1>12, <3>2
    <3> QED BY <3>1, <3>2
  <2> QED BY <2>1, <2>2, <2>3
<1>20. Fresh = w + 1 /\ Fresh' = w + 1
  BY <1>2, <1>4, <1>5, <1>15 DEF Fresh
<1>21. BuiltPorts'
  <2>0. BuiltPorts
    BY DEF BuiltInv
  <2>1. \A l \in plan.links : h \in DOMAIN l => l[h] # j
    <3>1. h \in DOMAIN plan.next
      BY <1>4, <1>8
    <3>2. \A l \in plan.links : \A v \in DOMAIN l :
            l[v] \in Nat /\ (v \in DOMAIN plan.next => l[v] < plan.next[v])
      BY <2>0 DEF BuiltPorts
    <3> QED BY <1>9, <1>19, <3>1, <3>2
  <2>2. Wired(h, j, w, j)
    <3>1. \/ plan'.links \subseteq plan.links /\ plan'.pairs = plan.pairs
          \/ /\ plan'.links \subseteq plan.links \cup {Built!Ports(h, j, w, j)}
             /\ plan'.pairs = plan.pairs \cup {{h, w}}
      BY <1>13, <1>15 DEF Made
    <3>2. h # w /\ h \in 1..(Fresh' - 1) /\ w \in 1..(Fresh' - 1)
      <4>1. Fresh' - 1 = w
        BY <1>5, <1>20
      <4>2. w \in 1..w
        BY <1>4, <1>5
      <4> QED BY <1>8, <4>1, <4>2
    <3>3. w \in Lans' /\ j # 0
      BY <1>3, <1>17, <1>19
    <3> QED BY <1>19, <2>1, <3>1, <3>2, <3>3 DEF Wired
  <2>3. \A g \in Given : n[g] # 0
    <3>1. \A g \in Given : plan.next[g] # 0 /\ plan.next[g] \in Nat /\ n[g] >= plan.next[g] /\ n[g] \in Nat
      BY <1>4, <1>19, <2>0 DEF BuiltPorts
    <3> QED BY <3>1
  <2>4. Spends(h, j, w, j)
    <3>1. Fresh \in Nat /\ Fresh' \in Nat /\ Fresh <= Fresh' /\ Lans \subseteq Lans'
      BY <1>5, <1>17, <1>20
    <3>2. j < n[h] /\ w \notin DOMAIN n
      BY <1>5, <1>19
    <3>3. plan'.next = n /\ DOMAIN plan.next = DOMAIN n /\ plan'.pc = "move"
      BY <1>4, <1>15, <1>19
    <3> QED BY <1>17, <1>19, <2>3, <3>1, <3>2, <3>3 DEF Spends
  <2> QED BY <1>2, <1>4, <2>0, <2>2, <2>4, BuiltWires
<1>22. BuiltHosts' /\ \A g \in Given \ {h} : Built!LinksOf(g)' = Built!LinksOf(g)
  <2>1. Moves(h, w, j, j, ok)
    <3>1. Place(h, w)'
      <4>1. z \in DOMAIN plan'.lans /\ w = plan'.lans[z].id /\ plan'.lans[z].router = plan'.home[h]
        BY <1>1, <1>3, <1>8, <1>15
      <4>2. h \in plan'.direct
        BY <1>8, <1>15
      <4> QED BY <4>1, <4>2 DEF Place
    <3>2. Grows(plan.switches, plan'.switches) /\ Grows(plan.lans, plan'.lans)
      BY <1>15 DEF Grows
    <3>3. DOMAIN Built!Ports(h, j, w, j) = {h, w}
      BY DEF Built!Ports
    <3>4. /\ \A l \in plan.links : h \notin DOMAIN l => l \in plan'.links
          /\ \A l \in plan'.links :
               IF h \in DOMAIN l THEN ok /\ l = Built!Ports(h, j, w, j) ELSE l \in plan.links
          /\ ok => Built!Ports(h, j, w, j) \in plan'.links
      <4>1. plan'.links = {l \in plan.links : DOMAIN l # {h, r}} \cup Made(ok, {Built!Ports(h, j, w, j)})
        BY <1>13, <1>15
      <4>2. \A l \in plan.links : h \notin DOMAIN l => DOMAIN l # {h, r}
        OBVIOUS
      <4> QED BY <1>8, <3>3, <4>1, <4>2 DEF Made
    <3>5. \A g \in Given \ {h} :
            plan'.home[g] = plan.home[g] /\ (g \in plan'.direct <=> g \in plan.direct)
      BY <1>15
    <3> QED BY <1>2, <1>5, <1>8, <1>16, <1>17, <3>1, <3>2, <3>4, <3>5 DEF Moves
  <2>2. Moved /\ \A g \in Given \ {h} : Built!LinksOf(g)' = Built!LinksOf(g)
    BY <2>1, BuiltMoves
  <2>3. \A m : Opened(m)' <=> Opened(m)
    BY <1>2, <1>15 DEF Opened, Late
  <2> QED BY <1>15, <2>2, <2>3 DEF Moved, BuiltHosts
<1>23. BuiltLeft'
  <2>1. Current = w /\ Current' = w
    <3>1. Current = plan.counter - 1 /\ Current' = plan'.counter - 1
      BY <1>2, <1>15 DEF Current
    <3> QED BY <1>5, <1>15, <3>1
  <2>2. \A g \in H : {g, w} \notin plan'.pairs
    <3>1. \A g \in H : g # h /\ {g, w} \notin plan.pairs
      BY <1>12, <2>1 DEF BuiltInv, BuiltLeft
    <3>2. \A g \in H : {g, w} # {h, w}
      BY <1>8, <3>1
    <3> QED BY <1>13, <1>15, <3>1, <3>2 DEF Made
  <2>3. Built!Lan' = Built!Lan
    BY <1>15 DEF Built!Lan
  <2>4. \A g \in H : /\ g \in plan.direct /\ g \in Given /\ g # h
                    /\ plan.home[g] = Built!Lan.router
                    /\ \A l \in Built!LinksOf(g) : DOMAIN l = {g, plan.home[g]}
    BY <1>2, <1>12 DEF BuiltInv, BuiltLeft, BuiltTurns
  <2>5. \A g \in H : /\ g \in plan'.direct /\ plan'.home[g] = Built!Lan'.router
                    /\ \A l \in Built!LinksOf(g)' : DOMAIN l = {g, plan'.home[g]}
    BY <1>15, <1>22, <2>3, <2>4
  <2>6. \A g \in plan'.left : {g, Current'} \notin plan'.pairs
    BY <1>15, <2>1, <2>2
  <2>7. plan'.left = H /\ plan'.pc = "move"
    BY <1>15
  <2> QED BY <2>5, <2>6, <2>7 DEF BuiltLeft
<1>24. BuiltTurns'
  <2>1. \A m : Opened(m)' /\ Opened(m)
    BY <1>2, <1>15 DEF Opened, Late
  <2>2. /\ \A m \in DOMAIN plan.switches : plan.switches[m].hosts \cap plan.direct = {}
        /\ plan.direct \subseteq Given
    BY <1>2, <2>1 DEF BuiltInv, BuiltTurns
  <2> QED BY <1>15, <1>17, <2>1, <2>2 DEF BuiltTurns
<1> QED BY <1>18, <1>21, <1>22, <1>23, <1>24 DEF BuiltInv

LEMMA BuiltStep ==
  ASSUME BuiltRequest, BuiltInv, Built!Next
  PROVE  BuiltRequest' /\ BuiltInv'
<1>1. req' = req
  BY DEF Built!Next, Built!Begins, Built!LinksPair, Built!LinksPairOf, Built!DealsHosts,
         Built!AddsHost, Built!EndsHosts, Built!GroupsRouter, Built!EndsGroups, Built!LinksSwitch,
         Built!RehomesHost, Built!EndsSwitch, Built!EndsSwitches, Built!SkipsLan,
         Built!AggregatesLan, Built!MovesHost, Built!EndsLan, Built!EndsLans,
         Built!EnrichesPair, Built!EndsBuild
<1>2. BuiltRequest'
  BY <1>1, BuiltNames
<1>3. BuiltInv'
  BY BuiltStarts, BuiltLinksPair, BuiltDeals, BuiltAddsHost, BuiltEndsHosts, BuiltGroups,
     BuiltEndsGroups, BuiltLinksSwitch, BuiltRehomesHost, BuiltEndsSwitch, BuiltEndsSwitches,
     BuiltSkipsLan, BuiltAggregatesLan, BuiltMovesHost, BuiltEndsLan, BuiltEndsLans, BuiltEnds
  DEF Built!Next
<1> QED BY <1>2, <1>3

LEMMA BuiltWaits ==
  ASSUME BuiltRequest, BuiltInv, UNCHANGED <<req, plan>>
  PROVE  BuiltRequest' /\ BuiltInv'
<1>1. req' = req /\ plan' = plan
  OBVIOUS
<1>2. BuiltRequest' /\ Built!Hosts' = Built!Hosts /\ Built!Routers' = Built!Routers /\ Base' = Base
  BY <1>1, BuiltNames
<1>3. Given' = Given /\ Fresh' = Fresh /\ Lans' = Lans /\ Current' = Current
      /\ Dealt' = Dealt /\ PlainUntil(Dealt)' = PlainUntil(Dealt) /\ Late' = Late
      /\ Unlinked' = Unlinked /\ Built!Lan' = Built!Lan
  BY <1>1, <1>2 DEF Given, Fresh, Lans, Current, Dealt, PlainUntil, Late, Unlinked, Built!Lan,
                    Built!LinksOf
<1>4. /\ \A h : Built!LinksOf(h)' = Built!LinksOf(h) /\ Placed(h)' = Placed(h)
      /\ \A r : Built!HostsOf(r)' = Built!HostsOf(r)
      /\ \A m : Opened(m)' = Opened(m)
  BY <1>1 DEF Built!LinksOf, Placed, Place, Built!HostsOf, Opened, Late
<1>5. /\ \A m : Uplinked(plan.switches[m])' = Uplinked(plan.switches[m])
      /\ \A m : Uplinked(plan.lans[m])' = Uplinked(plan.lans[m])
  BY <1>1 DEF Uplinked
<1>6. BuiltShape' /\ BuiltIds' /\ BuiltSwitches'
  BY <1>1, <1>2, <1>3, <1>4 DEF BuiltInv, BuiltShape, BuiltIds, BuiltSwitches, BuiltRecord
<1>7. BuiltPorts' /\ BuiltLeft' /\ BuiltTurns'
  <2>1. BuiltPorts'
    BY <1>1, <1>2, <1>3 DEF BuiltInv, BuiltPorts
  <2>2. BuiltLeft'
    BY <1>1, <1>3, <1>4 DEF BuiltInv, BuiltLeft
  <2>3. BuiltTurns'
    BY <1>1, <1>3, <1>4 DEF BuiltInv, BuiltTurns
  <2> QED BY <2>1, <2>2, <2>3
<1>8. BuiltHosts' /\ BuiltDocked'
  BY <1>1, <1>2, <1>3, <1>4, <1>5 DEF BuiltInv, BuiltHosts, BuiltDocked
<1> QED BY <1>2, <1>6, <1>7, <1>8 DEF BuiltInv

-----------------------------------------------------------------------------
(* What the invariant promises *)
\* The switches there are, and their ids.
LEMMA SwitchIds ==
  ASSUME BuiltRequest, BuiltInv
  PROVE  /\ \A s \in Built!Range(Built!AllSwitches) :
              \/ \E m \in DOMAIN plan.switches : s = plan.switches[m]
              \/ \E m \in DOMAIN plan.lans : s = plan.lans[m]
         /\ \A m \in DOMAIN plan.switches : plan.switches[m] \in Built!Range(Built!AllSwitches)
         /\ \A m \in DOMAIN plan.lans : plan.lans[m] \in Built!Range(Built!AllSwitches)
         /\ \A s \in Built!Range(Built!AllSwitches) :
              s.id \in Nat /\ s.id > Base /\ s.router \in Built!Routers
         /\ \A s, t \in Built!Range(Built!AllSwitches) : s.id = t.id => s = t
<1>1. PICK u, v, c, z, b : /\ u = plan.switches /\ v = plan.lans /\ c = Len(u) /\ z = Len(v)
                           /\ b = Base
  OBVIOUS
<1>2. /\ u \in Seq(Drawn) /\ v \in Seq(Drawn) /\ c \in Nat /\ z \in Nat /\ b \in Nat
      /\ DOMAIN u = 1..c /\ DOMAIN v = 1..z
  BY <1>1, BuiltStages DEF BuiltInv, BuiltSwitches
<1>3. /\ \A m \in 1..c : u[m].id = b + m /\ u[m].router \in Built!Routers
      /\ \A m \in 1..z : v[m].id = b + c + m /\ v[m].router \in Built!Routers
  BY <1>1, <1>2 DEF BuiltInv, BuiltSwitches
<1>4. PICK a : a = u \o v
  OBVIOUS
<1>5. /\ DOMAIN a = 1..(c + z) /\ \A m \in 1..c : a[m] = u[m]
      /\ \A m \in 1..z : a[c + m] = v[m]
      /\ \A m \in (c + 1)..(c + z) : a[m] = v[m - c]
  <2> DEFINE D == Drawn
  <2>1. u \in Seq(D) /\ v \in Seq(D)
    BY <1>2
  <2> HIDE DEF D
  <2>2. DOMAIN a = 1..(c + z)
    BY <1>1, <1>2, <1>4, <2>1
  <2>3. \A m \in 1..(c + z) : a[m] = IF m <= c THEN u[m] ELSE v[m - c]
    BY <1>1, <1>2, <1>4, <2>1
  <2> QED BY <1>2, <2>2, <2>3
<1>6. Built!Range(a) = {a[m] : m \in 1..(c + z)} /\ Built!AllSwitches = a
  BY <1>1, <1>4, <1>5 DEF Built!Range, Built!AllSwitches
<1>7. \A m \in 1..(c + z) : a[m].id = b + m /\ a[m].router \in Built!Routers
  <2> TAKE m \in 1..(c + z)
  <2>1. CASE m \in 1..c
    BY <1>3, <1>5, <2>1
  <2>2. CASE m \in (c + 1)..(c + z)
    <3>1. m - c \in 1..z /\ b + c + (m - c) = b + m
      BY <1>2, <2>2
    <3> QED BY <1>3, <1>5, <2>2, <3>1
  <2> QED BY <1>2, <2>1, <2>2
<1>8. \A s \in Built!Range(a) : (\E m \in 1..c : s = u[m]) \/ (\E m \in 1..z : s = v[m])
  <2> TAKE s \in Built!Range(a)
  <2>1. PICK m \in 1..(c + z) : s = a[m]
    BY <1>6
  <2>2. CASE m \in 1..c
    BY <1>5, <2>1, <2>2
  <2>3. CASE m \in (c + 1)..(c + z)
    <3>1. m - c \in 1..z
      BY <1>2, <2>3
    <3> QED BY <1>5, <2>1, <2>3, <3>1
  <2> QED BY <1>2, <2>1, <2>2, <2>3
<1>9. /\ \A m \in 1..c : u[m] \in Built!Range(a)
      /\ \A m \in 1..z : v[m] \in Built!Range(a)
  <2>1. \A m \in 1..c : m \in 1..(c + z)
    BY <1>2
  <2>2. \A m \in 1..z : c + m \in 1..(c + z)
    BY <1>2
  <2> QED BY <1>5, <1>6, <2>1, <2>2
<1>10. \A s, t \in Built!Range(a) : s.id = t.id => s = t
  <2> TAKE s, t \in Built!Range(a)
  <2> HAVE s.id = t.id
  <2>1. PICK m, n \in 1..(c + z) : s = a[m] /\ t = a[n]
    BY <1>6
  <2>2. m = n
    BY <1>2, <1>7, <2>1
  <2> QED BY <2>1, <2>2
<1>11. \A s \in Built!Range(a) : s.id \in Nat /\ s.id > b /\ s.router \in Built!Routers
  <2> TAKE s \in Built!Range(a)
  <2>1. PICK m \in 1..(c + z) : s = a[m]
    BY <1>6
  <2> QED BY <1>2, <1>7, <2>1
<1>12. /\ 1..c = DOMAIN plan.switches /\ 1..z = DOMAIN plan.lans
       /\ u = plan.switches /\ v = plan.lans /\ b = Base /\ Built!AllSwitches = a
  BY <1>1, <1>2, <1>6
<1> QED BY <1>8, <1>9, <1>10, <1>11, <1>12

\* Where a host is linked, in terms of all switches.
LEMMA BuiltPlaces ==
  ASSUME BuiltRequest, BuiltInv, NEW h \in Given, NEW w, Place(h, w)
  PROVE  \/ w = plan.home[h] /\ h \in plan.direct
         \/ \E t \in Built!Range(Built!AllSwitches) : t.id = w /\ t.router = plan.home[h]
<1>1. CASE \E m \in DOMAIN plan.lans : w = plan.lans[m].id /\ plan.lans[m].router = plan.home[h]
  BY <1>1, SwitchIds
<1>2. CASE \E m \in DOMAIN plan.switches : w = plan.switches[m].id /\ h \in plan.switches[m].hosts
  <2>1. PICK m \in DOMAIN plan.switches : w = plan.switches[m].id /\ h \in plan.switches[m].hosts
    BY <1>2
  <2>2. plan.switches[m].router = plan.home[h]
    BY <2>1 DEF BuiltInv, BuiltSwitches, Built!HostsOf
  <2> QED BY <2>1, <2>2, SwitchIds
<1> QED BY <1>1, <1>2 DEF Place

LEMMA BuiltAttached ==
  ASSUME BuiltRequest, BuiltInv
  PROVE  Built!HostsAttached
<1>1. \A h \in Given : Placed(h)
  BY DEF BuiltInv, BuiltHosts
<1>2. \A h \in Given : Built!Cardinality(Built!LinksOf(h)) <= 1
  <2> TAKE h \in Given
  <2>1. CASE Built!LinksOf(h) = {}
    BY <2>1, BuiltCardinality, FS_EmptySet
  <2>2. CASE Built!LinksOf(h) # {}
    <3>1. PICK l : Built!LinksOf(h) = {l}
      BY <1>1, <2>2 DEF Placed
    <3>2. Cardinality({l}) = 1
      BY FS_Singleton
    <3> QED BY <3>1, <3>2, BuiltCardinality
  <2> QED BY <2>1, <2>2
<1>3. Built!Cardinality({g \in Given : Built!LinksOf(g) = {}}) <= plan.lost
  BY BuiltCardinality DEF BuiltInv, BuiltHosts, Unlinked
<1>4. ASSUME NEW h \in Given, plan.pc = "done"
      PROVE  LET r == plan.home[h]
                 at == {s \in Built!Range(Built!AllSwitches) :
                          \E l \in plan.links : Built!Ends(l) = Built!Pair(h, s.id)}
                 cut == {s \in Built!Range(Built!AllSwitches) :
                           ~\E l \in plan.links : Built!Ends(l) = Built!Pair(r, s.id)}
             IN  /\ plan.lost = 0 => Built!LinksOf(h) # {} /\ at \cap cut = {}
                 /\ \A s \in at : s.router = r
                 /\ (\E s \in Built!Range(plan.switches) : h \in s.hosts) =>
                      at # {} \/ Built!LinksOf(h) = {}
  <2> DEFINE r == plan.home[h]
             all == Built!Range(Built!AllSwitches)
             at == {s \in all : \E l \in plan.links : DOMAIN l = {h, s.id}}
             cut == {s \in all : ~\E l \in plan.links : DOMAIN l = {r, s.id}}
  <2>1. h \in (req.routers + 1)..Base /\ r \in 1..req.routers /\ req.routers \in Nat /\ Base \in Nat
    BY BuiltSizes DEF BuiltInv, BuiltIds, BuiltRequest
  <2>2. \A s \in at : s.router = r
    <3> TAKE s \in at
    <3>1. s \in all /\ s.id \in Nat /\ s.id > Base
      BY SwitchIds
    <3>2. PICK l \in plan.links : DOMAIN l = {h, s.id}
      OBVIOUS
    <3>3. l \in Built!LinksOf(h)
      BY <3>2 DEF Built!LinksOf, Built!Ends
    <3>4. PICK w : Place(h, w) /\ DOMAIN l = {h, w}
      <4>1. Built!LinksOf(h) # {} /\ Placed(h)
        BY <1>1, <3>3
      <4>2. PICK m, w : Place(h, w) /\ Built!LinksOf(h) = {m} /\ DOMAIN m = {h, w}
        BY Zenon, <4>1 DEF Placed
      <4>3. l = m
        BY <3>3, <4>2
      <4> QED BY <4>2, <4>3
    <3>5. w = s.id
      BY <2>1, <3>1, <3>2, <3>4
    <3>6. w # r
      <4>1. r \in Nat /\ r <= Base
        BY <2>1
      <4> QED BY <2>1, <3>1, <3>5, <4>1
    <3>7. PICK t \in all : t.id = w /\ t.router = r
      BY <3>4, <3>6, BuiltPlaces
    <3>8. t = s
      BY <3>1, <3>5, <3>7, SwitchIds
    <3> QED BY <3>7, <3>8
  <2>3. ASSUME plan.lost = 0
        PROVE  Built!LinksOf(h) # {} /\ at \cap cut = {}
    <3>1. Unlinked = {}
      <4>1. Unlinked \in SUBSET Given
        BY DEF Unlinked
      <4>2. IsFiniteSet(Unlinked) /\ Cardinality(Unlinked) \in Nat
        BY <4>1, UnlinkedFinite DEF BuiltInv
      <4>3. PICK U : U = Unlinked
        OBVIOUS
      <4>4. Cardinality(U) = 0
        BY <2>3, <4>2, <4>3 DEF BuiltInv, BuiltHosts
      <4> QED BY <4>2, <4>3, <4>4, FS_EmptySet
    <3>2. ASSUME NEW s \in at PROVE s \notin cut
      <4>1. s.router = r /\ s \in all
        BY <2>2
      <4>2. Uplinked(s)
        <5>1. /\ \A m \in DOMAIN plan.switches : Opened(m) => Uplinked(plan.switches[m])
              /\ \A m \in DOMAIN plan.lans : Uplinked(plan.lans[m])
          BY <2>3 DEF BuiltInv, BuiltHosts
        <5>2. \A m : Opened(m)
          BY <1>4 DEF Opened, Late
        <5> QED BY <4>1, <5>1, <5>2, SwitchIds
      <4> QED BY <4>1, <4>2 DEF Uplinked
    <3> QED BY <3>1, <3>2 DEF Unlinked
  <2>4. ASSUME NEW m \in DOMAIN plan.switches, h \in plan.switches[m].hosts, Built!LinksOf(h) # {}
        PROVE  at # {}
    <3>1. h \notin plan.direct
      <4>1. Opened(m)
        BY <1>4 DEF Opened, Late
      <4> QED BY <1>4, <2>4, <4>1 DEF BuiltInv, BuiltTurns
    <3>2. PICK l, w : l \in plan.links /\ Place(h, w) /\ DOMAIN l = {h, w}
      BY <1>1, <2>4 DEF Placed
    <3>3. PICK t \in all : t.id = w
      BY <3>1, <3>2, BuiltPlaces
    <3>4. t \in at
      BY <3>2, <3>3
    <3> QED BY <3>4
  <2>5. (\E s \in Built!Range(plan.switches) : h \in s.hosts) => at # {} \/ Built!LinksOf(h) = {}
    BY <2>4 DEF Built!Range
  <2> QED BY <2>2, <2>3, <2>5 DEF Built!Ends, Built!Pair
<1> QED BY <1>2, <1>3, <1>4 DEF Built!HostsAttached, Given

LEMMA BuiltPromises ==
  ASSUME BuiltRequest, BuiltInv
  PROVE  Built!InterfacesDistinct /\ Built!HostsAttached /\ Built!DockersPlaced
<1>1. Built!InterfacesDistinct
  <2>1. \A l, m \in plan.links : \A v \in DOMAIN l \cap DOMAIN m :
          l[v] = m[v] => l = m \/ (v \in Lans /\ l[v] # 0)
    BY DEF BuiltInv, BuiltPorts
  <2>2. \A v \in Lans : \E s \in Built!Range(plan.lans) : v = s.id
    BY DEF Lans, Built!Range
  <2> QED BY <2>1, <2>2 DEF Built!InterfacesDistinct, Built!Ends
<1>2. Built!DockersPlaced
  <2>1. PICK P : P = {k \in 1..Built!Hosts : req.roles[k] = "host"}
    OBVIOUS
  <2>2. PlainUntil(Built!Hosts + 1) = P
    <3>1. PICK N \in Nat : N = Built!Hosts
      BY BuiltSizes
    <3>2. 1..(N + 1 - 1) = 1..N
      OBVIOUS
    <3>3. PlainUntil(N + 1) = {i \in 1..N : req.roles[i] = "host"}
      BY <3>2 DEF PlainUntil
    <3> QED BY <2>1, <3>1, <3>3
  <2>3. IsFiniteSet(P) /\ Cardinality(P) \in Nat
    <3>1. IsFiniteSet(1..Built!Hosts) /\ P \subseteq 1..Built!Hosts
      BY <2>1, BuiltSizes, FS_Interval
    <3> QED BY <3>1, FS_Subset, FS_CardinalityType
  <2>4. BuiltDocked
    BY DEF BuiltInv
  <2>5. ASSUME plan.pc = "raised" \/ plan.pc \in {"group", "switch"} \cup Late
        PROVE  /\ plan.slot = Cardinality(P) /\ DOMAIN plan.docker = req.slots \cap 1..plan.slot
               /\ \A s \in DOMAIN plan.docker : plan.docker[s] - req.routers \in P
    <3>1. Dealt = Built!Hosts + 1
      BY <2>5 DEF Dealt, Late
    <3> QED BY <2>2, <2>4, <3>1 DEF BuiltDocked
  <2>6. ASSUME plan.pc = "raised" PROVE \E s \in req.slots : s > Cardinality(P)
    <3>1. PICK s \in req.slots : s \notin DOMAIN plan.docker
      BY <2>4, <2>6 DEF BuiltDocked
    <3>2. s \in Nat \ {0}
      BY <3>1 DEF BuiltRequest
    <3>3. s \notin 1..Cardinality(P)
      BY <2>5, <2>6, <3>1
    <3> QED BY <2>3, <3>2, <3>3
  <2>7. ASSUME plan.pc \in {"group", "switch"} \cup Late
        PROVE  /\ DOMAIN plan.docker = req.slots
               /\ \A s, t \in req.slots : plan.docker[s] = plan.docker[t] => s = t
               /\ \A s \in req.slots : plan.docker[s] - req.routers \in P
    <3>1. DOMAIN plan.docker = req.slots
      BY <2>4, <2>5, <2>7 DEF BuiltDocked
    <3>2. \A s, t \in DOMAIN plan.docker : plan.docker[s] = plan.docker[t] => s = t
      BY <2>4 DEF BuiltDocked
    <3> QED BY <2>5, <2>7, <3>1, <3>2
  <2> QED BY <2>1, <2>6, <2>7, BuiltCardinality DEF Built!DockersPlaced, Late
<1> QED BY <1>1, <1>2, BuiltAttached

\* For every request: no interface is used twice (but for what the LAN switches do), every
\* host has one link to its router or one of its switches, each failed call costs one host
\* at most, and the slots asked for are docker nodes of plain hosts
\* (build_segmented_topology).
THEOREM BuiltCorrect ==
  BuiltRequest /\ Built!Spec =>
    [](Built!InterfacesDistinct /\ Built!HostsAttached /\ Built!DockersPlaced)
<1>1. BuiltRequest /\ Built!Init => BuiltRequest /\ BuiltInv
  BY BuiltBegins DEF Built!Init
<1>2. BuiltRequest /\ BuiltInv /\ [Built!Next]_Built!vars => BuiltRequest' /\ BuiltInv'
  BY BuiltStep, BuiltWaits DEF Built!vars
<1>3. BuiltRequest /\ BuiltInv =>
        Built!InterfacesDistinct /\ Built!HostsAttached /\ Built!DockersPlaced
  BY BuiltPromises
<1> QED
  BY <1>1, <1>2, <1>3, PTL DEF Built!Spec

-----------------------------------------------------------------------------
(* Star and access topologies *)

StarRequest ==
  req \in [kind : {"star", "access"}, roles : Seq({"host", "device"}), slots : SUBSET (Nat \ {0}), access : Nat,
          losses : Nat, lookup : BOOLEAN]

\* The plain hosts among those added, and the switches there are of either kind.
PlainBefore(k) == {i \in 1..(k - 1) : req.roles[i] = "host"}
StarSwitches == IF req.kind = "star" THEN {1} ELSE 2..(Star!Access + 1)
StarBase == IF req.kind = "star" THEN 1 ELSE Star!Access + 1
StarUplinks == IF req.kind = "star" THEN 0 ELSE Star!Access

StarShape ==
  /\ plan = [pc |-> plan.pc, links |-> plan.links, spent |-> plan.spent, lost |-> plan.lost,
             k |-> plan.k, slot |-> plan.slot, docker |-> plan.docker, reported |-> plan.reported]
  /\ plan.pc \in {"start", "hosts", "done", "raised"}

\* Each link is between nodes there are, and its interface of a switch is spent; a link that
\* was asked for is there or lost.
StarLinked ==
  /\ plan.spent \in [StarSwitches -> Nat]
  /\ \A l \in plan.links : \A v \in DOMAIN l :
       /\ v \in 1..(StarBase + plan.k - 1) /\ l[v] \in Nat
       /\ v \in StarSwitches => l[v] < plan.spent[v]
  /\ \A l, m \in plan.links : \A v \in DOMAIN l \cap DOMAIN m : l[v] = m[v] => l = m
  /\ IsFiniteSet(plan.links) /\ plan.lost \in Nat
  /\ Cardinality(plan.links) + plan.lost = StarUplinks + plan.k - 1

\* The slots taken by the plain hosts so far are their docker nodes.
StarDocked ==
  LET nodes == {StarBase + i : i \in PlainBefore(plan.k)} IN
    /\ plan.slot = Cardinality(PlainBefore(plan.k))
    /\ DOMAIN plan.docker = req.slots \cap 1..plan.slot
    /\ \A s \in DOMAIN plan.docker : plan.docker[s] \in nodes
    /\ \A s, t \in DOMAIN plan.docker : plan.docker[s] = plan.docker[t] => s = t
    /\ plan.reported = nodes \ Star!Range(plan.docker)

StarInv ==
  /\ StarShape
  /\ plan.pc = "start" => plan = Star!Begun
  /\ plan.pc # "start" =>
       /\ plan.k \in 1..(Star!Hosts + 1)
       /\ StarLinked
       /\ StarDocked
  /\ plan.pc = "done" => plan.k = Star!Hosts + 1
  /\ plan.pc = "done" /\ req.kind = "star" => Star!Missing = {}
  /\ plan.pc = "raised" /\ req.kind = "star" => plan.k = Star!Hosts + 1 /\ Star!Missing # {}
  /\ plan.pc = "raised" /\ req.kind # "star" => ~req.lookup

LEMMA StarCardinality == \A S : Star!Cardinality(S) = Cardinality(S)
BY DEF Star!Cardinality, Cardinality

LEMMA StarSizes ==
  ASSUME StarRequest
  PROVE  /\ Star!Hosts \in Nat
         /\ Star!Access \in Nat \ {0}
         /\ StarBase \in Nat \ {0} /\ StarUplinks \in Nat
         /\ DOMAIN req.roles = 1..Star!Hosts
<1>1. Star!Hosts \in Nat /\ DOMAIN req.roles = 1..Star!Hosts
  BY DEF StarRequest, Star!Hosts
<1>2. Star!Access \in Nat \ {0}
  BY <1>1 DEF StarRequest, Star!Access, Star!AtLeast, Star!AtMost
<1> QED
  BY <1>1, <1>2 DEF StarBase, StarUplinks

\* The nodes of hosts follow those of the switches.
LEMMA StarNodes ==
  ASSUME StarRequest, plan.spent \in [StarSwitches -> Nat], NEW k \in Nat
  PROVE  Star!NodeOf(k) = StarBase + k
<1>1. Star!Switches = StarSwitches
  BY DEF Star!Switches
<1>2. StarSwitches \cup {1} = 1..StarBase
  BY StarSizes DEF StarSwitches, StarBase
<1>3. Cardinality(1..StarBase) = StarBase
  <2>1. StarBase \in Nat \ {0}
    BY StarSizes
  <2> QED BY <2>1, FS_Interval
<1> QED
  BY <1>1, <1>2, <1>3, StarCardinality DEF Star!NodeOf, Star!Center

LEMMA StarSwitchOf ==
  ASSUME StarRequest, NEW k \in Nat \ {0}
  PROVE  Star!SwitchOf(k) \in StarSwitches /\ Star!SwitchOf(k) \in 1..StarBase
<1>1. k - 1 \in Int /\ Star!Access \in Nat \ {0} /\ (k - 1) % Star!Access \in 0..(Star!Access - 1)
  BY StarSizes
<1> QED
  BY <1>1 DEF Star!SwitchOf, StarSwitches, StarBase, StarRequest, Star!Center

\* The uplinks of the access switches that were made.
LEMMA UplinksCounted ==
  ASSUME StarRequest, NEW failed \in SUBSET (1..Star!Access)
  PROVE  LET uplinks == {Star!Ports(s + 1, 0, 1, s - 1) : s \in (1..Star!Access) \ failed} IN
           /\ IsFiniteSet(uplinks) /\ Cardinality(uplinks) \in Nat /\ Cardinality(failed) \in Nat
           /\ Cardinality(uplinks) + Cardinality(failed) = Star!Access
<1> DEFINE M == (1..Star!Access) \ failed
           f == [s \in M |-> Star!Ports(s + 1, 0, 1, s - 1)]
           uplinks == {Star!Ports(s + 1, 0, 1, s - 1) : s \in M}
<1>1. Star!Access \in Nat
  BY StarSizes
<1>2. ASSUME NEW s \in M, NEW t \in M, f[s] = f[t]
      PROVE  s = t
  <2>1. f[s][1] = s - 1 /\ f[t][1] = t - 1
    BY <1>1 DEF Star!Ports
  <2> QED BY <1>2, <2>1, <1>1
<1>3. f \in Bijection(M, uplinks)
  BY <1>2 DEF Bijection, Injection, Surjection, IsInjective
<1>4. IsFiniteSet(1..Star!Access) /\ Cardinality(1..Star!Access) = Star!Access
  BY <1>1, FS_Interval
<1>5. /\ IsFiniteSet(M) /\ IsFiniteSet(failed)
      /\ Cardinality(M) \in Nat /\ Cardinality(failed) \in Nat
  BY <1>4, FS_Subset, FS_CardinalityType
<1>6. Cardinality(M) + Cardinality(failed) = Star!Access
  <2> HIDE DEF M
  <2>1. M \cup failed = 1..Star!Access /\ M \cap failed = {}
    BY DEF M
  <2>2. Cardinality(M \cup failed) = Cardinality(M) + Cardinality(failed) - Cardinality(M \cap failed)
    BY <1>5, FS_Union
  <2>3. Cardinality(M \cap failed) = 0
    BY <2>1, FS_EmptySet
  <2>4. Cardinality(M \cup failed) = Star!Access
    BY <1>4, <2>1
  <2> QED BY <1>1, <1>5, <2>2, <2>3, <2>4
<1> QED
  <2> HIDE DEF M
  <2>1. IsFiniteSet(uplinks) /\ Cardinality(uplinks) = Cardinality(M)
    BY <1>3, <1>5, FS_Bijection DEF ExistsBijection
  <2> QED BY <1>5, <1>6, <2>1 DEF M

LEMMA StarBegins ==
  ASSUME StarRequest, plan = Star!Begun
  PROVE  StarInv
BY DEF Star!Begun, StarInv, StarShape

LEMMA StarStartsStar ==
  ASSUME StarRequest, StarInv, Star!StartsStar
  PROVE  StarInv'
<1>1. req' = req /\ req.kind = "star" /\ plan = Star!Begun
  BY DEF Star!StartsStar, Star!Starts, StarInv
<1>2. plan' = [pc |-> "hosts", links |-> {}, spent |-> [s \in {1} |-> 0], lost |-> 0, k |-> 1,
               slot |-> 0, docker |-> <<>>, reported |-> {}]
  BY <1>1 DEF Star!StartsStar, Star!Begun, Star!Center
<1>3. Star!Hosts' = Star!Hosts /\ StarUplinks' = 0 /\ StarSwitches' = {1} /\ PlainBefore(1)' = {}
  BY <1>1 DEF Star!Hosts, StarUplinks, StarSwitches, PlainBefore
<1>4. StarLinked'
  BY <1>2, <1>3, FS_EmptySet DEF StarLinked
<1>5. StarDocked'
  <2>1. /\ Cardinality({}) = 0
        /\ PlainBefore(plan.k)' = {}
        /\ plan'.slot = 0 /\ plan'.docker = <<>> /\ plan'.reported = {}
    BY <1>2, <1>3, FS_EmptySet
  <2>2. DOMAIN plan'.docker = {} /\ 1..plan'.slot = {}
    BY <2>1
  <2> QED BY <2>1, <2>2 DEF StarDocked
<1> QED
  BY <1>1, <1>2, <1>3, <1>4, <1>5, StarSizes DEF StarInv, StarShape

LEMMA StarStartsAccess ==
  ASSUME StarRequest, StarInv, Star!StartsAccess
  PROVE  StarInv'
<1>1. req' = req /\ req.kind = "access" /\ plan = Star!Begun
  BY DEF Star!StartsAccess, Star!Starts, StarInv
<1> DEFINE A == Star!Access
<1>0. PICK failed \in SUBSET (1..A) :
        plan' = [plan EXCEPT !.pc = "hosts", !.lost = Star!Cardinality(failed),
                   !.links = {Star!Ports(s + 1, 0, 1, s - 1) : s \in (1..A) \ failed},
                   !.spent = [s \in 2..(A + 1) |-> 1]]
  BY DEF Star!StartsAccess, Star!Center
<1> DEFINE uplinks == {Star!Ports(s + 1, 0, 1, s - 1) : s \in (1..A) \ failed}
<1>2. plan' = [pc |-> "hosts", links |-> uplinks, spent |-> [s \in 2..(A + 1) |-> 1],
               lost |-> Cardinality(failed), k |-> 1, slot |-> 0, docker |-> <<>>, reported |-> {}]
  BY <1>0, <1>1, StarCardinality DEF Star!Begun
<1>3. /\ Star!Hosts' = Star!Hosts /\ StarUplinks' = A /\ StarSwitches' = 2..(A + 1)
      /\ StarBase' = A + 1 /\ PlainBefore(1)' = {}
  BY <1>1 DEF Star!Hosts, StarUplinks, StarSwitches, StarBase, PlainBefore, Star!Access
<1>4. A \in Nat \ {0}
  BY StarSizes
<1>5. ASSUME NEW l \in uplinks
      PROVE  \E s \in 1..A : DOMAIN l = {s + 1, 1} /\ l[s + 1] = 0 /\ l[1] = s - 1
                              /\ l = Star!Ports(s + 1, 0, 1, s - 1)
  <2>1. PICK s \in 1..A : l = Star!Ports(s + 1, 0, 1, s - 1)
    BY <1>5
  <2>2. DOMAIN l = {s + 1, 1} /\ l[s + 1] = 0 /\ l[1] = s - 1
    BY <1>4, <2>1 DEF Star!Ports
  <2> QED BY <2>1, <2>2
<1>6. StarLinked'
  <2>1. ASSUME NEW l \in uplinks, NEW v \in DOMAIN l
        PROVE  v \in 1..(A + 1) /\ l[v] \in Nat /\ (v \in 2..(A + 1) => l[v] = 0)
    <3>1. PICK s \in 1..A : DOMAIN l = {s + 1, 1} /\ l[s + 1] = 0 /\ l[1] = s - 1
      BY <1>5
    <3>2. CASE v = 1
      BY <3>1, <3>2, <1>4
    <3>3. CASE v = s + 1
      BY <3>1, <3>3, <1>4
    <3> QED BY <2>1, <3>1, <3>2, <3>3
  <2>2. ASSUME NEW l \in uplinks, NEW m \in uplinks, NEW v \in DOMAIN l \cap DOMAIN m, l[v] = m[v]
        PROVE  l = m
    <3>1. PICK s \in 1..A : DOMAIN l = {s + 1, 1} /\ l[s + 1] = 0 /\ l[1] = s - 1
                             /\ l = Star!Ports(s + 1, 0, 1, s - 1)
      BY <1>5
    <3>2. PICK t \in 1..A : DOMAIN m = {t + 1, 1} /\ m[t + 1] = 0 /\ m[1] = t - 1
                             /\ m = Star!Ports(t + 1, 0, 1, t - 1)
      BY <1>5
    <3>3. s = t
      BY <2>2, <3>1, <3>2, <1>4
    <3> QED BY <3>1, <3>2, <3>3
  <2>3. plan'.spent \in [2..(A + 1) -> Nat]
    BY <1>2
  <2>4. /\ IsFiniteSet(uplinks) /\ Cardinality(failed) \in Nat
        /\ Cardinality(uplinks) + Cardinality(failed) = A
    BY UplinksCounted
  <2>5. /\ IsFiniteSet(plan'.links) /\ plan'.lost \in Nat
        /\ Cardinality(plan'.links) + plan'.lost = A + plan'.k - 1
    <3>1. plan'.links = uplinks /\ plan'.lost = Cardinality(failed) /\ plan'.k = 1
      BY <1>2
    <3>2. A + plan'.k - 1 = A
      BY <3>1, <1>4
    <3> QED BY <2>4, <3>1, <3>2
  <2> HIDE DEF uplinks, A
  <2> QED BY <1>2, <1>3, <1>4, <2>1, <2>2, <2>3, <2>5 DEF StarLinked
<1>7. StarDocked'
  <2>1. /\ Cardinality({}) = 0
        /\ PlainBefore(plan.k)' = {}
        /\ plan'.slot = 0 /\ plan'.docker = <<>> /\ plan'.reported = {}
    BY <1>2, <1>3, FS_EmptySet
  <2>2. DOMAIN plan'.docker = {} /\ 1..plan'.slot = {}
    BY <2>1
  <2> QED BY <2>1, <2>2 DEF StarDocked
<1> QED
  BY <1>1, <1>2, <1>3, <1>6, <1>7, StarSizes DEF StarInv, StarShape

\* A host's node is new, its interface 0 and the switch's next are used by no link.
LEMMA StarLinksHost ==
  ASSUME StarRequest, StarShape, StarLinked, plan.k \in Nat \ {0}, plan.k <= Star!Hosts,
         NEW kind, Star!AddsHost(kind)
  PROVE  StarLinked'
<1> DEFINE k == plan.k
           v == StarBase + k
           s == Star!SwitchOf(k)
           w == Star!Ports(v, 0, s, plan.spent[s])
<1>1. req' = req /\ Star!NodeOf(k) = v
  BY StarNodes DEF Star!AddsHost, StarLinked
<1>2. /\ \/ plan'.links = plan.links \cup {w} /\ plan'.lost = plan.lost
         \/ plan'.links = plan.links /\ plan'.lost = plan.lost + 1
      /\ plan'.spent = [plan.spent EXCEPT ![s] = @ + 1] /\ plan'.k = k + 1
  BY <1>1 DEF Star!AddsHost, StarShape
<1>3. StarSwitches' = StarSwitches /\ StarBase' = StarBase /\ StarUplinks' = StarUplinks
  BY <1>1 DEF StarSwitches, StarBase, StarUplinks, Star!Access, Star!Hosts
<1>4. s \in StarSwitches /\ s \in 1..StarBase /\ StarBase \in Nat \ {0}
  BY StarSwitchOf, StarSizes
<1>5. DOMAIN w = {v, s} /\ w[v] = 0 /\ w[s] = plan.spent[s] /\ v # s
  BY <1>4 DEF Star!Ports
<1>6. v \notin StarSwitches
  BY <1>4 DEF StarSwitches, StarBase
<1>7. \A l \in plan.links : v \notin DOMAIN l /\ (s \in DOMAIN l => l[s] < plan.spent[s])
  BY <1>4 DEF StarLinked
<1>8. w \notin plan.links
  BY <1>5, <1>7
<1>9. /\ IsFiniteSet(plan'.links) /\ plan'.lost \in Nat
      /\ Cardinality(plan'.links) + plan'.lost = StarUplinks + plan'.k - 1
  <2>1. /\ IsFiniteSet(plan.links) /\ plan.lost \in Nat /\ Cardinality(plan.links) \in Nat
        /\ Cardinality(plan.links) + plan.lost = StarUplinks + k - 1
    BY FS_CardinalityType DEF StarLinked
  <2>2. PICK L, x : L = plan.links /\ x = w
    OBVIOUS
  <2>3. IsFiniteSet(L \cup {x}) /\ Cardinality(L \cup {x}) = Cardinality(L) + 1
    BY <1>8, <2>1, <2>2, FS_AddElement
  <2>4. /\ IsFiniteSet(plan'.links)
        /\ \/ plan'.lost = plan.lost /\ Cardinality(plan'.links) = Cardinality(plan.links) + 1
           \/ plan'.lost = plan.lost + 1 /\ Cardinality(plan'.links) = Cardinality(plan.links)
    BY <1>2, <2>1, <2>2, <2>3
  <2>5. plan'.k = k + 1 /\ StarUplinks \in Nat /\ k \in Nat
    BY <1>2, StarSizes
  <2> HIDE DEF k
  <2> QED BY <2>1, <2>4, <2>5
<1>10. plan'.spent \in [StarSwitches -> Nat] /\ plan'.spent[s] = plan.spent[s] + 1
       /\ \A t \in StarSwitches : plan'.spent[t] >= plan.spent[t]
  BY <1>2, <1>4 DEF StarLinked
<1>11. \A l \in plan'.links : \A u \in DOMAIN l :
          /\ u \in 1..(StarBase + plan'.k - 1) /\ l[u] \in Nat
          /\ u \in StarSwitches => l[u] < plan'.spent[u]
  <2> SUFFICES ASSUME NEW l \in plan'.links, NEW u \in DOMAIN l
               PROVE  /\ u \in 1..(StarBase + plan'.k - 1) /\ l[u] \in Nat
                      /\ u \in StarSwitches => l[u] < plan'.spent[u]
    OBVIOUS
  <2>1. CASE l \in plan.links
    <3>1. u \in 1..(StarBase + k - 1) /\ l[u] \in Nat /\ (u \in StarSwitches => l[u] < plan.spent[u])
      BY <2>1 DEF StarLinked
    <3>2. u \in StarSwitches => l[u] < plan'.spent[u]
      <4> SUFFICES ASSUME u \in StarSwitches PROVE l[u] < plan'.spent[u]
        OBVIOUS
      <4>1. CASE u = s
        <5>1. l[u] < plan.spent[s] /\ plan.spent[s] \in Nat
          BY <4>1, <3>1, <1>4 DEF StarLinked
        <5> QED BY <4>1, <3>1, <1>10, <5>1
      <4>2. CASE u # s
        BY <3>1, <4>2, <1>2
      <4> QED BY <4>1, <4>2
    <3> QED BY <3>1, <3>2, <1>2, <1>4
  <2>2. CASE l = w
    BY <2>2, <1>2, <1>4, <1>5, <1>6, <1>10 DEF StarLinked
  <2> QED BY <1>2, <2>1, <2>2
<1>12. \A l, m \in plan'.links : \A u \in DOMAIN l \cap DOMAIN m : l[u] = m[u] => l = m
  <2>1. \A l \in plan.links : \A u \in DOMAIN l \cap DOMAIN w : l[u] # w[u]
    <3>1. plan.spent[s] \in Nat /\ \A l \in plan.links : \A u \in DOMAIN l : l[u] \in Nat
      BY <1>4 DEF StarLinked
    <3> QED BY <3>1, <1>5, <1>7
  <2>2. \A l, m \in plan.links : \A u \in DOMAIN l \cap DOMAIN m : l[u] = m[u] => l = m
    BY DEF StarLinked
  <2> QED BY <1>2, <2>1, <2>2
<1> QED
  BY <1>1, <1>3, <1>9, <1>10, <1>11, <1>12 DEF StarLinked

LEMMA PlainGrows ==
  ASSUME StarRequest, NEW k \in 1..Star!Hosts
  PROVE  LET plain == req.roles[k] = "host" IN
         /\ PlainBefore(k + 1) = PlainBefore(k) \cup (IF plain THEN {k} ELSE {})
         /\ IsFiniteSet(PlainBefore(k)) /\ IsFiniteSet(PlainBefore(k + 1))
         /\ Cardinality(PlainBefore(k)) \in Nat
         /\ Cardinality(PlainBefore(k + 1)) = Cardinality(PlainBefore(k)) + IF plain THEN 1 ELSE 0
<1>1. Star!Hosts \in Nat /\ k - 1 \in Int
  BY StarSizes
<1>2. PlainBefore(k + 1) = PlainBefore(k) \cup (IF req.roles[k] = "host" THEN {k} ELSE {})
  BY <1>1 DEF PlainBefore
<1>3. IsFiniteSet(1..(k - 1)) /\ PlainBefore(k) \subseteq 1..(k - 1)
  BY <1>1, FS_Interval DEF PlainBefore
<1>4. IsFiniteSet(PlainBefore(k)) /\ Cardinality(PlainBefore(k)) \in Nat
  BY <1>3, FS_Subset, FS_CardinalityType
<1>5. k \notin PlainBefore(k)
  BY <1>1 DEF PlainBefore
<1>6. /\ IsFiniteSet(PlainBefore(k) \cup {k})
      /\ Cardinality(PlainBefore(k) \cup {k}) = Cardinality(PlainBefore(k)) + 1
  BY <1>4, <1>5, FS_AddElement
<1>7. CASE req.roles[k] = "host"
  BY <1>2, <1>4, <1>6, <1>7
<1>8. CASE req.roles[k] # "host"
  <2>1. PlainBefore(k + 1) = PlainBefore(k)
    BY <1>2, <1>8
  <2> QED BY <2>1, <1>4, <1>8
<1> QED
  BY <1>7, <1>8

\* A plain host takes the next slot, and its node becomes the docker node of that slot if
\* the slot is asked for.
LEMMA StarDocksHost ==
  ASSUME StarRequest, StarShape, StarLinked, StarDocked, plan.k \in Nat \ {0},
         plan.k <= Star!Hosts, NEW kind, Star!AddsHost(kind)
  PROVE  StarDocked'
<1> DEFINE k == plan.k
           v == StarBase + k
           plain == req.roles[k] = "host"
           slot == plan.slot + IF plain THEN 1 ELSE 0
           docker == plain /\ slot \in req.slots
           N(j) == {StarBase + i : i \in PlainBefore(j)}
           R == Star!Range(plan.docker)
<1>1. req' = req /\ Star!NodeOf(k) = v /\ StarBase' = StarBase
  BY StarNodes DEF Star!AddsHost, StarLinked, StarBase, Star!Access, Star!Hosts
<1>2. /\ plan'.slot = slot /\ plan'.k = k + 1
      /\ plan'.docker = IF docker THEN Star!With(plan.docker, slot, v) ELSE plan.docker
      /\ plan'.reported = IF plain /\ ~docker THEN plan.reported \cup {v} ELSE plan.reported
  BY <1>1 DEF Star!AddsHost, StarShape
<1>3. k \in 1..Star!Hosts /\ StarBase \in Nat
  BY StarSizes
<1>4. /\ plan.slot \in Nat
      /\ slot = Cardinality(PlainBefore(k + 1))
  BY <1>3, PlainGrows DEF StarDocked
<1>5. N(k + 1) = N(k) \cup IF plain THEN {v} ELSE {}
  BY <1>3, PlainGrows
<1>6. v \notin N(k) /\ v \notin R
  <2>1. v \notin N(k)
    BY <1>3 DEF PlainBefore
  <2> QED BY <2>1 DEF StarDocked, Star!Range
<1>7. PlainBefore(plan.k)' = PlainBefore(k + 1)
  BY <1>1, <1>2 DEF PlainBefore
<1>8. {StarBase + i : i \in PlainBefore(plan.k)}' = N(k + 1)
  BY <1>1, <1>7
<1>9. CASE docker
  <2>1. /\ DOMAIN plan'.docker = DOMAIN plan.docker \cup {slot} /\ plan'.docker[slot] = v
        /\ slot = plan.slot + 1 /\ slot \notin DOMAIN plan.docker
        /\ \A s \in DOMAIN plan.docker : plan'.docker[s] = plan.docker[s]
    BY <1>2, <1>4, <1>9 DEF Star!With, StarDocked
  <2>2. DOMAIN plan'.docker = req.slots \cap 1..slot
    BY <1>4, <1>9, <2>1 DEF StarDocked, StarRequest
  <2>3. \A s \in DOMAIN plan'.docker : plan'.docker[s] \in N(k + 1)
    BY <1>5, <1>9, <2>1 DEF StarDocked
  <2>4. \A s, t \in DOMAIN plan'.docker : plan'.docker[s] = plan'.docker[t] => s = t
    BY <1>6, <2>1 DEF StarDocked
  <2>5. Star!Range(plan'.docker) = R \cup {v}
    BY <2>1 DEF Star!Range
  <2>6. plan'.reported = N(k + 1) \ (R \cup {v})
    BY <1>2, <1>5, <1>6, <1>9 DEF StarDocked
  <2> QED BY <1>1, <1>2, <1>4, <1>7, <1>8, <2>2, <2>3, <2>4, <2>5, <2>6 DEF StarDocked
<1>10. CASE ~docker
  <2>1. plan'.docker = plan.docker
    BY <1>2, <1>10
  <2>2. DOMAIN plan'.docker = req.slots \cap 1..slot
    <3>1. slot = plan.slot \/ (slot = plan.slot + 1 /\ slot \notin req.slots)
      BY <1>4, <1>10
    <3>2. DOMAIN plan.docker = req.slots \cap 1..plan.slot
      BY DEF StarDocked
    <3> QED BY <1>4, <2>1, <3>1, <3>2
  <2>3. \A s \in DOMAIN plan'.docker : plan'.docker[s] \in N(k + 1)
    BY <1>5, <2>1 DEF StarDocked
  <2>4. \A s, t \in DOMAIN plan'.docker : plan'.docker[s] = plan'.docker[t] => s = t
    BY <2>1 DEF StarDocked
  <2>5. plan'.reported = N(k + 1) \ R
    BY <1>2, <1>5, <1>6, <1>10 DEF StarDocked
  <2> QED BY <1>1, <1>2, <1>4, <1>7, <1>8, <2>1, <2>2, <2>3, <2>4, <2>5 DEF StarDocked
<1> QED BY <1>9, <1>10

LEMMA StarAddsHost ==
  ASSUME StarRequest, StarInv, NEW kind, Star!AddsHost(kind)
  PROVE  StarInv'
<1>1. req' = req /\ plan.pc = "hosts" /\ plan.k <= Star!Hosts
  BY DEF Star!AddsHost
<1>2. /\ plan'.pc = "hosts" /\ plan'.k = plan.k + 1
      /\ plan' = [pc |-> plan'.pc, links |-> plan'.links, spent |-> plan'.spent,
                  lost |-> plan'.lost, k |-> plan'.k, slot |-> plan'.slot,
                  docker |-> plan'.docker, reported |-> plan'.reported]
  BY <1>1 DEF Star!AddsHost, StarInv, StarShape
<1>3. StarShape /\ StarLinked /\ StarDocked /\ plan.k \in 1..(Star!Hosts + 1)
  BY <1>1 DEF StarInv
<1>4. plan.k \in Nat \ {0} /\ plan'.k \in 1..(Star!Hosts + 1)
  BY <1>1, <1>2, <1>3, StarSizes
<1>5. StarLinked' /\ StarDocked'
  BY <1>1, <1>3, <1>4, StarLinksHost, StarDocksHost
<1> QED
  BY <1>1, <1>2, <1>4, <1>5 DEF StarInv, StarShape, Star!Hosts

LEMMA StarEndsHosts ==
  ASSUME StarRequest, StarInv, Star!EndsHosts
  PROVE  StarInv'
<1>1. req' = req /\ plan.pc = "hosts" /\ plan.k > Star!Hosts
  BY DEF Star!EndsHosts
<1>2. plan' = [plan EXCEPT !.pc = IF req.kind = "star" /\ Star!Missing # {} THEN "raised" ELSE "done"]
  BY DEF Star!EndsHosts
<1>3. StarShape /\ StarLinked /\ StarDocked /\ plan.k \in 1..(Star!Hosts + 1)
  BY <1>1 DEF StarInv
<1>4. plan.k = Star!Hosts + 1
  BY <1>1, <1>3, StarSizes
<1>5. /\ plan'.links = plan.links /\ plan'.spent = plan.spent /\ plan'.k = plan.k
      /\ plan'.lost = plan.lost
      /\ plan'.slot = plan.slot /\ plan'.docker = plan.docker /\ plan'.reported = plan.reported
      /\ plan'.pc = IF req.kind = "star" /\ Star!Missing # {} THEN "raised" ELSE "done"
      /\ StarShape'
  BY <1>2, <1>3 DEF StarShape
<1>6. StarLinked'
  <2>1. StarSwitches' = StarSwitches /\ StarBase' = StarBase /\ StarUplinks' = StarUplinks
    BY <1>1 DEF StarSwitches, StarBase, StarUplinks, Star!Access, Star!Hosts
  <2> QED BY <1>3, <1>5, <2>1 DEF StarLinked
<1>7. StarDocked'
  <2>1. PlainBefore(plan.k)' = PlainBefore(plan.k) /\ StarBase' = StarBase
    BY <1>1, <1>5 DEF PlainBefore, StarBase, Star!Access, Star!Hosts
  <2> QED BY <1>1, <1>3, <1>5, <2>1 DEF StarDocked
<1>8. Star!Missing' = Star!Missing
  BY <1>1, <1>5 DEF Star!Missing
<1> QED
  BY <1>1, <1>3, <1>4, <1>5, <1>6, <1>7, <1>8 DEF StarInv, Star!Hosts

LEMMA StarMissesSwitch ==
  ASSUME StarRequest, StarInv, Star!MissesSwitch
  PROVE  StarInv'
<1>1. /\ req' = req /\ plan.pc = "hosts" /\ req.kind = "access" /\ ~req.lookup
      /\ plan' = [plan EXCEPT !.pc = "raised"]
  BY DEF Star!MissesSwitch
<1>2. StarShape /\ StarLinked /\ StarDocked /\ plan.k \in 1..(Star!Hosts + 1)
  BY <1>1 DEF StarInv
<1>3. /\ plan'.links = plan.links /\ plan'.spent = plan.spent /\ plan'.k = plan.k
      /\ plan'.lost = plan.lost
      /\ plan'.slot = plan.slot /\ plan'.docker = plan.docker /\ plan'.reported = plan.reported
      /\ plan'.pc = "raised" /\ StarShape'
  BY <1>1, <1>2 DEF StarShape
<1>4. StarLinked'
  <2>1. StarSwitches' = StarSwitches /\ StarBase' = StarBase /\ StarUplinks' = StarUplinks
    BY <1>1 DEF StarSwitches, StarBase, StarUplinks, Star!Access, Star!Hosts
  <2> QED BY <1>2, <1>3, <2>1 DEF StarLinked
<1>5. StarDocked'
  <2>1. PlainBefore(plan.k)' = PlainBefore(plan.k) /\ StarBase' = StarBase
    BY <1>1, <1>3 DEF PlainBefore, StarBase, Star!Access, Star!Hosts
  <2> QED BY <1>1, <1>2, <1>3, <2>1 DEF StarDocked
<1> QED
  BY <1>1, <1>2, <1>3, <1>4, <1>5 DEF StarInv, Star!Hosts

LEMMA StarStep ==
  ASSUME StarRequest, StarInv, Star!Next
  PROVE  StarRequest' /\ StarInv'
<1>1. StarRequest'
  BY DEF StarRequest, Star!Next, Star!StartsStar, Star!StartsAccess, Star!Starts,
         Star!AddsStarHost, Star!AddsAccessHost, Star!AddsHost, Star!MissesSwitch, Star!EndsHosts
<1> QED
  BY <1>1, StarStartsStar, StarStartsAccess, StarAddsHost, StarMissesSwitch, StarEndsHosts
  DEF Star!Next, Star!AddsStarHost, Star!AddsAccessHost

LEMMA StarWaits ==
  ASSUME StarRequest, StarInv, UNCHANGED <<req, plan>>
  PROVE  StarRequest' /\ StarInv'
BY DEF StarRequest, StarInv, StarShape, StarLinked, StarDocked, PlainBefore, StarSwitches, StarBase,
       StarUplinks, Star!Access, Star!Hosts, Star!Missing, Star!Begun

\* The invariant at the end is what the topology promises.
LEMMA StarPromises ==
  ASSUME StarRequest, StarInv
  PROVE  Star!InterfacesDistinct /\ Star!DockersPlaced
<1>1. Star!InterfacesDistinct
  <2>1. \A l, m \in plan.links : \A v \in DOMAIN l \cap DOMAIN m : l[v] = m[v] => l = m
    BY DEF StarInv, StarLinked, Star!Begun
  <2>2. ASSUME plan.pc = "done"
        PROVE  Cardinality(plan.links) + plan.lost =
                 Cardinality((Star!Switches \ {Star!Center}) \cup {Star!NodeOf(k) : k \in 1..Star!Hosts})
    <3>1. plan.spent \in [StarSwitches -> Nat] /\ plan.k = Star!Hosts + 1
          /\ Cardinality(plan.links) + plan.lost = StarUplinks + Star!Hosts
      BY <2>2, StarSizes DEF StarInv, StarLinked
    <3>2. {Star!NodeOf(k) : k \in 1..Star!Hosts} = (StarBase + 1)..(StarBase + Star!Hosts)
      <4>1. \A k \in 1..Star!Hosts : Star!NodeOf(k) = StarBase + k
        BY <3>1, StarNodes
      <4>2. {Star!NodeOf(k) : k \in 1..Star!Hosts} = {StarBase + k : k \in 1..Star!Hosts}
        BY <4>1
      <4>3. StarBase \in Nat /\ Star!Hosts \in Nat
        BY StarSizes
      <4>4. \A x \in (StarBase + 1)..(StarBase + Star!Hosts) :
              x - StarBase \in 1..Star!Hosts /\ x = StarBase + (x - StarBase)
        BY <4>3
      <4>5. \A k \in 1..Star!Hosts : StarBase + k \in (StarBase + 1)..(StarBase + Star!Hosts)
        BY <4>3
      <4> QED BY <4>2, <4>4, <4>5
    <3>3. (Star!Switches \ {Star!Center}) \cup ((StarBase + 1)..(StarBase + Star!Hosts))
            = 2..(StarBase + Star!Hosts)
      BY <3>1, StarSizes DEF Star!Switches, Star!Center, StarSwitches, StarBase
    <3>4. Cardinality(2..(StarBase + Star!Hosts)) = StarBase + Star!Hosts - 1
      <4>1. \A b \in Nat \ {0} : Cardinality(2..b) = b - 1
        BY FS_Interval
      <4>2. StarBase \in Nat \ {0} /\ Star!Hosts \in Nat
        BY StarSizes
      <4>3. StarBase + Star!Hosts \in Nat \ {0}
        BY <4>2
      <4> QED BY <4>1, <4>2, <4>3
    <3>5. StarBase = StarUplinks + 1
      BY StarSizes DEF StarBase, StarUplinks
    <3>6. (Star!Switches \ {Star!Center}) \cup {Star!NodeOf(k) : k \in 1..Star!Hosts}
            = 2..(StarBase + Star!Hosts)
      BY <3>2, <3>3
    <3>7. StarUplinks + Star!Hosts = StarBase + Star!Hosts - 1
      BY <3>5, StarSizes
    <3> QED BY <3>1, <3>4, <3>6, <3>7
  <2> QED BY <2>1, <2>2, StarCardinality DEF Star!InterfacesDistinct
<1>2. ASSUME plan.pc = "done" \/ (plan.pc = "raised" /\ req.kind = "star")
      PROVE  /\ StarLinked /\ StarDocked /\ plan.k = Star!Hosts + 1
             /\ plan.slot = Cardinality(Star!Plain) /\ plan.slot \in Nat
             /\ {Star!NodeOf(k) : k \in Star!Plain} = {StarBase + i : i \in PlainBefore(plan.k)}
  <2>1. StarLinked /\ StarDocked /\ plan.k = Star!Hosts + 1
    BY <1>2 DEF StarInv
  <2>2. PlainBefore(plan.k) = Star!Plain
    BY <2>1, StarSizes DEF PlainBefore, Star!Plain
  <2>3. IsFiniteSet(1..Star!Hosts) /\ Star!Plain \subseteq 1..Star!Hosts
    BY StarSizes, FS_Interval DEF Star!Plain
  <2>4. Cardinality(Star!Plain) \in Nat
    BY <2>3, FS_Subset, FS_CardinalityType
  <2>5. \A k \in Star!Plain : Star!NodeOf(k) = StarBase + k
    BY <2>1, StarNodes DEF StarLinked, Star!Plain
  <2> QED BY <2>1, <2>2, <2>4, <2>5 DEF StarDocked
<1>3. plan.pc = "raised" =>
        IF req.kind = "star" THEN \E s \in req.slots : s > Cardinality(Star!Plain) ELSE ~req.lookup
  <2> SUFFICES ASSUME plan.pc = "raised", req.kind = "star"
               PROVE  \E s \in req.slots : s > Cardinality(Star!Plain)
    BY DEF StarInv
  <2>1. PICK s \in req.slots : s \notin DOMAIN plan.docker
    BY DEF StarInv, Star!Missing
  <2>2. s \in Nat \ {0} /\ s \notin 1..plan.slot
    BY <1>2, <2>1 DEF StarDocked, StarRequest
  <2> QED BY <1>2, <2>2
<1>4. plan.pc = "done" =>
        LET nodes == {Star!NodeOf(k) : k \in Star!Plain} IN
          /\ DOMAIN plan.docker = req.slots \cap 1..Cardinality(Star!Plain)
          /\ req.kind = "star" => Star!Missing = {}
          /\ Star!Range(plan.docker) \subseteq nodes
          /\ \A s, t \in DOMAIN plan.docker : plan.docker[s] = plan.docker[t] => s = t
          /\ plan.reported = nodes \ Star!Range(plan.docker)
  BY ZenonT(40), <1>2 DEF StarInv, StarDocked, Star!Range
<1> QED
  BY <1>1, <1>3, <1>4, StarCardinality DEF Star!DockersPlaced

\* For every request and whichever link calls fail: no interface is used twice, every node
\* has its link toward the center but for as many as calls failed, and the slots asked for
\* are docker nodes of plain hosts (build_star_from_roles, build_multi_switch_topology).
THEOREM StarCorrect ==
  StarRequest /\ Star!Spec => [](Star!InterfacesDistinct /\ Star!DockersPlaced)
<1>1. StarRequest /\ Star!Init => StarRequest /\ StarInv
  BY StarBegins DEF Star!Init
<1>2. StarRequest /\ StarInv /\ [Star!Next]_Star!vars => StarRequest' /\ StarInv'
  BY StarStep, StarWaits DEF Star!vars
<1>3. StarRequest /\ StarInv => Star!InterfacesDistinct /\ Star!DockersPlaced
  BY StarPromises
<1> QED
  BY <1>1, <1>2, <1>3, PTL DEF Star!Spec

-----------------------------------------------------------------------------
(* Finite sets of numbers *)

\* A set of numbers has a least element.
LEMMA LeastNumber ==
  ASSUME NEW T, T \subseteq Nat, T # {}
  PROVE  \E n \in T : \A m \in T : n <= m
<1>1. PICK n \in T : \A m \in T : ~(<<m, n>> \in OpToRel(<, Nat))
  BY NatLessThanWellFounded, WFMin
<1>2. \A m \in T : ~(m < n)
  BY <1>1 DEF OpToRel
<1> QED BY <1>2

\* A set of numbers with a bound has a greatest element.
LEMMA GreatestBelow ==
  ASSUME NEW S, S \subseteq Nat, S # {}, NEW b \in Nat, \A y \in S : y <= b
  PROVE  \E m \in S : \A y \in S : y <= m
<1> DEFINE B == {n \in Nat : \A y \in S : y <= n}
<1>1. PICK m \in B : \A n \in B : m <= n
  <2>1. B \subseteq Nat /\ b \in B
    OBVIOUS
  <2> QED BY <2>1, LeastNumber
<1>2. m \in S
  <2> SUFFICES ASSUME m \notin S PROVE FALSE
    OBVIOUS
  <2>1. PICK j \in S : TRUE
    OBVIOUS
  <2>2. m \in Nat /\ m # 0 /\ \A y \in S : y <= m - 1
    BY <1>1, <2>1
  <2>3. m - 1 \in B
    BY <2>2
  <2> QED BY <1>1, <2>2, <2>3
<1> QED
  BY <1>1, <1>2

\* A finite one has a bound: the smallest without one would have it but for one element.
LEMMA FiniteIsBounded ==
  ASSUME NEW S, S \subseteq Nat, IsFiniteSet(S)
  PROVE  \E b \in Nat : \A y \in S : y <= b
<1> DEFINE Bounded(T) == \E b \in Nat : \A y \in T : y <= b
           Sizes == {n \in Nat : \E T \in SUBSET Nat :
                       IsFiniteSet(T) /\ Cardinality(T) = n /\ ~Bounded(T)}
<1> SUFFICES ASSUME ~Bounded(S) PROVE FALSE
  OBVIOUS
<1>1. Cardinality(S) \in Sizes
  BY FS_CardinalityType
<1>2. PICK n \in Sizes : \A m \in Sizes : n <= m
  <2>1. Sizes \subseteq Nat /\ Sizes # {}
    BY <1>1
  <2> HIDE DEF Sizes
  <2> QED BY <2>1, LeastNumber
<1>3. PICK T \in SUBSET Nat : IsFiniteSet(T) /\ Cardinality(T) = n /\ ~Bounded(T)
  BY <1>2
<1>4. PICK x \in T : TRUE
  BY <1>3
<1>5. IsFiniteSet(T \ {x}) /\ Cardinality(T \ {x}) = n - 1 /\ n - 1 \in Nat
  <2>1. IsFiniteSet(T \ {x}) /\ Cardinality(T \ {x}) = n - 1
    BY <1>3, <1>4, FS_RemoveElement
  <2>2. Cardinality(T \ {x}) \in Nat
    BY <2>1, FS_CardinalityType
  <2> QED BY <2>1, <2>2
<1>6. Bounded(T \ {x})
  <2> SUFFICES ASSUME ~Bounded(T \ {x}) PROVE FALSE
    OBVIOUS
  <2>1. n - 1 \in Sizes
    <3>1. T \ {x} \in SUBSET Nat
      OBVIOUS
    <3> QED BY <1>5, <3>1
  <2> QED BY <1>2, <1>5, <2>1
<1>7. PICK b \in Nat : \A y \in T \ {x} : y <= b
  BY <1>6
<1>8. Bounded(T)
  <2>1. x \in Nat /\ b + x \in Nat /\ \A y \in T : y <= b + x
    BY <1>4, <1>7
  <2> QED BY <2>1
<1> QED
  BY <1>3, <1>8

-----------------------------------------------------------------------------
(* Hardware in the loop *)

HitlRequest ==
  /\ req \in [routers : Seq(Nat \ {0}), switches : Seq(Nat \ {0}), hosts : Seq(Nat \ {0}),
              attach : Seq(DOMAIN Hitl!AttemptOrder), losses : Nat, lists : BOOLEAN,
              spent : Seq(Nat)]
  /\ Hitl!Given \subseteq DOMAIN req.spent

HitlShape ==
  /\ plan = [pc |-> plan.pc, k |-> plan.k, tries |-> plan.tries, node |-> plan.node,
             target |-> plan.target, ids |-> plan.ids, routers |-> plan.routers,
             switches |-> plan.switches, next |-> plan.next, links |-> plan.links,
             rj45s |-> plan.rj45s, made |-> plan.made, stray |-> plan.stray, lost |-> plan.lost]
  /\ plan.pc \in {"node", "attach", "rj45"} /\ plan.k \in Nat \ {0}

\* Nodes that nothing else is attached to: the RJ45 nodes, and the one that is to be next.
Pending == IF plan.pc = "node" THEN {} ELSE {plan.node}
Sole == plan.rj45s \cup Pending

HitlIds ==
  /\ plan.ids \subseteq Nat \ {0} /\ IsFiniteSet(plan.ids) /\ Hitl!Given \subseteq plan.ids
  /\ Sole \subseteq plan.ids \ Hitl!Given
  /\ Pending \cap (plan.rj45s \cup plan.stray) = {}
  /\ plan.routers \in Seq(plan.ids \ Sole) /\ plan.switches \in Seq(plan.ids \ Sole)
  /\ plan.pc = "rj45" => plan.target \in {0} \cup (plan.ids \ Sole)
  /\ plan.made \in Seq(plan.ids \ Hitl!Given)
  /\ \A a, b \in DOMAIN plan.made : plan.made[a] = plan.made[b] => a = b
  /\ \A a \in DOMAIN plan.made : plan.made[a] \notin Pending
  /\ plan.stray \subseteq plan.ids \ Hitl!Given

\* Each interface that is used has been spent, and is none that the builder's links use.
HitlPorts ==
  /\ plan.next = [v \in DOMAIN plan.next |-> plan.next[v]]
  /\ DOMAIN plan.next \subseteq plan.ids \ Sole
  /\ \A v \in DOMAIN plan.next :
       plan.next[v] \in Nat /\ (req.lists /\ v \in Hitl!Given => plan.next[v] >= req.spent[v])
  /\ \A l \in plan.links : \A v \in DOMAIN l :
       /\ l[v] \in Nat
       /\ v \in plan.rj45s \/ (v \in DOMAIN plan.next /\ l[v] < plan.next[v])
       /\ req.lists /\ v \in Hitl!Given => l[v] >= req.spent[v]
  /\ \A l, m \in plan.links : \A v \in DOMAIN l \cap DOMAIN m : l[v] = m[v] => l = m

HitlInv == HitlShape /\ HitlIds /\ HitlPorts

\* What two sequences are made of, their concatenation is.
LEMMA ConcatenationOf ==
  ASSUME NEW P, NEW s \in Seq(P), NEW t \in Seq(P)
  PROVE  /\ s \o t \in Seq(P)
         /\ \A i \in 1..Len(s) : i \in DOMAIN (s \o t) /\ (s \o t)[i] = s[i]
         /\ \A i \in 1..Len(t) : Len(s) + i \in DOMAIN (s \o t) /\ (s \o t)[Len(s) + i] = t[i]
<1>1. s \o t \in Seq(P) /\ Len(s \o t) = Len(s) + Len(t) /\ Len(s) \in Nat /\ Len(t) \in Nat
  OBVIOUS
<1>2. DOMAIN (s \o t) = 1..(Len(s) + Len(t))
  BY <1>1
<1>3. \A i \in 1..Len(s) : (s \o t)[i] = s[i]
  OBVIOUS
<1>4. \A i \in 1..Len(t) : (s \o t)[Len(s) + i] = t[i]
  BY <1>1
<1> QED BY <1>1, <1>2, <1>3, <1>4

LEMMA HitlGiven ==
  ASSUME HitlRequest
  PROVE  /\ IsFiniteSet(Hitl!Given) /\ Hitl!Given \subseteq Nat \ {0}
         /\ req.routers \in Seq(Hitl!Given) /\ req.switches \in Seq(Hitl!Given)
         /\ req.hosts \in Seq(Hitl!Given)
         /\ \A v \in Hitl!Given : req.spent[v] \in Nat
<1> DEFINE P == Nat \ {0}
           all == req.routers \o req.switches \o req.hosts
<1>1. /\ req.routers \in Seq(P) /\ req.switches \in Seq(P) /\ req.hosts \in Seq(P)
      /\ req.spent \in Seq(Nat)
  BY DEF HitlRequest
<1>2. \A v \in Hitl!Given : req.spent[v] \in Nat
  BY <1>1 DEF HitlRequest
<1> HIDE DEF P
<1> DEFINE nodes == req.routers \o req.switches
<1>0. nodes = req.routers \o req.switches
  OBVIOUS
<1> HIDE DEF nodes
<1>3. /\ nodes \in Seq(P)
      /\ \A i \in 1..Len(req.routers) : i \in DOMAIN nodes /\ nodes[i] = req.routers[i]
      /\ \A i \in 1..Len(req.switches) :
           Len(req.routers) + i \in DOMAIN nodes /\ nodes[Len(req.routers) + i] = req.switches[i]
  <2>1. \A s, t \in Seq(P) :
          /\ s \o t \in Seq(P)
          /\ \A i \in 1..Len(s) : i \in DOMAIN (s \o t) /\ (s \o t)[i] = s[i]
          /\ \A i \in 1..Len(t) : Len(s) + i \in DOMAIN (s \o t) /\ (s \o t)[Len(s) + i] = t[i]
    BY ConcatenationOf
  <2> QED BY <1>0, <1>1, <2>1, Zenon
<1>4. /\ all = nodes \o req.hosts /\ Hitl!Given = {all[i] : i \in DOMAIN all}
  BY <1>0 DEF Hitl!Given, Hitl!Range
<1> HIDE DEF all
<1>5. /\ all \in Seq(P)
      /\ \A i \in 1..Len(nodes) : i \in DOMAIN all /\ all[i] = nodes[i]
      /\ \A i \in 1..Len(req.hosts) : Len(nodes) + i \in DOMAIN all /\ all[Len(nodes) + i] = req.hosts[i]
  <2>1. \A s, t \in Seq(P) :
          /\ s \o t \in Seq(P)
          /\ \A i \in 1..Len(s) : i \in DOMAIN (s \o t) /\ (s \o t)[i] = s[i]
          /\ \A i \in 1..Len(t) : Len(s) + i \in DOMAIN (s \o t) /\ (s \o t)[Len(s) + i] = t[i]
    BY ConcatenationOf
  <2>2. nodes \in Seq(P) /\ req.hosts \in Seq(P) /\ all = nodes \o req.hosts
    BY <1>1, <1>3, <1>4
  <2> QED BY <2>1, <2>2, Zenon
<1>6. /\ Len(all) \in Nat /\ DOMAIN all = 1..Len(all) /\ DOMAIN nodes = 1..Len(nodes)
      /\ \A i \in DOMAIN all : all[i] \in P
  BY <1>3, <1>5
<1>7. Hitl!Given \subseteq P
  BY <1>4, <1>6
<1>8. IsFiniteSet(Hitl!Given)
  <2>1. all \in Surjection(1..Len(all), Hitl!Given)
    <3>1. all \in [1..Len(all) -> Hitl!Given]
      <4>1. all \in [1..Len(all) -> P]
        BY <1>5
      <4> QED BY <1>4, <1>6, <4>1
    <3> QED BY <1>4, <1>6, <3>1 DEF Surjection
  <2>2. IsFiniteSet(1..Len(all))
    BY <1>6, FS_Interval
  <2> QED BY <2>1, <2>2, FS_Surjection
<1>9. ASSUME NEW s \in Seq(P), \A i \in 1..Len(s) : s[i] \in Hitl!Given
      PROVE  s \in Seq(Hitl!Given)
  BY <1>9
<1>10. \A i \in 1..Len(req.routers) : req.routers[i] \in Hitl!Given
  BY <1>3, <1>4, <1>5, <1>6
<1>11. \A i \in 1..Len(req.switches) : req.switches[i] \in Hitl!Given
  BY ZenonT(40), <1>3, <1>4, <1>5, <1>6
<1>12. \A i \in 1..Len(req.hosts) : req.hosts[i] \in Hitl!Given
  BY <1>4, <1>5
<1> QED
  BY <1>1, <1>2, <1>7, <1>8, <1>9, <1>10, <1>11, <1>12 DEF P

\* An id that is allocated is none there is.
LEMMA HitlNextId ==
  ASSUME HitlRequest, HitlIds
  PROVE  Hitl!NextId \in Nat \ {0} /\ Hitl!NextId \notin plan.ids
<1>1. CASE plan.ids = {}
  BY <1>1 DEF Hitl!NextId
<1>2. CASE plan.ids # {}
  <2>1. \E m \in plan.ids : \A y \in plan.ids : m >= y
    <3>1. plan.ids \subseteq Nat /\ IsFiniteSet(plan.ids)
      BY DEF HitlIds
    <3>2. PICK b \in Nat : \A y \in plan.ids : y <= b
      BY <3>1, FiniteIsBounded
    <3>3. PICK m \in plan.ids : \A y \in plan.ids : y <= m
      BY <1>2, <3>1, <3>2, GreatestBelow
    <3>4. \A y \in plan.ids : m >= y
      BY <3>1, <3>3
    <3> QED BY <3>4
  <2>2. Hitl!Max(plan.ids) \in plan.ids /\ \A y \in plan.ids : Hitl!Max(plan.ids) >= y
    BY <2>1 DEF Hitl!Max
  <2>3. Hitl!NextId = Hitl!Max(plan.ids) + 1
    BY <1>2 DEF Hitl!NextId
  <2>4. plan.ids \subseteq Nat
    BY DEF HitlIds
  <2> QED BY <2>2, <2>3, <2>4
<1> QED BY <1>1, <1>2

LEMMA HitlBegins ==
  ASSUME HitlRequest, plan = Hitl!Begun
  PROVE  HitlInv
<1>1. /\ plan.pc = "node" /\ plan.ids = Hitl!Given /\ plan.routers = req.routers
      /\ plan.switches = req.switches /\ plan.next = <<>> /\ plan.links = {}
      /\ plan.rj45s = {} /\ plan.made = <<>> /\ plan.stray = {}
  BY DEF Hitl!Begun
<1>2. HitlShape
  BY DEF HitlShape, Hitl!Begun
<1>3. Sole = {} /\ Pending = {}
  BY <1>1 DEF Sole, Pending
<1>4. /\ plan.made \in Seq(plan.ids \ Hitl!Given)
      /\ DOMAIN plan.made = {}
  BY <1>1
<1>5. plan.ids \ Sole = Hitl!Given
  BY <1>1, <1>3
<1>6. HitlIds
  BY <1>1, <1>3, <1>4, <1>5, HitlGiven DEF HitlIds
<1>7. HitlPorts
  BY <1>1 DEF HitlPorts
<1> QED BY <1>2, <1>6, <1>7 DEF HitlInv

LEMMA HitlSame ==
  ASSUME HitlRequest, HitlInv, req' = req, HitlShape',
         plan'.ids = plan.ids, plan'.routers = plan.routers, plan'.switches = plan.switches,
         plan'.next = plan.next, plan'.links = plan.links, plan'.rj45s = plan.rj45s,
         plan'.made = plan.made, plan'.stray = plan.stray,
         plan'.pc = "node" \/ (plan.pc # "node" /\ plan'.node = plan.node),
         plan'.pc = "rj45" => plan'.target \in {0} \cup (plan.ids \ Sole)
  PROVE  HitlInv'
<1>1. Hitl!Given' = Hitl!Given
  BY DEF Hitl!Given
<1>2. Pending' \subseteq Pending /\ Sole' \subseteq Sole
  BY DEF Pending, Sole
<1>3. plan.ids \ Sole \subseteq plan.ids \ Sole'
  BY <1>2
<1>4. plan.routers \in Seq(plan.ids \ Sole') /\ plan.switches \in Seq(plan.ids \ Sole')
  <2> DEFINE A == plan.ids \ Sole
             B == plan.ids \ Sole'
  <2>1. plan.routers \in Seq(A) /\ plan.switches \in Seq(A) /\ A \subseteq B
    BY <1>3 DEF HitlInv, HitlIds
  <2> HIDE DEF A, B
  <2>2. plan.routers \in Seq(B) /\ plan.switches \in Seq(B)
    BY <2>1
  <2> QED BY <2>2 DEF B
<1>5. HitlIds'
  BY <1>1, <1>2, <1>3, <1>4 DEF HitlInv, HitlIds
<1>6. HitlPorts'
  BY <1>1, <1>3 DEF HitlInv, HitlPorts
<1> QED BY <1>5, <1>6 DEF HitlInv

LEMMA HitlNextIface ==
  ASSUME HitlRequest, NEW p, NEW v,
         \A x \in DOMAIN p.next :
           p.next[x] \in Nat /\ (req.lists /\ x \in Hitl!Given => p.next[x] >= req.spent[x])
  PROVE  /\ Hitl!NextIface(p, v) \in Nat
         /\ v \in DOMAIN p.next => Hitl!NextIface(p, v) = p.next[v]
         /\ req.lists /\ v \in Hitl!Given => Hitl!NextIface(p, v) >= req.spent[v]
         /\ v \notin DOMAIN p.next /\ v \notin Hitl!Given => Hitl!NextIface(p, v) = 0
<1>1. \A x \in Hitl!Given : req.spent[x] \in Nat
  BY HitlGiven
<1>2. CASE v \in DOMAIN p.next
  BY <1>2 DEF Hitl!NextIface
<1>3. CASE v \notin DOMAIN p.next /\ req.lists /\ v \in Hitl!Given
  BY <1>1, <1>3 DEF Hitl!NextIface
<1>4. CASE v \notin DOMAIN p.next /\ ~(req.lists /\ v \in Hitl!Given)
  BY <1>4 DEF Hitl!NextIface
<1> QED BY <1>2, <1>3, <1>4

\* A link joins a node that has none to one whose interface has not been spent.
LEMMA HitlLinks ==
  ASSUME HitlRequest, HitlInv, req' = req, NEW a, NEW b, NEW j \in Nat, a # b,
         plan'.links \in {plan.links, plan.links \cup {Hitl!Ports(a, 0, b, j)}},
         plan.rj45s \subseteq plan'.rj45s,
         plan'.next = [v \in DOMAIN plan'.next |-> plan'.next[v]],
         DOMAIN plan'.next \subseteq plan'.ids \ Sole',
         DOMAIN plan.next \subseteq DOMAIN plan'.next,
         \A v \in DOMAIN plan'.next :
           /\ plan'.next[v] \in Nat
           /\ req.lists /\ v \in Hitl!Given => plan'.next[v] >= req.spent[v]
           /\ v \in DOMAIN plan.next => plan'.next[v] >= plan.next[v],
         a \notin Hitl!Given, a \notin DOMAIN plan.next, a \notin plan.rj45s,
         a \in plan'.rj45s \/ (a \in DOMAIN plan'.next /\ plan'.next[a] > 0),
         b \notin plan.rj45s, b \in DOMAIN plan'.next, j < plan'.next[b],
         b \in DOMAIN plan.next => j >= plan.next[b],
         req.lists /\ b \in Hitl!Given => j >= req.spent[b]
  PROVE  HitlPorts'
<1> DEFINE new == Hitl!Ports(a, 0, b, j)
<1>1. Hitl!Given' = Hitl!Given
  BY DEF Hitl!Given
<1>2. DOMAIN new = {a, b} /\ new[a] = 0 /\ new[b] = j
  BY DEF Hitl!Ports
<1> HIDE DEF new
<1>3. ASSUME NEW l \in plan.links, NEW v \in DOMAIN l
      PROVE  /\ l[v] \in Nat /\ v # a /\ (v = b => l[v] < j)
             /\ v \in plan'.rj45s \/ (v \in DOMAIN plan'.next /\ l[v] < plan'.next[v])
             /\ req.lists /\ v \in Hitl!Given => l[v] >= req.spent[v]
  <2>1. /\ l[v] \in Nat
        /\ v \in plan.rj45s \/ (v \in DOMAIN plan.next /\ l[v] < plan.next[v])
        /\ req.lists /\ v \in Hitl!Given => l[v] >= req.spent[v]
    BY DEF HitlInv, HitlPorts
  <2>2. CASE v \in plan.rj45s
    BY <2>1, <2>2
  <2>3. CASE v \in DOMAIN plan.next /\ l[v] < plan.next[v]
    <3>1. plan.next[v] \in Nat /\ plan'.next[v] \in Nat /\ plan'.next[v] >= plan.next[v]
          /\ v \in DOMAIN plan'.next
      BY <2>3 DEF HitlInv, HitlPorts
    <3>2. l[v] < plan'.next[v]
      BY <2>1, <2>3, <3>1
    <3>3. v = b => l[v] < j
      BY <2>1, <2>3, <3>1
    <3> QED BY <2>1, <2>3, <3>1, <3>2, <3>3
  <2> QED BY <2>1, <2>2, <2>3
<1>4. ASSUME NEW v \in DOMAIN new
      PROVE  /\ new[v] \in Nat
             /\ v \in plan'.rj45s \/ (v \in DOMAIN plan'.next /\ new[v] < plan'.next[v])
             /\ req.lists /\ v \in Hitl!Given => new[v] >= req.spent[v]
  <2>1. CASE v = a
    BY <1>2, <2>1
  <2>2. CASE v = b
    BY <1>2, <2>2
  <2> QED BY <1>2, <2>1, <2>2
<1>5. ASSUME NEW l \in plan.links, NEW v \in DOMAIN l \cap DOMAIN new
      PROVE  l[v] # new[v]
  <2>1. v = b /\ l[v] < j /\ l[v] \in Nat
    BY <1>2, <1>3
  <2> QED BY <1>2, <2>1
<1>6. plan'.links \subseteq plan.links \cup {new}
  BY DEF new
<1>7. \A l \in plan'.links : \A v \in DOMAIN l :
        /\ l[v] \in Nat
        /\ v \in plan'.rj45s \/ (v \in DOMAIN plan'.next /\ l[v] < plan'.next[v])
        /\ req.lists /\ v \in Hitl!Given => l[v] >= req.spent[v]
  BY <1>3, <1>4, <1>6
<1>8. \A l, m \in plan.links : \A v \in DOMAIN l \cap DOMAIN m : l[v] = m[v] => l = m
  BY DEF HitlInv, HitlPorts
<1>9. \A l, m \in plan'.links : \A v \in DOMAIN l \cap DOMAIN m : l[v] = m[v] => l = m
  BY <1>5, <1>6, <1>8
<1> QED
  BY <1>1, <1>7, <1>9 DEF HitlPorts

\* A sequence over a set is one over each larger set, and can be extended there.
LEMMA SequenceGrows ==
  ASSUME NEW A, NEW B, A \subseteq B, NEW s \in Seq(A)
  PROVE  s \in Seq(B) /\ \A x \in B : Append(s, x) \in Seq(B)
OBVIOUS

LEMMA AppendedApart ==
  ASSUME NEW A, NEW s \in Seq(A), NEW x, x \notin A,
         \A a, b \in DOMAIN s : s[a] = s[b] => a = b
  PROVE  /\ \A a, b \in DOMAIN Append(s, x) : Append(s, x)[a] = Append(s, x)[b] => a = b
         /\ \A a \in DOMAIN Append(s, x) :
              Append(s, x)[a] = x \/ (a \in DOMAIN s /\ Append(s, x)[a] = s[a])
<1>1. /\ Len(s) \in Nat /\ DOMAIN s = 1..Len(s) /\ \A a \in DOMAIN s : s[a] \in A
      /\ DOMAIN Append(s, x) = 1..(Len(s) + 1)
      /\ Append(s, x)[Len(s) + 1] = x
      /\ \A a \in DOMAIN s : Append(s, x)[a] = s[a]
  OBVIOUS
<1> QED
  BY <1>1

LEMMA HitlKeepsId ==
  ASSUME HitlRequest, HitlInv, Hitl!KeepsId
  PROVE  HitlInv'
<1> DEFINE v == Hitl!NextId
<1>1. v \in Nat \ {0} /\ v \notin plan.ids
  BY HitlNextId DEF HitlInv
<1>2. /\ plan.pc = "node" /\ req' = req
      /\ plan'.pc = "attach" /\ plan'.node = v /\ plan'.ids = plan.ids \cup {v}
      /\ plan'.routers = plan.routers /\ plan'.switches = plan.switches
      /\ plan'.next = plan.next /\ plan'.links = plan.links /\ plan'.rj45s = plan.rj45s
      /\ plan'.made = plan.made /\ plan'.stray = plan.stray
      /\ HitlShape'
  BY DEF HitlInv, HitlShape, Hitl!KeepsId
<1> HIDE DEF v
<1>3. Hitl!Given' = Hitl!Given
  BY <1>2 DEF Hitl!Given
<1>4. Pending = {} /\ Pending' = {v} /\ Sole = plan.rj45s /\ Sole' = plan.rj45s \cup {v}
  BY <1>2 DEF Pending, Sole
<1>5. /\ plan.ids \subseteq Nat \ {0} /\ IsFiniteSet(plan.ids) /\ Hitl!Given \subseteq plan.ids
      /\ Sole \subseteq plan.ids \ Hitl!Given
      /\ plan.routers \in Seq(plan.ids \ Sole) /\ plan.switches \in Seq(plan.ids \ Sole)
      /\ plan.made \in Seq(plan.ids \ Hitl!Given)
      /\ \A a, b \in DOMAIN plan.made : plan.made[a] = plan.made[b] => a = b
      /\ plan.stray \subseteq plan.ids \ Hitl!Given
  BY DEF HitlInv, HitlIds
<1>6. IsFiniteSet(plan'.ids)
  <2>1. IsFiniteSet(plan.ids \cup {v})
    BY <1>5, FS_AddElement
  <2> QED BY <1>2, <2>1
<1>7. /\ plan.ids \ Sole \subseteq plan'.ids \ Sole'
      /\ plan.ids \ Hitl!Given \subseteq plan'.ids \ Hitl!Given
  BY <1>1, <1>2, <1>4
<1>8. /\ plan'.routers \in Seq(plan'.ids \ Sole') /\ plan'.switches \in Seq(plan'.ids \ Sole')
      /\ plan'.made \in Seq(plan'.ids \ Hitl!Given)
  BY <1>2, <1>5, <1>7, SequenceGrows
<1>9. \A a \in DOMAIN plan.made : plan.made[a] \in plan.ids
  <2> DEFINE A == plan.ids \ Hitl!Given
  <2>1. plan.made \in Seq(A) /\ A \subseteq plan.ids
    BY <1>5
  <2> HIDE DEF A
  <2> QED BY <2>1
<1>10. HitlIds'
  BY <1>1, <1>2, <1>3, <1>4, <1>5, <1>6, <1>8, <1>9 DEF HitlIds
<1>11. HitlPorts'
  BY <1>2, <1>3, <1>7 DEF HitlInv, HitlPorts
<1> QED BY <1>2, <1>10, <1>11 DEF HitlInv

LEMMA HitlTakes ==
  ASSUME HitlRequest, HitlInv, req' = req, plan.pc = "attach",
         NEW nodes \in Seq(plan.ids \ Sole), Hitl!TakesOneOf(nodes)
  PROVE  HitlInv'
<1>1. \A v \in Hitl!Range(nodes) : v \in plan.ids \ Sole
  <2> DEFINE A == plan.ids \ Sole
  <2> HIDE DEF A
  <2>1. nodes \in Seq(A)
    BY DEF A
  <2>2. \A v \in Hitl!Range(nodes) : v \in A
    BY <2>1 DEF Hitl!Range
  <2> QED BY <2>2 DEF A
<1>2. CASE plan' = [plan EXCEPT !.tries = Tail(@)]
  BY <1>2, HitlSame DEF HitlInv, HitlShape
<1>3. CASE \E v \in Hitl!Range(nodes) : plan' = [plan EXCEPT !.pc = "rj45", !.target = v]
  <2>1. PICK v \in plan.ids \ Sole : plan' = [plan EXCEPT !.pc = "rj45", !.target = v]
    BY <1>1, <1>3
  <2> QED BY <2>1, HitlSame DEF HitlInv, HitlShape
<1> QED BY <1>2, <1>3 DEF Hitl!TakesOneOf

LEMMA HitlTakesNode ==
  ASSUME HitlRequest, HitlInv, Hitl!TakesRouter \/ Hitl!TakesSwitch
  PROVE  HitlInv'
<1>1. /\ plan.routers \in Seq(plan.ids \ Sole) /\ plan.switches \in Seq(plan.ids \ Sole)
      /\ req' = req /\ plan.pc = "attach"
      /\ Hitl!TakesOneOf(plan.routers) \/ Hitl!TakesOneOf(plan.switches)
  BY DEF HitlInv, HitlIds, Hitl!TakesRouter, Hitl!TakesSwitch, Hitl!Tries
<1> QED BY <1>1, HitlTakes

LEMMA HitlGivesUp ==
  ASSUME HitlRequest, HitlInv,
         \/ Hitl!MakingRouterFails \/ Hitl!MakingSwitchFails
         \/ Hitl!FallsBack \/ Hitl!AddingFails
  PROVE  HitlInv'
<1>1. CASE Hitl!MakingRouterFails \/ Hitl!MakingSwitchFails
  <2>1. /\ req' = req /\ plan.pc = "attach"
        /\ plan' = [Hitl!Noted(plan, FALSE) EXCEPT !.tries = Tail(@)]
    BY <1>1 DEF Hitl!MakingRouterFails, Hitl!MakingSwitchFails, Hitl!MakingFails, Hitl!Tries
  <2> QED BY <2>1, HitlSame DEF HitlInv, HitlShape, Hitl!Noted
<1>2. CASE Hitl!FallsBack
  <2>1. PICK t : /\ plan' = [plan EXCEPT !.pc = "rj45", !.target = t]
                 /\ t = IF req.hosts = <<>> THEN 0
                        ELSE req.hosts[((plan.k - 1) % Len(req.hosts)) + 1]
                 /\ req' = req /\ plan.pc = "attach"
    BY <1>2 DEF Hitl!FallsBack
  <2>2. t \in {0} \cup Hitl!Given
    <3>1. CASE req.hosts = <<>>
      BY <2>1, <3>1
    <3>2. CASE req.hosts # <<>>
      <4> DEFINE i == ((plan.k - 1) % Len(req.hosts)) + 1
      <4>1. req.hosts \in Seq(Hitl!Given) /\ Len(req.hosts) \in Nat \ {0}
        BY <3>2, HitlGiven
      <4>2. plan.k - 1 \in Nat
        BY DEF HitlInv, HitlShape
      <4>3. i \in 1..Len(req.hosts)
        BY <4>1, <4>2
      <4> HIDE DEF i
      <4>4. req.hosts[i] \in Hitl!Given
        BY <4>1, <4>3
      <4> QED BY <2>1, <3>2, <4>4 DEF i
    <3> QED BY <3>1, <3>2
  <2>3. Hitl!Given \subseteq plan.ids \ Sole
    BY DEF HitlInv, HitlIds
  <2>4. t \in {0} \cup (plan.ids \ Sole)
    BY <2>2, <2>3
  <2> QED BY <2>1, <2>4, HitlSame DEF HitlInv, HitlShape
<1>3. CASE Hitl!AddingFails
  <2>1. req' = req /\ plan' = Hitl!Goes(Hitl!Noted(plan, FALSE))
    BY <1>3 DEF Hitl!AddingFails
  <2>2. /\ plan'.pc = "node" /\ plan'.k = plan.k + 1
        /\ plan'.ids = plan.ids /\ plan'.routers = plan.routers /\ plan'.switches = plan.switches
        /\ plan'.next = plan.next /\ plan'.links = plan.links /\ plan'.rj45s = plan.rj45s
        /\ plan'.made = plan.made /\ plan'.stray = plan.stray
    BY <2>1 DEF HitlInv, HitlShape, Hitl!Noted, Hitl!Goes
  <2>3. HitlShape'
    <3>1. plan' = [pc |-> plan'.pc, k |-> plan'.k, tries |-> plan'.tries, node |-> plan'.node,
                   target |-> plan'.target, ids |-> plan'.ids, routers |-> plan'.routers,
                   switches |-> plan'.switches, next |-> plan'.next, links |-> plan'.links,
                   rj45s |-> plan'.rj45s, made |-> plan'.made, stray |-> plan'.stray, lost |-> plan'.lost]
      BY <2>1 DEF HitlInv, HitlShape, Hitl!Noted, Hitl!Goes
    <3>2. plan'.k \in Nat \ {0}
      BY <2>2 DEF HitlInv, HitlShape
    <3> QED BY <2>2, <3>1, <3>2 DEF HitlShape
  <2> QED BY <2>1, <2>2, <2>3, HitlSame
<1> QED BY <1>1, <1>2, <1>3

\* A node is made, with an id of its own, and is where the RJ45 node will be attached.
HitlMade(v) ==
  /\ v \in Nat \ {0} /\ v \notin plan.ids
  /\ plan.pc = "attach" /\ plan'.pc = "rj45" /\ plan'.target = v /\ plan'.node = plan.node
  /\ plan'.ids = plan.ids \cup {v} /\ plan'.made = Append(plan.made, v)
  /\ plan'.rj45s = plan.rj45s /\ plan'.stray = plan.stray
  /\ plan'.routers \in {plan.routers, Append(plan.routers, v)}
  /\ plan'.switches \in {plan.switches, Append(plan.switches, v)}
  /\ HitlShape'

LEMMA HitlMadeIds ==
  ASSUME HitlRequest, HitlInv, req' = req, NEW v, HitlMade(v)
  PROVE  HitlIds' /\ Sole' = Sole /\ v \notin Sole
<1>1. Hitl!Given' = Hitl!Given
  BY DEF Hitl!Given
<1>2. Pending' = Pending /\ Sole' = Sole
  BY DEF Pending, Sole, HitlMade
<1>3. /\ plan.ids \subseteq Nat \ {0} /\ IsFiniteSet(plan.ids) /\ Hitl!Given \subseteq plan.ids
      /\ Sole \subseteq plan.ids \ Hitl!Given /\ Pending \subseteq plan.ids
      /\ Pending \cap (plan.rj45s \cup plan.stray) = {}
      /\ plan.routers \in Seq(plan.ids \ Sole) /\ plan.switches \in Seq(plan.ids \ Sole)
      /\ plan.made \in Seq(plan.ids \ Hitl!Given)
      /\ \A a, b \in DOMAIN plan.made : plan.made[a] = plan.made[b] => a = b
      /\ \A a \in DOMAIN plan.made : plan.made[a] \notin Pending
      /\ plan.stray \subseteq plan.ids \ Hitl!Given
  BY DEF HitlInv, HitlIds, Sole
<1>4. v \in Nat \ {0} /\ v \notin plan.ids /\ plan'.ids = plan.ids \cup {v}
  BY DEF HitlMade
<1>5. IsFiniteSet(plan'.ids)
  <2>1. IsFiniteSet(plan.ids \cup {v})
    BY <1>3, FS_AddElement
  <2> QED BY <1>4, <2>1
<1>6. /\ plan.ids \ Sole \subseteq plan'.ids \ Sole /\ v \in plan'.ids \ Sole
      /\ plan.ids \ Hitl!Given \subseteq plan'.ids \ Hitl!Given /\ v \in plan'.ids \ Hitl!Given
  BY <1>3, <1>4
<1>7. /\ plan.routers \in Seq(plan'.ids \ Sole) /\ Append(plan.routers, v) \in Seq(plan'.ids \ Sole)
      /\ plan.switches \in Seq(plan'.ids \ Sole) /\ Append(plan.switches, v) \in Seq(plan'.ids \ Sole)
      /\ Append(plan.made, v) \in Seq(plan'.ids \ Hitl!Given)
  BY <1>3, <1>6, SequenceGrows
<1>8. /\ plan'.routers \in Seq(plan'.ids \ Sole') /\ plan'.switches \in Seq(plan'.ids \ Sole')
      /\ plan'.made \in Seq(plan'.ids \ Hitl!Given)
  BY <1>2, <1>7 DEF HitlMade
<1>9. /\ \A a, b \in DOMAIN plan'.made : plan'.made[a] = plan'.made[b] => a = b
      /\ \A a \in DOMAIN plan'.made : plan'.made[a] \notin Pending'
  <2>1. v \notin plan.ids \ Hitl!Given
    BY <1>4
  <2>2. /\ \A a, b \in DOMAIN Append(plan.made, v) :
             Append(plan.made, v)[a] = Append(plan.made, v)[b] => a = b
        /\ \A a \in DOMAIN Append(plan.made, v) :
             Append(plan.made, v)[a] = v
             \/ (a \in DOMAIN plan.made /\ Append(plan.made, v)[a] = plan.made[a])
    BY <1>3, <2>1, AppendedApart
  <2>3. plan'.made = Append(plan.made, v) /\ v \notin Pending
    BY <1>3, <1>4 DEF HitlMade
  <2> HIDE DEF HitlMade
  <2>4. \A a \in DOMAIN plan'.made :
          plan'.made[a] = v \/ (a \in DOMAIN plan.made /\ plan'.made[a] = plan.made[a])
    BY <2>2, <2>3, Zenon
  <2>5. \A a, b \in DOMAIN plan'.made : plan'.made[a] = plan'.made[b] => a = b
    BY <2>2, <2>3, Zenon
  <2> QED BY <1>2, <1>3, <2>3, <2>4, <2>5
<1>10. HitlIds'
  <2>1. plan'.target \in plan'.ids \ Sole'
    BY <1>2, <1>3, <1>4 DEF HitlMade
  <2>2. plan'.rj45s = plan.rj45s /\ plan'.stray = plan.stray
    BY DEF HitlMade
  <2> QED BY <1>1, <1>2, <1>3, <1>4, <1>5, <1>8, <1>9, <2>1, <2>2 DEF HitlIds
<1> QED BY <1>2, <1>3, <1>4, <1>10

LEMMA HitlMadeRecord ==
  ASSUME HitlShape, NEW v
  PROVE  Hitl!Made(v) =
           [pc |-> "rj45", k |-> plan.k, tries |-> plan.tries, node |-> plan.node, target |-> v,
            ids |-> plan.ids \cup {v}, routers |-> plan.routers, switches |-> plan.switches,
            next |-> plan.next, links |-> plan.links, rj45s |-> plan.rj45s,
            made |-> Append(plan.made, v), stray |-> plan.stray, lost |-> plan.lost]
<1> DEFINE q1 == [plan EXCEPT !.pc = "rj45"]
           q2 == [q1 EXCEPT !.target = v]
           q3 == [q2 EXCEPT !.ids = plan.ids \cup {v}]
<1>1. q1 = [pc |-> "rj45", k |-> plan.k, tries |-> plan.tries, node |-> plan.node,
            target |-> plan.target, ids |-> plan.ids, routers |-> plan.routers,
            switches |-> plan.switches, next |-> plan.next, links |-> plan.links,
            rj45s |-> plan.rj45s, made |-> plan.made, stray |-> plan.stray, lost |-> plan.lost]
  BY DEF HitlShape
<1> HIDE DEF q1
<1>2. q2 = [pc |-> "rj45", k |-> plan.k, tries |-> plan.tries, node |-> plan.node,
            target |-> v, ids |-> plan.ids, routers |-> plan.routers,
            switches |-> plan.switches, next |-> plan.next, links |-> plan.links,
            rj45s |-> plan.rj45s, made |-> plan.made, stray |-> plan.stray, lost |-> plan.lost]
  BY <1>1
<1> HIDE DEF q2
<1>3. q3 = [pc |-> "rj45", k |-> plan.k, tries |-> plan.tries, node |-> plan.node,
            target |-> v, ids |-> plan.ids \cup {v}, routers |-> plan.routers,
            switches |-> plan.switches, next |-> plan.next, links |-> plan.links,
            rj45s |-> plan.rj45s, made |-> plan.made, stray |-> plan.stray, lost |-> plan.lost]
  BY <1>2
<1> HIDE DEF q3
<1>4. Hitl!Made(v) = [q3 EXCEPT !.made = Append(plan.made, v)]
  BY DEF Hitl!Made, q1, q2, q3
<1> QED BY <1>3, <1>4

LEMMA HitlUplinked ==
  ASSUME HitlRequest, HitlInv, req' = req, NEW v, HitlMade(v),
         NEW p, p \in Hitl!WithUplink(Hitl!Made(v), v),
         plan'.next = p.next, plan'.links = p.links
  PROVE  HitlPorts'
<1> DEFINE q == Hitl!Made(v)
<1>1. /\ q.next = plan.next /\ q.links = plan.links
      /\ q = [pc |-> q.pc, k |-> q.k, tries |-> q.tries, node |-> q.node,
              target |-> q.target, ids |-> q.ids, routers |-> q.routers,
              switches |-> q.switches, next |-> q.next, links |-> q.links,
              rj45s |-> q.rj45s, made |-> q.made, stray |-> q.stray, lost |-> q.lost]
  <2>1. q = [pc |-> "rj45", k |-> plan.k, tries |-> plan.tries, node |-> plan.node, target |-> v,
             ids |-> plan.ids \cup {v}, routers |-> plan.routers, switches |-> plan.switches,
             next |-> plan.next, links |-> plan.links, rj45s |-> plan.rj45s,
             made |-> Append(plan.made, v), stray |-> plan.stray, lost |-> plan.lost]
    BY HitlMadeRecord DEF HitlInv
  <2> HIDE DEF q
  <2> QED BY <2>1
<1>2. /\ Hitl!Given' = Hitl!Given /\ Sole' = Sole /\ plan'.ids = plan.ids \cup {v}
      /\ v \notin Sole /\ v \notin Hitl!Given /\ v \notin plan.ids /\ plan'.rj45s = plan.rj45s
      /\ Hitl!Given \subseteq plan.ids
  <2>1. v \notin plan.ids /\ plan'.ids = plan.ids \cup {v} /\ plan'.rj45s = plan.rj45s
    BY DEF HitlMade
  <2>2. Hitl!Given' = Hitl!Given
    BY DEF Hitl!Given
  <2>3. Sole' = Sole /\ v \notin Sole
    BY HitlMadeIds
  <2> QED BY <2>1, <2>2, <2>3 DEF HitlInv, HitlIds
<1>3. /\ plan.next = [x \in DOMAIN plan.next |-> plan.next[x]]
      /\ DOMAIN plan.next \subseteq plan.ids \ Sole
      /\ \A x \in DOMAIN plan.next :
           /\ plan.next[x] \in Nat
           /\ req.lists /\ x \in Hitl!Given => plan.next[x] >= req.spent[x]
  BY DEF HitlInv, HitlPorts
<1> HIDE DEF q
<1>4. CASE plan.routers = <<>>
  <2>1. p = q
    BY <1>4 DEF Hitl!WithUplink, q
  <2>2. plan'.next = plan.next /\ plan'.links = plan.links
    BY <1>1, <2>1
  <2> QED BY <1>2, <1>3, <2>2 DEF HitlInv, HitlPorts
<1>5. CASE plan.routers # <<>>
  <2>1. PICK r \in Hitl!Range(plan.routers), ok \in Hitl!Answers :
          p = Hitl!Linked(Hitl!Spends(Hitl!Spends(q, r), v), v, Hitl!NextIface(q, v),
                          r, Hitl!NextIface(q, r), ok)
    BY <1>5 DEF Hitl!WithUplink, q
  <2> DEFINE i == Hitl!NextIface(q, v)
             j == Hitl!NextIface(q, r)
             mid == Hitl!Spends(q, r)
             n == Hitl!NextIface(mid, v)
  <2>2. r \in plan.ids \ Sole
    <3> DEFINE A == plan.ids \ Sole
    <3>1. plan.routers \in Seq(A)
      BY DEF HitlInv, HitlIds
    <3> HIDE DEF A
    <3>2. r \in A
      BY <3>1 DEF Hitl!Range
    <3> QED BY <3>2 DEF A
  <2>3. i = 0 /\ j \in Nat
        /\ (r \in DOMAIN plan.next => j = plan.next[r])
        /\ (req.lists /\ r \in Hitl!Given => j >= req.spent[r])
    <3>1. \A x \in DOMAIN q.next :
            q.next[x] \in Nat /\ (req.lists /\ x \in Hitl!Given => q.next[x] >= req.spent[x])
      BY <1>1, <1>3
    <3>2. v \notin DOMAIN q.next
      BY <1>1, <1>2, <1>3
    <3>3. i = 0
      BY <1>2, <3>1, <3>2, HitlNextIface
    <3>4. j \in Nat /\ (r \in DOMAIN q.next => j = q.next[r])
          /\ (req.lists /\ r \in Hitl!Given => j >= req.spent[r])
      BY <3>1, HitlNextIface
    <3> QED BY <1>1, <3>3, <3>4
  <2> HIDE DEF j
  <2>4. /\ mid.next = Hitl!With(plan.next, r, j + 1) /\ mid.links = plan.links
        /\ mid = [pc |-> mid.pc, k |-> mid.k, tries |-> mid.tries, node |-> mid.node,
                  target |-> mid.target, ids |-> mid.ids, routers |-> mid.routers,
                  switches |-> mid.switches, next |-> mid.next, links |-> mid.links,
                  rj45s |-> mid.rj45s, made |-> mid.made, stray |-> mid.stray, lost |-> mid.lost]
    BY <1>1 DEF Hitl!Spends, j
  <2>5. /\ DOMAIN mid.next = DOMAIN plan.next \cup {r} /\ mid.next[r] = j + 1
        /\ \A x \in DOMAIN plan.next : x # r => mid.next[x] = plan.next[x]
    BY <2>4 DEF Hitl!With
  <2> HIDE DEF mid
  <2>6. n \in Nat
    <3>0. \A x \in Hitl!Given : req.spent[x] \in Nat
      BY HitlGiven
    <3>1. \A x \in DOMAIN mid.next :
            mid.next[x] \in Nat /\ (req.lists /\ x \in Hitl!Given => mid.next[x] >= req.spent[x])
      BY <1>3, <2>3, <2>5, <3>0
    <3> QED BY <3>1, HitlNextIface
  <2> HIDE DEF n
  <2> DEFINE last == Hitl!Spends(mid, v)
  <2>7. /\ last.next = Hitl!With(mid.next, v, n + 1) /\ last.links = plan.links
        /\ last = [pc |-> last.pc, k |-> last.k, tries |-> last.tries, node |-> last.node,
                   target |-> last.target, ids |-> last.ids, routers |-> last.routers,
                   switches |-> last.switches, next |-> last.next, links |-> last.links,
                   rj45s |-> last.rj45s, made |-> last.made, stray |-> last.stray,
                   lost |-> last.lost]
    BY <2>4 DEF Hitl!Spends, n
  <2>7a. p = Hitl!Linked(last, v, i, r, j, ok)
    BY <2>1 DEF mid, j
  <2> HIDE DEF last, i
  <2>8. /\ p.next = last.next
        /\ p.links = plan.links \cup IF ok THEN {Hitl!Ports(v, i, r, j)} ELSE {}
    BY <2>7, <2>7a DEF Hitl!Linked, Hitl!Noted
  <2>9. /\ plan'.next = [x \in DOMAIN plan'.next |-> plan'.next[x]]
        /\ DOMAIN plan'.next = DOMAIN plan.next \cup {r, v}
        /\ plan'.next[v] = n + 1 /\ (r # v => plan'.next[r] = j + 1)
        /\ \A x \in DOMAIN plan.next : x \notin {r, v} => plan'.next[x] = plan.next[x]
    BY <2>5, <2>7, <2>8 DEF Hitl!With
  <2>10. r # v /\ v \notin DOMAIN plan.next
    BY <1>2, <1>3, <2>2
  <2>11. plan'.links \in {plan.links, plan.links \cup {Hitl!Ports(v, 0, r, j)}}
    BY <2>3, <2>8
  <2>12. \A x \in DOMAIN plan'.next :
           /\ plan'.next[x] \in Nat
           /\ req.lists /\ x \in Hitl!Given => plan'.next[x] >= req.spent[x]
           /\ x \in DOMAIN plan.next => plan'.next[x] >= plan.next[x]
    <3> TAKE x \in DOMAIN plan'.next
    <3>0. \A y \in Hitl!Given : req.spent[y] \in Nat
      BY HitlGiven
    <3>1. CASE x = v
      BY <1>2, <2>6, <2>9, <2>10, <3>1
    <3>2. CASE x = r
      BY <1>3, <2>3, <2>9, <2>10, <3>0, <3>2
    <3>3. CASE x \in DOMAIN plan.next /\ x \notin {r, v}
      BY <1>3, <2>9, <3>3
    <3> QED BY <2>9, <3>1, <3>2, <3>3
  <2>13. DOMAIN plan'.next \subseteq plan'.ids \ Sole'
    BY <1>2, <1>3, <2>2, <2>9
  <2>14. /\ v \notin plan.rj45s /\ r \notin plan.rj45s /\ v \in DOMAIN plan'.next
         /\ plan'.next[v] > 0 /\ r \in DOMAIN plan'.next /\ j < plan'.next[r]
         /\ (r \in DOMAIN plan.next => j >= plan.next[r])
    BY <1>2, <1>3, <2>2, <2>3, <2>6, <2>9, <2>10 DEF Sole
  <2> QED BY <1>2, <2>3, <2>9, <2>10, <2>11, <2>12, <2>13, <2>14, HitlLinks
<1> QED BY <1>4, <1>5

HitlRecord(p) ==
  p = [pc |-> p.pc, k |-> p.k, tries |-> p.tries, node |-> p.node, target |-> p.target,
       ids |-> p.ids, routers |-> p.routers, switches |-> p.switches, next |-> p.next,
       links |-> p.links, rj45s |-> p.rj45s, made |-> p.made, stray |-> p.stray,
       lost |-> p.lost]

\* All that neither a spent interface nor a link changes.
HitlRest(p, q) ==
  /\ p.pc = q.pc /\ p.k = q.k /\ p.node = q.node /\ p.target = q.target
  /\ p.ids = q.ids /\ p.routers = q.routers /\ p.switches = q.switches
  /\ p.rj45s = q.rj45s /\ p.made = q.made /\ p.stray = q.stray

LEMMA HitlSpends ==
  ASSUME NEW p, HitlRecord(p), NEW v
  PROVE  LET q == Hitl!Spends(p, v) IN
         /\ HitlRecord(q) /\ HitlRest(q, p) /\ q.links = p.links
         /\ q.next = Hitl!With(p.next, v, Hitl!NextIface(p, v) + 1)
<1> DEFINE q == Hitl!Spends(p, v)
           n == Hitl!With(p.next, v, Hitl!NextIface(p, v) + 1)
<1>1. q = [p EXCEPT !.next = n]
  BY DEF Hitl!Spends
<1> HIDE DEF q, n
<1>2. HitlRecord(q) /\ HitlRest(q, p) /\ q.links = p.links /\ q.next = n
  BY <1>1 DEF HitlRecord, HitlRest
<1> QED BY <1>2 DEF q, n

LEMMA HitlLinked ==
  ASSUME NEW p, HitlRecord(p), NEW a, NEW i, NEW b, NEW j, NEW ok
  PROVE  LET q == Hitl!Linked(p, a, i, b, j, ok) IN
         /\ HitlRecord(q) /\ HitlRest(q, p) /\ q.next = p.next
         /\ q.links = p.links \cup IF ok THEN {Hitl!Ports(a, i, b, j)} ELSE {}
<1> DEFINE q == Hitl!Linked(p, a, i, b, j, ok)
           w == Hitl!Noted(p, ok)
           new == IF ok THEN {Hitl!Ports(a, i, b, j)} ELSE {}
<1>1. HitlRecord(w) /\ HitlRest(w, p) /\ w.next = p.next /\ w.links = p.links
  BY DEF Hitl!Noted, HitlRecord, HitlRest
<1>2. q = [w EXCEPT !.links = p.links \cup new]
  <2>1. q = [w EXCEPT !.links = w.links \cup new]
    BY DEF Hitl!Linked
  <2> QED BY <1>1, <2>1
<1> HIDE DEF q, w, new
<1>3. HitlRecord(q) /\ HitlRest(q, p) /\ q.next = p.next /\ q.links = p.links \cup new
  BY <1>1, <1>2 DEF HitlRecord, HitlRest
<1> QED BY <1>3 DEF q, new

LEMMA HitlMakes ==
  ASSUME HitlRequest, HitlInv, Hitl!MakesRouter \/ Hitl!MakesSwitch
  PROVE  HitlInv'
<1> DEFINE v == Hitl!NextId
           q == Hitl!Made(v)
<1>1. v \in Nat \ {0} /\ v \notin plan.ids
  BY HitlNextId DEF HitlInv
<1>2. /\ req' = req /\ plan.pc = "attach"
      /\ \E p \in Hitl!WithUplink(q, v) :
           plan' \in {[p EXCEPT !.routers = Append(@, v)], [p EXCEPT !.switches = Append(@, v)]}
  BY DEF Hitl!MakesRouter, Hitl!MakesSwitch, Hitl!Tries
<1>3. PICK p \in Hitl!WithUplink(q, v) :
        plan' \in {[p EXCEPT !.routers = Append(@, v)], [p EXCEPT !.switches = Append(@, v)]}
  BY <1>2
<1> HIDE DEF v
<1>4. /\ HitlRecord(q) /\ q.pc = "rj45" /\ q.k = plan.k /\ q.node = plan.node /\ q.target = v
      /\ q.ids = plan.ids \cup {v} /\ q.routers = plan.routers /\ q.switches = plan.switches
      /\ q.rj45s = plan.rj45s /\ q.made = Append(plan.made, v) /\ q.stray = plan.stray
  <2>1. q = [pc |-> "rj45", k |-> plan.k, tries |-> plan.tries, node |-> plan.node, target |-> v,
             ids |-> plan.ids \cup {v}, routers |-> plan.routers, switches |-> plan.switches,
             next |-> plan.next, links |-> plan.links, rj45s |-> plan.rj45s,
             made |-> Append(plan.made, v), stray |-> plan.stray, lost |-> plan.lost]
    BY HitlMadeRecord DEF HitlInv
  <2> HIDE DEF q
  <2> QED BY <2>1 DEF HitlRecord
<1>5. HitlRecord(p) /\ HitlRest(p, q)
  <2> HIDE DEF q
  <2>1. CASE plan.routers = <<>>
    BY <1>3, <1>4, <2>1 DEF Hitl!WithUplink, HitlRest
  <2>2. CASE plan.routers # <<>>
    <3>1. PICK r, ok :
            p = Hitl!Linked(Hitl!Spends(Hitl!Spends(q, r), v), v, Hitl!NextIface(q, v),
                            r, Hitl!NextIface(q, r), ok)
      BY <1>3, <2>2 DEF Hitl!WithUplink
    <3> DEFINE mid == Hitl!Spends(q, r)
               last == Hitl!Spends(mid, v)
    <3>2. HitlRecord(mid) /\ HitlRest(mid, q)
      BY <1>4, HitlSpends
    <3>3. HitlRecord(last) /\ HitlRest(last, mid)
      <4> HIDE DEF mid
      <4> QED BY <3>2, HitlSpends
    <3>4. HitlRecord(p) /\ HitlRest(p, last)
      <4>1. p = Hitl!Linked(last, v, Hitl!NextIface(q, v), r, Hitl!NextIface(q, r), ok)
        BY <3>1
      <4> HIDE DEF last
      <4> QED BY <3>3, <4>1, HitlLinked
    <3> HIDE DEF mid, last
    <3> QED BY <3>2, <3>3, <3>4 DEF HitlRest
  <2> QED BY <2>1, <2>2
<1> HIDE DEF q
<1>6. /\ plan'.pc = "rj45" /\ plan'.target = v /\ plan'.node = plan.node /\ plan'.k = plan.k
      /\ plan'.ids = plan.ids \cup {v} /\ plan'.made = Append(plan.made, v)
      /\ plan'.rj45s = plan.rj45s /\ plan'.stray = plan.stray
      /\ plan'.routers \in {plan.routers, Append(plan.routers, v)}
      /\ plan'.switches \in {plan.switches, Append(plan.switches, v)}
      /\ plan'.next = p.next /\ plan'.links = p.links
      /\ plan' = [pc |-> plan'.pc, k |-> plan'.k, tries |-> plan'.tries, node |-> plan'.node,
              target |-> plan'.target, ids |-> plan'.ids, routers |-> plan'.routers,
              switches |-> plan'.switches, next |-> plan'.next, links |-> plan'.links,
              rj45s |-> plan'.rj45s, made |-> plan'.made, stray |-> plan'.stray, lost |-> plan'.lost]
  <2>1. CASE plan' = [p EXCEPT !.routers = Append(@, v)]
    BY <1>4, <1>5, <2>1 DEF HitlRecord, HitlRest
  <2>2. CASE plan' = [p EXCEPT !.switches = Append(@, v)]
    BY <1>4, <1>5, <2>2 DEF HitlRecord, HitlRest
  <2> QED BY <1>3, <2>1, <2>2
<1>7. HitlShape'
  BY <1>6 DEF HitlInv, HitlShape
<1>8. HitlMade(v)
  BY <1>1, <1>2, <1>6, <1>7 DEF HitlMade
<1>9. HitlIds'
  BY <1>2, <1>8, HitlMadeIds
<1>10. HitlPorts'
  <2>1. p \in Hitl!WithUplink(Hitl!Made(v), v)
    BY <1>3 DEF q
  <2> QED BY <1>2, <1>6, <1>8, <2>1, HitlUplinked
<1> QED BY <1>7, <1>9, <1>10 DEF HitlInv

\* A step that adds the RJ45 node: its one link is to what it is attached to.
LEMMA HitlAdds ==
  ASSUME HitlRequest, HitlInv, Hitl!AddsAlone \/ Hitl!AddsRj45
  PROVE  HitlInv'
<1> DEFINE u == plan.node
           v == plan.target
<1>1. /\ req' = req /\ plan.pc = "rj45" /\ Pending = {u} /\ Sole = plan.rj45s \cup {u}
      /\ v \in {0} \cup (plan.ids \ Sole) /\ Hitl!Given' = Hitl!Given
  BY DEF HitlInv, HitlIds, Hitl!AddsAlone, Hitl!AddsRj45, Pending, Sole, Hitl!Given
<1>2. /\ Sole \subseteq plan.ids \ Hitl!Given
      /\ u \notin plan.rj45s \cup plan.stray
      /\ plan.routers \in Seq(plan.ids \ Sole) /\ plan.switches \in Seq(plan.ids \ Sole)
      /\ plan.made \in Seq(plan.ids \ Hitl!Given)
      /\ \A a, b \in DOMAIN plan.made : plan.made[a] = plan.made[b] => a = b
      /\ \A a \in DOMAIN plan.made : plan.made[a] # u
      /\ plan.stray \subseteq plan.ids \ Hitl!Given
      /\ plan.ids \subseteq Nat \ {0} /\ IsFiniteSet(plan.ids) /\ Hitl!Given \subseteq plan.ids
  BY <1>1 DEF HitlInv, HitlIds
<1>3. CASE Hitl!AddsAlone
  <2>1. /\ plan'.pc = "node" /\ plan'.k = plan.k + 1 /\ plan'.ids = plan.ids
        /\ plan'.rj45s = plan.rj45s \cup {u} /\ plan'.stray = plan.stray \cup {u}
        /\ plan'.routers = plan.routers /\ plan'.switches = plan.switches
        /\ plan'.next = plan.next /\ plan'.links = plan.links /\ plan'.made = plan.made
        /\ plan' = [pc |-> plan'.pc, k |-> plan'.k, tries |-> plan'.tries, node |-> plan'.node,
              target |-> plan'.target, ids |-> plan'.ids, routers |-> plan'.routers,
              switches |-> plan'.switches, next |-> plan'.next, links |-> plan'.links,
              rj45s |-> plan'.rj45s, made |-> plan'.made, stray |-> plan'.stray, lost |-> plan'.lost]
    BY <1>3 DEF HitlInv, HitlShape, Hitl!AddsAlone, Hitl!Goes
  <2>2. HitlShape'
    BY <2>1 DEF HitlInv, HitlShape
  <2>3. Pending' = {} /\ Sole' = Sole
    BY <1>1, <2>1 DEF Pending, Sole
  <2>4. HitlIds'
    BY <1>1, <1>2, <2>1, <2>3 DEF HitlIds
  <2>5. HitlPorts'
    BY <1>1, <2>1, <2>3 DEF HitlInv, HitlPorts
  <2> QED BY <2>2, <2>4, <2>5 DEF HitlInv
<1>4. CASE Hitl!AddsRj45
  <2> DEFINE p == [plan EXCEPT !.rj45s = @ \cup {u}, !.made = Append(@, u)]
             j == Hitl!NextIface(p, v)
             q == Hitl!Spends(p, v)
  <2>1. PICK ok \in Hitl!Answers :
          plan' = Hitl!Goes(Hitl!Linked(Hitl!Spends(p, v), u, 0, v, j, ok))
    BY <1>4 DEF Hitl!AddsRj45
  <2>2. /\ HitlRecord(p) /\ p.pc = plan.pc /\ p.k = plan.k /\ p.ids = plan.ids
        /\ p.routers = plan.routers /\ p.switches = plan.switches
        /\ p.next = plan.next /\ p.links = plan.links
        /\ p.rj45s = plan.rj45s \cup {u} /\ p.made = Append(plan.made, u)
        /\ p.stray = plan.stray
    <3> DEFINE p1 == [plan EXCEPT !.rj45s = @ \cup {u}]
    <3>1. HitlRecord(plan)
      BY DEF HitlInv, HitlShape, HitlRecord
    <3>2. /\ HitlRecord(p1) /\ p1.pc = plan.pc /\ p1.k = plan.k /\ p1.ids = plan.ids
          /\ p1.routers = plan.routers /\ p1.switches = plan.switches
          /\ p1.next = plan.next /\ p1.links = plan.links /\ p1.made = plan.made
          /\ p1.rj45s = plan.rj45s \cup {u} /\ p1.stray = plan.stray
      BY <3>1 DEF HitlRecord
    <3>3. p = [p1 EXCEPT !.made = Append(plan.made, u)]
      OBVIOUS
    <3> HIDE DEF p, p1
    <3> QED BY <3>2, <3>3 DEF HitlRecord
  <2> HIDE DEF p
  <2>3. /\ HitlRecord(q) /\ HitlRest(q, p) /\ q.links = p.links
        /\ q.next = Hitl!With(p.next, v, j + 1)
    BY <2>2, HitlSpends
  <2>4. plan' = Hitl!Goes(Hitl!Linked(q, u, 0, v, j, ok))
    BY <2>1
  <2> HIDE DEF q, j
  <2> DEFINE w == Hitl!Linked(q, u, 0, v, j, ok)
  <2>5. /\ HitlRecord(w) /\ HitlRest(w, q) /\ w.next = q.next
        /\ w.links = q.links \cup IF ok THEN {Hitl!Ports(u, 0, v, j)} ELSE {}
    BY <2>3, HitlLinked
  <2>5a. plan' = Hitl!Goes(w)
    BY <2>4
  <2> HIDE DEF w
  <2>5b. /\ plan'.pc = "node" /\ plan'.k = w.k + 1 /\ HitlRecord(plan') /\ plan'.ids = w.ids
         /\ plan'.rj45s = w.rj45s /\ plan'.stray = w.stray /\ plan'.routers = w.routers
         /\ plan'.switches = w.switches /\ plan'.next = w.next /\ plan'.links = w.links
         /\ plan'.made = w.made
    BY <2>5, <2>5a DEF Hitl!Goes, HitlRecord
  <2>6. /\ plan'.pc = "node" /\ plan'.k = plan.k + 1 /\ plan'.ids = plan.ids
        /\ plan'.rj45s = plan.rj45s \cup {u} /\ plan'.stray = plan.stray
        /\ plan'.routers = plan.routers /\ plan'.switches = plan.switches
        /\ plan'.next = Hitl!With(plan.next, v, j + 1)
        /\ plan'.links = plan.links \cup IF ok THEN {Hitl!Ports(u, 0, v, j)} ELSE {}
        /\ plan'.made = Append(plan.made, u) /\ HitlRecord(plan')
    BY <2>2, <2>3, <2>5, <2>5b DEF HitlRest
  <2>7. HitlShape'
    BY <2>6 DEF HitlInv, HitlShape, HitlRecord
  <2>8. Pending' = {} /\ Sole' = Sole
    BY <1>1, <2>6 DEF Pending, Sole
  <2>9. /\ \A a, b \in DOMAIN plan'.made : plan'.made[a] = plan'.made[b] => a = b
        /\ plan'.made \in Seq(plan.ids \ Hitl!Given)
    <3> DEFINE A == (plan.ids \ Hitl!Given) \ {u}
               B == plan.ids \ Hitl!Given
    <3>1. plan.made \in Seq(A)
      <4>1. plan.made \in Seq(B) /\ A = B \ {u} /\ \A a \in DOMAIN plan.made : plan.made[a] # u
        BY <1>2
      <4> HIDE DEF A, B
      <4>2. \A a \in 1..Len(plan.made) : plan.made[a] \in A
        BY <4>1
      <4> QED BY <4>1, <4>2
    <3>2. u \notin A /\ u \in B /\ A \subseteq B
      BY <1>1, <1>2
    <3>3. Append(plan.made, u) \in Seq(B)
      <4> HIDE DEF A, B
      <4> QED BY <3>1, <3>2, SequenceGrows
    <3>4. \A a, b \in DOMAIN Append(plan.made, u) :
            Append(plan.made, u)[a] = Append(plan.made, u)[b] => a = b
      <4> HIDE DEF A, B
      <4> QED BY <1>2, <3>1, <3>2, AppendedApart
    <3>5. plan'.made = Append(plan.made, u)
      BY <2>6
    <3> QED BY <3>3, <3>4, <3>5, Zenon
  <2>10. HitlIds'
    BY <1>1, <1>2, <2>6, <2>8, <2>9 DEF HitlIds
  <2>11. v \in plan.ids \ Sole /\ u # v
    BY <1>1, <1>4 DEF Hitl!AddsRj45
  <2>12. /\ DOMAIN plan.next \subseteq plan.ids \ Sole
         /\ \A x \in DOMAIN plan.next :
           /\ plan.next[x] \in Nat
           /\ req.lists /\ x \in Hitl!Given => plan.next[x] >= req.spent[x]
    BY DEF HitlInv, HitlPorts
  <2>13. /\ j \in Nat /\ (v \in DOMAIN plan.next => j = plan.next[v])
         /\ (req.lists /\ v \in Hitl!Given => j >= req.spent[v])
    <3>1. \A x \in DOMAIN p.next :
            p.next[x] \in Nat /\ (req.lists /\ x \in Hitl!Given => p.next[x] >= req.spent[x])
      BY <2>2, <2>12
    <3> USE DEF j
    <3>2. /\ j \in Nat /\ (v \in DOMAIN p.next => j = p.next[v])
          /\ (req.lists /\ v \in Hitl!Given => j >= req.spent[v])
      BY <3>1, HitlNextIface DEF j
    <3> QED BY <2>2, <3>2
  <2>14. /\ plan'.next = [x \in DOMAIN plan'.next |-> plan'.next[x]]
         /\ DOMAIN plan'.next = DOMAIN plan.next \cup {v}
         /\ plan'.next[v] = j + 1
         /\ \A x \in DOMAIN plan.next : x # v => plan'.next[x] = plan.next[x]
    BY <2>6 DEF Hitl!With
  <2>15. \A x \in DOMAIN plan'.next :
           /\ plan'.next[x] \in Nat
           /\ req.lists /\ x \in Hitl!Given => plan'.next[x] >= req.spent[x]
           /\ x \in DOMAIN plan.next => plan'.next[x] >= plan.next[x]
    <3> TAKE x \in DOMAIN plan'.next
    <3>0. \A y \in Hitl!Given : req.spent[y] \in Nat
      BY HitlGiven
    <3>1. CASE x = v
      BY <2>12, <2>13, <2>14, <3>0, <3>1
    <3>2. CASE x # v
      BY <2>12, <2>14, <3>2
    <3> QED BY <3>1, <3>2
  <2>16. DOMAIN plan'.next \subseteq plan'.ids \ Sole'
    BY <2>6, <2>8, <2>11, <2>12, <2>14
  <2>17. plan'.links \in {plan.links, plan.links \cup {Hitl!Ports(u, 0, v, j)}}
    BY <2>6
  <2>18. /\ u \notin Hitl!Given /\ u \notin DOMAIN plan.next /\ u \notin plan.rj45s
         /\ u \in plan'.rj45s /\ plan.rj45s \subseteq plan'.rj45s
         /\ v \notin plan.rj45s /\ v \in DOMAIN plan'.next /\ j < plan'.next[v]
         /\ (v \in DOMAIN plan.next => j >= plan.next[v])
         /\ DOMAIN plan.next \subseteq DOMAIN plan'.next
    BY <1>1, <1>2, <2>6, <2>11, <2>12, <2>13, <2>14
  <2> HIDE DEF u, v
  <2>19. HitlPorts'
    BY <1>1, <2>11, <2>13, <2>14, <2>15, <2>16, <2>17, <2>18, HitlLinks
  <2> QED BY <2>7, <2>10, <2>19 DEF HitlInv
<1> QED BY <1>3, <1>4

LEMMA HitlStep ==
  ASSUME HitlRequest, HitlInv, Hitl!Next
  PROVE  HitlRequest' /\ HitlInv'
<1>1. req' = req
  BY DEF Hitl!Next, Hitl!KeepsId, Hitl!TakesRouter, Hitl!TakesSwitch, Hitl!MakesRouter,
         Hitl!MakesSwitch, Hitl!MakingRouterFails, Hitl!MakingSwitchFails, Hitl!MakingFails,
         Hitl!Tries, Hitl!FallsBack, Hitl!AddingFails, Hitl!AddsAlone, Hitl!AddsRj45
<1>2. HitlRequest'
  BY <1>1 DEF HitlRequest, Hitl!Given, Hitl!AttemptOrder
<1> QED
  BY <1>2, HitlKeepsId, HitlTakesNode, HitlGivesUp, HitlMakes, HitlAdds DEF Hitl!Next

LEMMA HitlWaits ==
  ASSUME HitlRequest, HitlInv, UNCHANGED <<req, plan>>
  PROVE  HitlRequest' /\ HitlInv'
BY DEF HitlRequest, Hitl!Given, Hitl!AttemptOrder, HitlInv, HitlShape, HitlIds, HitlPorts,
       Sole, Pending

LEMMA HitlPromises ==
  ASSUME HitlRequest, HitlInv
  PROVE  Hitl!InterfacesDistinct
<1>1. \A l, m \in plan.links : \A v \in DOMAIN l \cap DOMAIN m : l[v] = m[v] => l = m
  BY DEF HitlInv, HitlPorts
<1>2. req.lists => \A l \in plan.links : \A v \in DOMAIN l \cap Hitl!Given : l[v] >= req.spent[v]
  BY DEF HitlInv, HitlPorts
<1>3. Hitl!IsInjective(plan.made)
  BY DEF HitlInv, HitlIds, Hitl!IsInjective
<1>4. (Hitl!Range(plan.made) \cup plan.stray) \cap Hitl!Given = {}
  <2> DEFINE A == plan.ids \ Hitl!Given
  <2>1. plan.made \in Seq(A) /\ plan.stray \subseteq A
    BY DEF HitlInv, HitlIds
  <2>2. \A v \in Hitl!Range(plan.made) : v \in A
    <3> HIDE DEF A
    <3> QED BY <2>1 DEF Hitl!Range
  <2> QED BY <2>1, <2>2
<1> QED
  BY <1>1, <1>2, <1>3, <1>4 DEF Hitl!InterfacesDistinct

\* For every request: no interface is used twice, none that the session had is used again
\* where the session lists its nodes, and what is made takes new ids (attach_hitl_rj45_nodes).
THEOREM HitlCorrect == HitlRequest /\ Hitl!Spec => []Hitl!InterfacesDistinct
<1>1. HitlRequest /\ Hitl!Init => HitlInv
  BY HitlBegins DEF Hitl!Init
<1>2. HitlRequest /\ HitlInv /\ [Hitl!Next]_Hitl!vars => HitlRequest' /\ HitlInv'
  BY HitlStep, HitlWaits DEF Hitl!vars
<1> QED
  BY <1>1, <1>2, HitlPromises, PTL DEF Hitl!Spec

===============================================================================
