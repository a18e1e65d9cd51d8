---------------------------- MODULE TopologyBuild ----------------------------
(***************************************************************************)
(* A topology built without a preview (builders/topology.py,               *)
(* build_segmented_topology): routers linked to each other, hosts dealt to *)
(* them at random and linked directly, then moved behind the switches that *)
(* the grouping planner gives, or behind one LAN switch per router when it *)
(* gives none.                                                             *)
(*                                                                         *)
(* req is the number of routers, the roles of the hosts in order, the      *)
(* slots that are to be docker nodes, the links between routers to make    *)
(* before and after the hosts (see RouterMesh), whether the planner        *)
(* answers, whether the session looks nodes up, and how many of the calls  *)
(* that add a link fail at most.                                           *)
(***************************************************************************)
EXTENDS Wiring, Naturals, Sequences, Functions, FiniteSets

VARIABLES req, plan

vars == <<req, plan>>

Routers == 1..req.routers
Hosts == Len(req.roles)

\* Interface numbers of routers begin at 0, those of a host after its first link.
Begun ==
  [pc |-> "start", links |-> {}, pairs |-> {}, lost |-> 0,
   next |-> [r \in Routers |-> 0], deal |-> <<>>, home |-> <<>>, direct |-> {},
   slot |-> 0, docker |-> <<>>, switches |-> <<>>, lans |-> <<>>,
   k |-> 1, i |-> 0, left |-> {}, counter |-> req.routers + 1]

Init == plan = Begun

(***************************************************************************)
(* Links                                                                   *)
(***************************************************************************)
\* A link maps its two nodes to the interface each uses.
Ends(link) == DOMAIN link
Pair(a, b) == {a, b}

\* Two nodes that were ever linked are not linked again; any other call may fail.
Answers(a, b) ==
  IF Pair(a, b) \in plan.pairs THEN {FALSE}
  ELSE IF plan.lost < req.losses THEN BOOLEAN ELSE {TRUE}

Added(p, a, i, b, j, ok) ==
  [p EXCEPT !.links = @ \cup IF ok THEN {Ports(a, i, b, j)} ELSE {},
            !.pairs = @ \cup IF ok THEN {Pair(a, b)} ELSE {},
            !.lost = @ + IF ok \/ Pair(a, b) \in p.pairs THEN 0 ELSE 1]

Removed_Kept(p, a, b) == p

Removed(p, a, b) == [p EXCEPT !.links = {l \in @ : Ends(l) # Pair(a, b)}]

RouterLink_Unspent(a, b, ok) ==
  [Added(plan, a, plan.next[a], b, plan.next[b], ok) EXCEPT !.next[a] = @ + 1, !.k = @ + 1]

\* A link between routers spends an interface of each.
RouterLink(a, b, ok) ==
  [Added(plan, a, plan.next[a], b, plan.next[b], ok)
     EXCEPT !.next[a] = @ + 1, !.next[b] = @ + 1, !.k = @ + 1]

LinksPairOf(edges) ==
  /\ plan.k <= Len(edges)
  /\ LET a == edges[plan.k][1]
         b == edges[plan.k][2]
         seen == \E j \in 1..(plan.k - 1) : Range(edges[j]) = Pair(a, b)
     IN  IF seen
         THEN plan' = [plan EXCEPT !.k = @ + 1]
         ELSE \E ok \in Answers(a, b) : plan' = RouterLink(a, b, ok)
  /\ UNCHANGED req

-----------------------------------------------------------------------------
Begins ==
  /\ plan.pc = "start"
  /\ plan' = [plan EXCEPT !.pc = IF req.routers = 0 \/ Hosts = 0 THEN "star" ELSE "routers"]
  /\ UNCHANGED req

LinksPair == plan.pc = "routers" /\ LinksPairOf(req.edges)

\* Hosts in order go to routers in order, as many to each as _random_int_partition says:
\* every router gets one when there are enough.
DealsHosts ==
  /\ plan.pc = "routers" /\ plan.k > Len(req.edges)
  /\ \E deal \in [1..Hosts -> Routers] :
       /\ \A k, l \in 1..Hosts : k <= l => deal[k] <= deal[l]
       /\ Hosts >= req.routers => Range(deal) = Routers
       /\ plan' = [plan EXCEPT !.pc = "hosts", !.deal = deal, !.k = 1]
  /\ UNCHANGED req

\* Hosts that are plain take a slot each; the slots asked for become docker nodes.
AddsHost ==
  /\ plan.pc = "hosts" /\ plan.k <= Hosts
  /\ LET h == plan.counter
         r == plan.deal[plan.k]
         plain == req.roles[plan.k] = "host"
         slot == plan.slot + 1
         docker == plain /\ slot \in req.slots IN
       \E ok \in Answers(h, r) :
         plan' = [Added(plan, h, 0, r, plan.next[r], ok) EXCEPT
           !.next = With(With(@, r, @[r] + 1), h, 1),
           !.home = With(@, h, r), !.direct = @ \cup {h},
           !.slot = IF plain THEN slot ELSE @,
           !.docker = IF docker THEN With(@, slot, h) ELSE @,
           !.counter = @ + 1, !.k = @ + 1]
  /\ UNCHANGED req

EndsHosts_Silent ==
  /\ plan.pc = "hosts" /\ plan.k > Hosts
  /\ plan' = [plan EXCEPT !.k = 1, !.pc = IF req.grouped THEN "group" ELSE "lan"]
  /\ UNCHANGED req

\* A slot that no host took is an error.
EndsHosts ==
  /\ plan.pc = "hosts" /\ plan.k > Hosts
  /\ plan' = [plan EXCEPT !.k = 1, !.pc = IF req.slots \ DOMAIN plan.docker # {} THEN "raised"
                                          ELSE IF req.grouped THEN "group" ELSE "lan"]
  /\ UNCHANGED req

-----------------------------------------------------------------------------
HostsOf(r) == {h \in DOMAIN plan.home : plan.home[h] = r}

\* What the planner may give a router (see RouterHostPlan): its hosts in groups, of
\* which some may be empty, or no group for fewer than two.
GroupsRouter ==
  /\ plan.pc = "group" /\ plan.k <= req.routers
  /\ LET hosts == HostsOf(plan.k) IN
       \/ Cardinality(hosts) < 2 /\ plan' = [plan EXCEPT !.k = @ + 1]
       \/ \E n \in 1..2 : \E of \in [hosts -> 1..n] :
            plan' = [plan EXCEPT !.k = @ + 1, !.switches = @ \o
                       [g \in 1..n |-> [id |-> req.routers + Hosts + Len(plan.switches) + g,
                                        router |-> plan.k,
                                        hosts |-> {h \in hosts : of[h] = g}]]]
  /\ UNCHANGED req

EndsGroups ==
  /\ plan.pc = "group" /\ plan.k > req.routers
  /\ plan' = [plan EXCEPT !.pc = "switch", !.k = 1, !.i = 0]
  /\ UNCHANGED req

Switch == plan.switches[plan.k]

LinksSwitch ==
  /\ plan.pc = "switch" /\ plan.k <= Len(plan.switches) /\ plan.i = 0
  /\ LET r == Switch.router IN
       \E ok \in Answers(r, Switch.id) :
         plan' = [Added(plan, r, plan.next[r], Switch.id, 0, ok)
                    EXCEPT !.next[r] = @ + 1, !.i = 1, !.left = Switch.hosts]
  /\ UNCHANGED req

\* Hosts follow in any order.  A host's direct link goes; its next interface is on the
\* switch, and is spent also when the link fails.
RehomesHost ==
  /\ plan.pc = "switch" /\ plan.k <= Len(plan.switches)
  /\ \E h \in plan.left :
       LET p == IF h \in plan.direct THEN Removed(plan, h, Switch.router) ELSE plan
       IN  \E ok \in Answers(h, Switch.id) :
           plan' = [Added(p, h, plan.next[h], Switch.id, plan.i, ok)
                      EXCEPT !.next[h] = @ + 1, !.direct = @ \ {h}, !.i = @ + 1,
                             !.left = @ \ {h}]
  /\ UNCHANGED req

EndsSwitch ==
  /\ plan.pc = "switch" /\ plan.k <= Len(plan.switches)
  /\ plan.i > 0 /\ plan.left = {}
  /\ plan' = [plan EXCEPT !.k = @ + 1, !.i = 0]
  /\ UNCHANGED req

EndsSwitches ==
  /\ plan.pc = "switch" /\ plan.k > Len(plan.switches)
  /\ plan' = [plan EXCEPT !.pc = "lan", !.k = 1, !.counter = @ + Len(plan.switches)]
  /\ UNCHANGED req

-----------------------------------------------------------------------------
\* Hosts that are still linked to the router and to no switch of the planner's.
Remaining(r) ==
  {h \in HostsOf(r) :
    /\ \E l \in plan.links : Ends(l) = Pair(h, r)
    /\ \A s \in Range(plan.switches), l \in plan.links : Ends(l) # Pair(h, s.id)}

SkipsLan ==
  /\ plan.pc = "lan" /\ plan.k <= req.routers
  /\ Cardinality(Remaining(plan.k)) <= 1 \/ ~req.lookup
  /\ plan' = [plan EXCEPT !.k = @ + 1]
  /\ UNCHANGED req

\* Two or more get a LAN switch.
AggregatesLan ==
  /\ plan.pc = "lan" /\ plan.k <= req.routers
  /\ Cardinality(Remaining(plan.k)) > 1 /\ req.lookup
  /\ LET r == plan.k
         lan == [id |-> plan.counter, router |-> r, hosts |-> Remaining(r)] IN
       \E ok \in Answers(r, lan.id) :
         plan' = [Added(plan, r, plan.next[r], lan.id, 0, ok)
                    EXCEPT !.pc = "move", !.left = lan.hosts, !.next[r] = @ + 1, !.counter = @ + 1,
                           !.lans = Append(@, lan)]
  /\ UNCHANGED req

Lan == plan.lans[Len(plan.lans)]

\* A host takes the number of its next interface on the switch too.
MovesHost ==
  /\ plan.pc = "move"
  /\ \E h \in plan.left : \E ok \in Answers(h, Lan.id) :
       plan' = [Added(Removed(plan, h, Lan.router), h, plan.next[h], Lan.id, plan.next[h], ok)
                  EXCEPT !.next[h] = @ + 1, !.left = @ \ {h}]
  /\ UNCHANGED req

EndsLan ==
  /\ plan.pc = "move" /\ plan.left = {}
  /\ plan' = [plan EXCEPT !.pc = "lan", !.k = @ + 1]
  /\ UNCHANGED req

EndsLans ==
  /\ plan.pc = "lan" /\ plan.k > req.routers
  /\ plan' = [plan EXCEPT !.pc = "enrich", !.k = Len(req.edges) + 1]
  /\ UNCHANGED req

EnrichesPair == plan.pc = "enrich" /\ LinksPairOf(req.edges \o req.extra)

EndsBuild ==
  /\ plan.pc = "enrich" /\ plan.k > Len(req.edges \o req.extra)
  /\ plan' = [plan EXCEPT !.pc = "done"]
  /\ UNCHANGED req

Next ==
  \/ Begins \/ LinksPair \/ DealsHosts \/ AddsHost \/ EndsHosts
  \/ GroupsRouter \/ EndsGroups \/ LinksSwitch \/ RehomesHost \/ EndsSwitch \/ EndsSwitches
  \/ SkipsLan \/ AggregatesLan \/ MovesHost \/ EndsLan \/ EndsLans
  \/ EnrichesPair \/ EndsBuild

Spec == Init /\ [][Next]_vars
-----------------------------------------------------------------------------
LinksOf(v) == {l \in plan.links : v \in Ends(l)}
AllSwitches == plan.switches \o plan.lans

\* No interface of a router or a host is used by two links, nor one of a switch, except
\* of a LAN switch, where all hosts that were moved ask for the same number ("simplistic
\* alignment"): CORE would make none of these interfaces but the first.
InterfacesDistinct ==
  \A l, m \in plan.links : \A v \in Ends(l) \cap Ends(m) :
    l[v] = m[v] => l = m \/ \E s \in Range(plan.lans) : v = s.id /\ l[v] # 0

\* A host has one link at most.  In the end it has one, to its router or to a switch that
\* is linked to it; each call that failed costs at most one host its link, or one switch
\* that of all its hosts.
HostsAttached ==
  \A h \in DOMAIN plan.home :
    /\ Cardinality(LinksOf(h)) <= 1
    /\ plan.pc = "done" =>
         LET r == plan.home[h]
             at == {s \in Range(AllSwitches) : \E l \in plan.links : Ends(l) = Pair(h, s.id)}
             cut == {s \in Range(AllSwitches) : ~\E l \in plan.links : Ends(l) = Pair(r, s.id)}
         IN  /\ plan.lost = 0 => LinksOf(h) # {} /\ at \cap cut = {}
             /\ \A s \in at : s.router = r
             /\ (\E s \in Range(plan.switches) : h \in s.hosts) =>
                  at # {} \/ LinksOf(h) = {}
    /\ plan.pc = "done" =>
         Cardinality({g \in DOMAIN plan.home : LinksOf(g) = {}}) <= plan.lost

\* Each slot that was asked for is one docker node, of a host that is plain; the build
\* stops when there are fewer such hosts than slots.
DockersPlaced ==
  LET plain == {k \in 1..Hosts : req.roles[k] = "host"} IN
    /\ plan.pc = "raised" => \E s \in req.slots : s > Cardinality(plain)
    /\ plan.pc \in {"group", "switch", "lan", "move", "enrich", "done"} =>
         /\ DOMAIN plan.docker = req.slots
         /\ \A s, t \in req.slots : plan.docker[s] = plan.docker[t] => s = t
         /\ \A s \in req.slots : plan.docker[s] - req.routers \in plain

=============================================================================
