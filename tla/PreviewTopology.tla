--------------------------- MODULE PreviewTopology ---------------------------
(***************************************************************************)
(* A preview realized in CORE (builders/topology.py,                       *)
(* _try_build_segmented_topology_from_preview): the hosts of each switch   *)
(* of the preview are attached to it, hosts that are left to their router, *)
(* and the routers to each other, each link by a call that may fail.       *)
(*                                                                         *)
(* req is the preview: routers, hosts, the router of each host, the        *)
(* switches with their hosts in order, the router links, and how many      *)
(* calls fail at most.  A link gives each of its two nodes an interface.   *)
(* Subnets are numbered: a switch's LAN has its number, a host's own 0.    *)
(***************************************************************************)
EXTENDS Wiring, Naturals, Sequences, Functions, FiniteSets

VARIABLES req, plan

vars == <<req, plan>>

Nodes == req.routers \cup req.hosts \cup {d.switch : d \in Range(req.switches)}

Begun == [pc |-> "switch", k |-> 1, i |-> 1, links |-> {}, lost |-> 0,
          next |-> [v \in Nodes |-> 0], behind |-> <<>>, address |-> <<>>, left |-> {}]

Init == plan = Begun

(***************************************************************************)
(* The guarded call that adds a link                                       *)
(***************************************************************************)
Ends(link) == DOMAIN link.ports
Linked(a, b) == \E l \in plan.links : Ends(l) = {a, b}

\* Two nodes are linked at most once; any other call may fail.
Answers(a, b) ==
  IF Linked(a, b) THEN {FALSE} ELSE IF plan.lost < req.losses THEN BOOLEAN ELSE {TRUE}

Added(a, i, b, j, subnet, ok) ==
  [plan EXCEPT !.links = @ \cup IF ok THEN {[ports |-> Ports(a, i, b, j), subnet |-> subnet]} ELSE {},
               !.lost = @ + IF ok \/ Linked(a, b) THEN 0 ELSE 1]

-----------------------------------------------------------------------------
Detail == req.switches[plan.k]
Switching == plan.k <= Len(req.switches)

SkipsSwitch ==
  /\ plan.pc = "switch" /\ Switching
  /\ Detail.router \notin req.routers
  /\ plan' = [plan EXCEPT !.k = @ + 1]
  /\ UNCHANGED req

\* The router's interface is spent whether or not the link is made.
LinksSwitch ==
  /\ plan.pc = "switch" /\ Switching
  /\ Detail.router \in req.routers
  /\ LET r == Detail.router IN
       \E ok \in Answers(r, Detail.switch) :
         plan' = [Added(r, plan.next[r], Detail.switch, 0, 0, ok)
                    EXCEPT !.next[r] = @ + 1, !.pc = "host", !.i = 1]
  /\ UNCHANGED req

\* A host named twice by a switch counts once.
Before(i) == {Detail.hosts[j] : j \in 1..(i - 1)}
Skipped(i) ==
  LET h == Detail.hosts[i] IN h \in Before(i) \/ h \notin req.hosts \/ h \in DOMAIN plan.behind

SkipsHost ==
  /\ plan.pc = "host" /\ plan.i <= Len(Detail.hosts)
  /\ Skipped(plan.i)
  /\ plan' = [plan EXCEPT !.i = @ + 1]
  /\ UNCHANGED req

AttachesHost ==
  /\ plan.pc = "host" /\ plan.i <= Len(Detail.hosts)
  /\ ~Skipped(plan.i)
  /\ LET h == Detail.hosts[plan.i]
         place == Cardinality(Before(plan.i)) + 1 IN
       \E ok \in Answers(h, Detail.switch) :
            LET p == Added(h, plan.next[h], Detail.switch, place, Detail.switch, ok)
            IN  plan' = IF ok
                        THEN [p EXCEPT !.i = @ + 1, !.next[h] = @ + 1,
                                       !.behind = With(@, h, Detail.switch),
                                       !.address = With(@, h, Detail.switch)]
                        ELSE [p EXCEPT !.i = @ + 1]
  /\ UNCHANGED req

EndsSwitch ==
  /\ plan.pc = "host" /\ plan.i > Len(Detail.hosts)
  /\ plan' = [plan EXCEPT !.pc = "switch", !.k = @ + 1]
  /\ UNCHANGED req

-----------------------------------------------------------------------------
EndsSwitches ==
  /\ plan.pc = "switch" /\ ~Switching
  /\ plan' = [plan EXCEPT !.pc = "direct", !.k = 1, !.left = DOMAIN req.home]
  /\ UNCHANGED req

\* Hosts that no switch took, in any order of the mapping to routers.
Direct(h) == h \notin DOMAIN plan.behind /\ h \in req.hosts /\ req.home[h] \in req.routers

SkipsDirect ==
  /\ plan.pc = "direct"
  /\ \E h \in plan.left : ~Direct(h) /\ plan' = [plan EXCEPT !.left = @ \ {h}]
  /\ UNCHANGED req

AttachesDirect ==
  /\ plan.pc = "direct"
  /\ \E h \in plan.left :
       LET r == req.home[h] IN
       /\ Direct(h)
       /\ \E ok \in Answers(h, r) :
            plan' = [Added(h, plan.next[h], r, plan.next[r], 0, ok)
                       EXCEPT !.left = @ \ {h}, !.next[h] = @ + 1, !.next[r] = @ + 1,
                              !.address = With(@, h, 0)]
  /\ UNCHANGED req

LinksRouters ==
  /\ plan.pc = "direct" /\ plan.left = {} /\ plan.k <= Len(req.edges)
  /\ LET a == req.edges[plan.k][1]
         b == req.edges[plan.k][2] IN
       IF {a, b} \subseteq req.routers
       THEN \E ok \in Answers(a, b) :
              plan' = [Added(a, plan.next[a], b, plan.next[b], plan.k, ok)
                         EXCEPT !.k = @ + 1, !.next[a] = @ + 1, !.next[b] = @ + 1]
       ELSE plan' = [plan EXCEPT !.k = @ + 1]
  /\ UNCHANGED req

EndsLinks ==
  /\ plan.pc = "direct" /\ plan.left = {} /\ plan.k > Len(req.edges)
  /\ plan' = [plan EXCEPT !.pc = "done"]
  /\ UNCHANGED req

Next ==
  \/ SkipsSwitch \/ LinksSwitch \/ SkipsHost \/ AttachesHost \/ EndsSwitch
  \/ EndsSwitches \/ SkipsDirect \/ AttachesDirect \/ LinksRouters \/ EndsLinks

Spec == Init /\ [][Next]_vars

-----------------------------------------------------------------------------
LinksOf(v) == {l \in plan.links : v \in Ends(l)}

\* The switches that list a host, by their numbers, where the router is there to link them.
Wanted(h) ==
  {k \in DOMAIN req.switches :
     req.switches[k].router \in req.routers /\ h \in Range(req.switches[k].hosts)}

\* No interface of a node is used by two links, whichever calls failed.
InterfacesDistinct ==
  \A l, m \in plan.links : \A v \in Ends(l) \cap Ends(m) :
    l.ports[v] = m.ports[v] => l = m

\* A host has one link at most, and the address reported for it, which traffic and
\* segmentation use, is on that link.  In the end it is behind the first switch that
\* lists it, or linked to its own router if none does; a failed call leaves it to another
\* switch that lists it, then to its router.
HostsRealized ==
  \A h \in req.hosts :
    LET own == LinksOf(h)
        homed == h \in DOMAIN req.home /\ req.home[h] \in req.routers
        wanted == Wanted(h)
    IN  /\ Cardinality(own) <= 1
        /\ \A l \in own : plan.address[h] = l.subnet
        /\ plan.pc = "done" =>
             /\ plan.lost = 0 =>
                  \A k \in wanted :
                    (\A j \in wanted : k <= j) => \E l \in own : req.switches[k].switch \in Ends(l)
             /\ plan.lost = 0 /\ wanted = {} /\ homed => \E l \in own : req.home[h] \in Ends(l)
             /\ homed /\ plan.lost <= Cardinality(wanted) => own # {}

=============================================================================
