---------------------------- MODULE StarTopology ----------------------------
(***************************************************************************)
(* Topologies without routers (builders/topology.py): a star of all hosts  *)
(* around a switch, and hosts spread over access switches that an          *)
(* aggregation switch joins.                                               *)
(*                                                                         *)
(* req is the kind, the roles of the hosts in order, the slots that are to *)
(* be docker nodes, the number of access switches asked for, how many      *)
(* calls that add a link fail at most (losses), and whether the session    *)
(* can look nodes up (lookup).                                             *)
(***************************************************************************)
EXTENDS Wiring, Naturals, Sequences, Functions, FiniteSets

VARIABLES req, plan

vars == <<req, plan>>

Hosts == Len(req.roles)
AtMost(a, b) == IF a <= b THEN a ELSE b
AtLeast(a, b) == IF a >= b THEN a ELSE b

\* One access switch for ten hosts, as many as asked for at most.
Access == AtLeast(1, AtMost(req.access, AtLeast(1, Hosts \div 10)))
Center == 1

\* links maps each pair of nodes to their interfaces; spent counts those of a switch; lost
\* counts the links that were asked for and not made.
Begun == [pc |-> "start", links |-> {}, spent |-> <<>>, lost |-> 0, k |-> 1, slot |-> 0,
          docker |-> <<>>, reported |-> {}]

Init == plan = Begun

Starts(kind) == plan.pc = "start" /\ req.kind = kind /\ UNCHANGED req

StartsStar == Starts("star") /\ plan' = [plan EXCEPT !.pc = "hosts", !.spent = [s \in {Center} |-> 0]]

\* Each access switch keeps its interface 0 for the aggregation switch.  A link that is not
\* made is neither asked for again nor minded.
StartsAccess ==
  /\ Starts("access")
  /\ \E failed \in SUBSET (1..Access) :
       /\ Cardinality(failed) <= req.losses
       /\ plan' = [plan EXCEPT !.pc = "hosts", !.lost = Cardinality(failed),
            !.links = {Ports(s + 1, 0, Center, s - 1) : s \in (1..Access) \ failed},
            !.spent = [s \in 2..(Access + 1) |-> 1]]

\* Hosts follow the switches and go to them in turn.
Switches == DOMAIN plan.spent
NodeOf(k) == Cardinality(Switches \cup {Center}) + k
SwitchOf(k) == IF req.kind = "star" THEN Center ELSE ((k - 1) % Access) + 2

\* safe_add_link answers whether the link was made; the builders do not look.
Answers == IF plan.lost < req.losses THEN BOOLEAN ELSE {TRUE}

\* A plain host takes a slot and is a docker node if the slot is asked for; only hosts
\* that are plain and no docker node are given services, traffic and the rest: linked or
\* not.
AddsHost(kind) ==
  /\ plan.pc = "hosts" /\ plan.k <= Hosts /\ req.kind = kind
  /\ LET v == NodeOf(plan.k)
         s == SwitchOf(plan.k)
         plain == req.roles[plan.k] = "host"
         slot == plan.slot + IF plain THEN 1 ELSE 0
         docker == plain /\ slot \in req.slots IN
       \E ok \in Answers :
         plan' = [plan EXCEPT !.links = IF ok THEN @ \cup {Ports(v, 0, s, plan.spent[s])} ELSE @,
                              !.lost = IF ok THEN @ ELSE @ + 1,
                              !.spent[s] = @ + 1, !.k = @ + 1, !.slot = slot,
                              !.docker = IF docker THEN With(@, slot, v) ELSE @,
                              !.reported = IF plain /\ ~docker THEN @ \cup {v} ELSE @]
  /\ UNCHANGED req

AddsStarHost == AddsHost("star")
AddsAccessHost == req.lookup /\ AddsHost("access")

\* The switch of a host is looked up in the session first.
MissesSwitch ==
  /\ plan.pc = "hosts" /\ plan.k <= Hosts /\ req.kind = "access" /\ ~req.lookup
  /\ plan' = [plan EXCEPT !.pc = "raised"]
  /\ UNCHANGED req

\* The star alone minds that a slot was not taken.
Missing == req.slots \ DOMAIN plan.docker
EndsHosts ==
  /\ plan.pc = "hosts" /\ plan.k > Hosts
  /\ plan' = [plan EXCEPT !.pc = IF req.kind = "star" /\ Missing # {} THEN "raised" ELSE "done"]
  /\ UNCHANGED req

Next ==
  \/ StartsStar \/ StartsAccess \/ AddsStarHost \/ AddsAccessHost \/ MissesSwitch \/ EndsHosts

Spec == Init /\ [][Next]_vars

-----------------------------------------------------------------------------
Plain == {k \in 1..Hosts : req.roles[k] = "host"}

\* No interface is used by two links, whichever calls fail, and every node but the center
\* has a link of its own toward it, but for as many as calls failed.
InterfacesDistinct ==
  /\ \A l, m \in plan.links : \A v \in DOMAIN l \cap DOMAIN m : l[v] = m[v] => l = m
  /\ plan.pc = "done" =>
       Cardinality(plan.links) + plan.lost =
         Cardinality((Switches \ {Center}) \cup {NodeOf(k) : k \in 1..Hosts})

\* Each slot asked for is one docker node, of a host that is plain and is not reported as
\* a host, and all other plain hosts are, whichever links were not made; the star stops when
\* it has fewer such hosts than slots, and only then, access switches where they cannot be
\* looked up.
DockersPlaced ==
  /\ plan.pc = "raised" =>
       IF req.kind = "star" THEN \E s \in req.slots : s > Cardinality(Plain) ELSE ~req.lookup
  /\ plan.pc = "done" =>
       LET nodes == {NodeOf(k) : k \in Plain} IN
         /\ DOMAIN plan.docker = req.slots \cap 1..Cardinality(Plain)
         /\ req.kind = "star" => Missing = {}
         /\ Range(plan.docker) \subseteq nodes
         /\ \A s, t \in DOMAIN plan.docker : plan.docker[s] = plan.docker[t] => s = t
         /\ plan.reported = nodes \ Range(plan.docker)

=============================================================================
