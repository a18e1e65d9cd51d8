------------------------------ MODULE HitlAttach ------------------------------
(***************************************************************************)
(* Hardware in the loop (utils/hitl.py): each interface of the host gets   *)
(* an RJ45 node, which is attached to a router or a switch of the topology *)
(* or to one made for it, in an order of preference.                       *)
(*                                                                         *)
(* req: the routers, switches and hosts of the session, how many           *)
(* interfaces each has by the links of the builder, whether the client's   *)
(* nodes list them (those of the vendored client do not, those of the      *)
(* tests do), where each interface is to be attached, and how many calls   *)
(* that add a node or a link fail at most.                                 *)
(***************************************************************************)
EXTENDS Wiring, Naturals, Sequences, FiniteSets, FiniteSetsExt

VARIABLES req, plan

vars == <<req, plan>>

Given == Range(req.routers \o req.switches \o req.hosts)

\* In plan: node is the id kept for the RJ45 node, target what it is attached to (0: nothing
\* yet), next the cache of interface numbers, made and stray the nodes of the summary and
\* those it leaves out; a link maps its two nodes to the interface each uses.
Begun ==
  [pc |-> "node", k |-> 1, tries |-> <<>>, node |-> 0, target |-> 0, ids |-> Given,
   routers |-> req.routers, switches |-> req.switches, next |-> <<>>,
   links |-> {}, rj45s |-> {}, made |-> <<>>, stray |-> {}, lost |-> 0]

Init == plan = Begun

\* _attachment_attempt_order
AttemptOrder ==
  [existing_router |-> <<"existing_router", "existing_switch", "new_switch", "new_router">>,
   existing_switch |-> <<"existing_switch", "existing_router", "new_switch", "new_router">>,
   new_router |-> <<"new_router", "existing_router", "existing_switch", "new_switch">>,
   new_switch |-> <<"new_switch", "existing_switch", "existing_router", "new_router">>]

Answers == IF plan.lost < req.losses THEN BOOLEAN ELSE {TRUE}
Noted(p, ok) == [p EXCEPT !.lost = @ + IF ok THEN 0 ELSE 1]

\* _allocate_node_id
NextId == IF plan.ids = {} THEN 1000 ELSE Max(plan.ids) + 1

\* _next_iface_id: what the node lists is looked at once, then the cache counts on.
NextIface(p, v) ==
  IF v \in DOMAIN p.next THEN p.next[v]
  ELSE IF req.lists /\ v \in Given THEN req.spent[v] ELSE 0

Spends(p, v) == [p EXCEPT !.next = With(@, v, NextIface(p, v) + 1)]

\* The interfaces are spent whether the link is made or not.
Linked(p, a, i, b, j, ok) ==
  [Noted(p, ok) EXCEPT !.links = @ \cup IF ok THEN {Ports(a, i, b, j)} ELSE {}]

-----------------------------------------------------------------------------
\* The id of the RJ45 node is taken before anything is made for it.
KeepsId ==
  /\ plan.pc = "node" /\ plan.k <= Len(req.attach)
  /\ plan' = [plan EXCEPT !.pc = "attach", !.node = NextId, !.ids = @ \cup {NextId},
                          !.target = 0, !.tries = AttemptOrder[req.attach[plan.k]]]
  /\ UNCHANGED req

Tries(attempt) ==
  plan.pc = "attach" /\ plan.tries # <<>> /\ Head(plan.tries) = attempt /\ UNCHANGED req

\* One of those there are is drawn by a hash of names.
TakesOneOf(nodes) ==
  IF nodes = <<>> THEN plan' = [plan EXCEPT !.tries = Tail(@)]
  ELSE \E v \in Range(nodes) : plan' = [plan EXCEPT !.pc = "rj45", !.target = v]

TakesRouter == Tries("existing_router") /\ TakesOneOf(plan.routers)
TakesSwitch == Tries("existing_switch") /\ TakesOneOf(plan.switches)

\* A node that cannot be added gives its id back, and the next attempt is made.
MakingFails(attempt) ==
  /\ Tries(attempt)
  /\ FALSE \in Answers
  /\ plan' = [Noted(plan, FALSE) EXCEPT !.tries = Tail(@)]

\* A node made for the attachment is linked to one of the routers, if there are any; a
\* router that is linked has an interface spent then, and so has it itself.
Made(v) == [plan EXCEPT !.pc = "rj45", !.target = v, !.ids = @ \cup {v}, !.made = Append(@, v)]

WithUplink(p, v) ==
  IF plan.routers = <<>> THEN {p}
  ELSE {Linked(Spends(Spends(p, r), v), v, NextIface(p, v), r, NextIface(p, r), ok) :
          r \in Range(plan.routers), ok \in Answers}

MakesRouter ==
  /\ Tries("new_router")
  /\ \E p \in WithUplink(Made(NextId), NextId) :
       plan' = [p EXCEPT !.routers = Append(@, NextId)]

MakesSwitch ==
  /\ Tries("new_switch")
  /\ \E p \in WithUplink(Made(NextId), NextId) :
       plan' = [p EXCEPT !.switches = Append(@, NextId)]

MakingRouterFails == MakingFails("new_router")
MakingSwitchFails == MakingFails("new_switch")

\* Where nothing could be made and there is no router or switch, a host is taken in turn.
FallsBack ==
  /\ plan.pc = "attach" /\ plan.tries = <<>>
  /\ plan' = [plan EXCEPT !.pc = "rj45",
       !.target = IF req.hosts = <<>> THEN 0 ELSE req.hosts[((plan.k - 1) % Len(req.hosts)) + 1]]
  /\ UNCHANGED req

-----------------------------------------------------------------------------
Goes(p) == [p EXCEPT !.pc = "node", !.k = @ + 1]

AddingFails ==
  /\ plan.pc = "rj45" /\ FALSE \in Answers
  /\ plan' = Goes(Noted(plan, FALSE))
  /\ UNCHANGED req

\* An RJ45 node that has nothing to be attached to stays in the session unreported.
AddsAlone ==
  /\ plan.pc = "rj45" /\ plan.target = 0
  /\ plan' = Goes([plan EXCEPT !.rj45s = @ \cup {plan.node}, !.stray = @ \cup {plan.node}])
  /\ UNCHANGED req

AddsRj45 ==
  /\ plan.pc = "rj45" /\ plan.target # 0
  /\ LET v == plan.target
         p == [plan EXCEPT !.rj45s = @ \cup {plan.node}, !.made = Append(@, plan.node)] IN
       \E ok \in Answers :
         plan' = Goes(Linked(Spends(p, v), plan.node, 0, v, NextIface(p, v), ok))
  /\ UNCHANGED req

Next ==
  \/ KeepsId \/ TakesRouter \/ TakesSwitch \/ MakesRouter \/ MakesSwitch
  \/ MakingRouterFails \/ MakingSwitchFails \/ FallsBack
  \/ AddingFails \/ AddsAlone \/ AddsRj45

Spec == Init /\ [][Next]_vars

-----------------------------------------------------------------------------
Ended == plan.pc = "node" /\ plan.k > Len(req.attach)

\* What attachments link never shares an interface with another attachment, nor with the
\* builder's links if nodes list theirs; and no id is given to two nodes.
InterfacesDistinct ==
  /\ \A l, m \in plan.links : \A v \in DOMAIN l \cap DOMAIN m : l[v] = m[v] => l = m
  /\ req.lists => \A l \in plan.links : \A v \in DOMAIN l \cap Given : l[v] >= req.spent[v]
  /\ IsInjective(plan.made)
  /\ (Range(plan.made) \cup plan.stray) \cap Given = {}

Neighbours(v) == UNION {DOMAIN l : l \in {m \in plan.links : v \in DOMAIN m}}
Reached(v) ==
  LET grown(i, S) == S \cup UNION {Neighbours(s) : s \in S}
  IN  FoldSet(grown, {v}, 1..Cardinality(plan.links))

\* Where there are routers and no call fails, each RJ45 node reaches a node that was there
\* before, by one link of its own, over whatever was made for it or for others; one that is
\* not reported has been given up because the session holds nothing else.
Rj45sConnected ==
  Ended =>
    /\ req.routers # <<>> /\ plan.lost = 0 => \A v \in plan.rj45s : Reached(v) \cap Given # {}
    /\ plan.rj45s \ plan.stray \subseteq Range(plan.made)
    /\ plan.stray # {} => Given = {}
    /\ \A v \in plan.rj45s : Cardinality(Neighbours(v) \ {v}) <= 1

\* "Create RJ45 nodes bound to host interfaces and link them into the session": CORE makes
\* no interface of a node that there is already, and does not start a session whose links
\* ask for one.
Rj45sAccepted ==
  \A l \in plan.links : \A v \in DOMAIN l \cap Given : l[v] >= req.spent[v]

===============================================================================
