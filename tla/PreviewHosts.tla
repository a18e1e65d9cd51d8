----------------------------- MODULE PreviewHosts -----------------------------
(***************************************************************************)
(* What the preview gives to the hosts (planning/full_preview.py):         *)
(* addresses, services, vulnerabilities and flows of traffic.              *)
(*                                                                         *)
(* req: the number of routers and hosts, the groups behind switches in the *)
(* order they were planned ([router, hosts, only], see RouterHostPlan;     *)
(* only: a router was to have one switch), the subnet each switch was      *)
(* given, the addresses a LAN has, how many services and vulnerabilities   *)
(* the plan names, and the flows of each item of traffic ([abs, factor],   *)
(* factors in quarters).                                                   *)
(*                                                                         *)
(* An address is <<subnet, number>>; subnet 0 is the block of the prefix   *)
(* that single addresses come from, with the blocks after it; the prefix   *)
(* is also one of the pools the subnets of switches are taken from.        *)
(***************************************************************************)
EXTENDS Naturals, Sequences, SequencesExt

VARIABLES req, plan

vars == <<req, plan>>

None == <<>>
Routers == 1..req.routers
Hosts == (req.routers + 1)..(req.routers + req.hosts)
Nodes == Routers \cup Hosts

Groups == Seq([router : Nat, hosts : Seq(Nat), only : BOOLEAN])
Requests ==
  {r \in [routers : Nat, hosts : Nat, groups : Groups, nets : Seq(Nat), lan : Nat \ {0, 1},
          services : Nat, vulns : Nat, flows : Seq([abs : Nat, factor : Nat])] :
     Len(r.nets) = Len(r.groups)}

AtLeast(a, b) == IF a >= b THEN a ELSE b
AtMost(a, b) == IF a <= b THEN a ELSE b

\* given is what the allocator of single addresses has handed out; used is assigned_ips.
Begun ==
  [pc |-> "routers", given |-> 0, used |-> {}, ip |-> [v \in Nodes |-> None], next |-> 1,
   services |-> <<>>, vulns |-> <<>>, flows |-> <<>>]

Init == req \in Requests /\ plan = Begun

At(pc) == plan.pc = pc /\ UNCHANGED req

-----------------------------------------------------------------------------
(***************************************************************************)
(* Addresses                                                               *)
(***************************************************************************)
\* _alloc_ip_from_pool: the next single address that is not in use.  s is a record with
\* the fields given, used and ip; v is who gets it.
FromPool(s, v) ==
  LET free == {k \in (s.given + 1)..(s.given + Cardinality(s.used) + 1) : <<0, k>> \notin s.used}
      k == CHOOSE k \in free : \A l \in free : k <= l
  IN  [s EXCEPT !.given = k, !.used = @ \cup {<<0, k>>}, !.ip[v] = <<0, k>>]

\* v gives its address up for another one.
Moves(s, v, a) == [s EXCEPT !.used = (@ \ {s.ip[v]}) \cup {a}, !.ip[v] = a]

\* The same for an address from the plan, which is free afterwards if v had it before.
Keeps(s, v, a) == [s EXCEPT !.used = (@ \cup {a}) \ {s.ip[v]}, !.ip[v] = a]

NumbersRouters ==
  /\ At("routers")
  /\ plan' = [FoldLeft(FromPool, plan, [r \in Routers |-> r]) EXCEPT !.pc = "switches"]

Group == req.groups[plan.next]
Net == req.nets[plan.next]

Reserved_None(hosts) == 0

\* The first two addresses of a LAN are the router's and the switch's; they are not kept
\* for them when the hosts would not fit otherwise.
Reserved(hosts) ==
  IF req.lan >= hosts + 2 THEN 2 ELSE IF req.lan >= hosts + 1 THEN 1 ELSE 0

\* The plan of a router's only switch gives its i-th host an address behind the first two,
\* as long as there is one.
Prefilled(i) == Group.only /\ i + 2 <= req.lan

\* The other hosts of a switch get addresses of its LAN too, those that do not fit single
\* ones; then the router takes the first address.  A switch without hosts is left out.
AddressesLan ==
  /\ At("switches") /\ plan.next <= Len(req.groups)
  /\ LET n == Len(Group.hosts)
         order == SortSeq(Group.hosts, <)
         address(s, i) ==
           LET number == Reserved(n) + i
           IN  IF Prefilled(i) THEN Keeps(s, order[i], <<Net, i + 2>>)
               ELSE IF number <= req.lan THEN Moves(s, order[i], <<Net, number>>)
               ELSE FromPool(s, order[i])
         addressed == FoldLeft(address, plan, [i \in 1..n |-> i])
     IN  plan' = IF n = 0 THEN [plan EXCEPT !.next = @ + 1]
                 ELSE [Moves(addressed, Group.router, <<Net, 1>>) EXCEPT !.next = @ + 1]

\* Hosts that no switch has get single addresses.
AddressesRest ==
  /\ At("switches") /\ plan.next > Len(req.groups)
  /\ LET rest == SetToSortSeq({h \in Hosts : plan.ip[h] = None}, <)
     IN  plan' = [FoldLeft(FromPool, plan, rest) EXCEPT !.pc = "services"]

-----------------------------------------------------------------------------
(***************************************************************************)
(* Services, vulnerabilities, flows                                        *)
(***************************************************************************)
\* n things dealt to the hosts in a shuffled order, around and around.
Dealt(n, order) ==
  [h \in Hosts |-> Cardinality({i \in 1..n : order[((i - 1) % req.hosts) + 1] = h})]
Orders == {order \in [1..req.hosts -> Hosts] : Range(order) = Hosts}

AssignsServices ==
  /\ At("services")
  /\ \E order \in Orders :
       plan' = [plan EXCEPT !.pc = "vulns",
                            !.services = IF req.hosts = 0 THEN <<>> ELSE Dealt(req.services, order)]

AssignsVulnerabilities ==
  /\ At("vulns")
  /\ \E order \in Orders :
       plan' = [plan EXCEPT !.pc = "flows", !.next = 1,
                            !.vulns = IF req.hosts = 0 THEN <<>> ELSE Dealt(req.vulns, order)]

\* Flows of an item: its count, or its factor of the hosts rounded to even; one at least
\* and two a host at most.
Rounded(quarters) ==
  LET whole == quarters \div 4
      part == quarters % 4
  IN  IF part > 2 \/ (part = 2 /\ whole % 2 = 1) THEN whole + 1 ELSE whole
FlowsOf(item) ==
  LET wanted == IF item.abs > 0 THEN item.abs
                ELSE IF item.factor > 0 THEN AtLeast(1, Rounded(item.factor * req.hosts))
                ELSE 0
  IN  AtMost(wanted, 2 * req.hosts)

\* Any two hosts, three retries or not: also twice the same.
MaterializesFlow ==
  /\ At("flows") /\ req.hosts > 0 /\ plan.next <= Len(req.flows)
  /\ LET made == Len(SelectSeq(plan.flows, LAMBDA f : f.item = plan.next))
     IN  \/ /\ made < FlowsOf(req.flows[plan.next])
            /\ \E src, dst \in Hosts :
                 plan' = [plan EXCEPT
                           !.flows = Append(@, [item |-> plan.next, src |-> src, dst |-> dst])]
         \/ /\ made = FlowsOf(req.flows[plan.next])
            /\ plan' = [plan EXCEPT !.next = @ + 1]

EndsPreview ==
  /\ At("flows") /\ (req.hosts = 0 \/ plan.next > Len(req.flows))
  /\ plan' = [plan EXCEPT !.pc = "done"]

Next ==
  \/ NumbersRouters \/ AddressesLan \/ AddressesRest
  \/ AssignsServices \/ AssignsVulnerabilities \/ MaterializesFlow \/ EndsPreview

Spec == Init /\ [][Next]_vars

-----------------------------------------------------------------------------
Addressed == plan.pc \notin {"routers", "switches"}
LanOf(i) == Range(req.groups[i].hosts)
Crowded(i) == Cardinality(LanOf(i)) > req.lan - 2
Behind(h) == {i \in DOMAIN req.groups : h \in LanOf(i)}

\* Every node has an address, and no other node has the same: unless the subnet that
\* single addresses come from was also handed out as a LAN, or a LAN has more hosts than
\* leave room for its router and its switch.  Even then two hosts share an address of their
\* LANs only behind one switch that has too many and is the only one of its router, a host
\* that got a single address after the LANs were numbered shares it with no node, and a LAN
\* that is neither leaves its second address to its switch.
AddressesDistinct ==
  Addressed =>
    /\ \A v \in Nodes : plan.ip[v] # None
    /\ (\A i \in DOMAIN req.groups : req.nets[i] # 0 /\ ~Crowded(i)) =>
         \A v, w \in Nodes : plan.ip[v] = plan.ip[w] => v = w
    /\ \A h \in Hosts, v \in Nodes :
         plan.ip[h] = plan.ip[v] /\ h # v =>
           \/ \E i \in Behind(h) : Crowded(i) \/ req.nets[i] = 0
           \/ v \in Hosts /\ \E i \in Behind(v) : Crowded(i) \/ req.nets[i] = 0
    /\ \A g, h \in Hosts :
         plan.ip[g] = plan.ip[h] /\ g # h =>
           \/ plan.ip[g][1] = 0
           \/ \E i \in Behind(g) \cap Behind(h) : Crowded(i) /\ req.groups[i].only
    /\ \A i \in DOMAIN req.groups, v \in Nodes :
         LanOf(i) # {} /\ ~Crowded(i) /\ req.nets[i] # 0 => plan.ip[v] # <<req.nets[i], 2>>

=============================================================================
