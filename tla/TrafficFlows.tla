----------------------------- MODULE TrafficFlows -----------------------------
(***************************************************************************)
(* The flows that traffic scripts are written for (utils/traffic.py): those *)
(* of the items with a count, from host to host around, then one of each    *)
(* host that the density selects.                                           *)
(*                                                                         *)
(* req: the number of hosts, the density (in quarters), and the items with  *)
(* their kind, count and factor.  A flow is the number of its item, its two *)
(* hosts, its protocol and the position of its port among those of the      *)
(* receiver: ports begin at one number per protocol and host.               *)
(***************************************************************************)
EXTENDS Naturals, Sequences, FiniteSetsExt

VARIABLES req, plan

vars == <<req, plan>>

Kinds == {"TCP", "UDP", "CUSTOM", "Random"}
Requests == [hosts : Nat, density : 0..4,
             items : Seq([kind : Kinds, abs : Nat, factor : Nat])]

Hosts == 1..req.hosts
Items == DOMAIN req.items
Counted == {i \in Items : req.items[i].abs > 0}
Plain == Items \ Counted

\* What Random stands for: a kind with a weight; a Random item weighs for both protocols.
Weighted ==
  LET named == {req.items[i].kind : i \in {j \in Items : req.items[j].factor > 0}}
      split == (named \ {"Random"}) \cup IF "Random" \in named THEN {"TCP", "UDP"} ELSE {}
  IN  IF split = {} THEN {"TCP"} ELSE split
KindsOf(i) == IF req.items[i].kind = "Random" THEN Weighted ELSE {req.items[i].kind}
Protocol(kind) == IF kind = "UDP" THEN "UDP" ELSE "TCP"

Begun == [pc |-> "start", item |-> 1, made |-> 0, left |-> {}, flows |-> <<>>]

Init == req \in Requests /\ plan = Begun

At(pc) == plan.pc = pc /\ UNCHANGED req

NextPort_Same(dst, protocol) == 1

\* Receivers of a host get ports of a protocol in turn.
NextPort(dst, protocol) ==
  1 + Cardinality({k \in DOMAIN plan.flows :
                     plan.flows[k].dst = dst /\ plan.flows[k].proto = protocol})
WithFlow(i, src, dst, protocol) ==
  Append(plan.flows, [item |-> i, src |-> src, dst |-> dst, proto |-> protocol,
                      port |-> NextPort(dst, protocol)])

WritesNothing ==
  /\ At("start")
  /\ req.hosts = 0 \/ (req.density = 0 /\ Counted = {})
  /\ plan' = [plan EXCEPT !.pc = "done"]

Starts ==
  /\ At("start")
  /\ req.hosts > 0 /\ (req.density > 0 \/ Counted # {})
  /\ plan' = [plan EXCEPT !.pc = "counted"]

\* Flow number made of an item goes from that host, around, to the next one.
CountsFlow ==
  /\ At("counted") /\ plan.item \in Items
  /\ LET i == plan.item
         host(n) == (n % req.hosts) + 1
     IN  IF plan.made = req.items[i].abs
         THEN plan' = [plan EXCEPT !.item = @ + 1, !.made = 0]
         ELSE \E kind \in KindsOf(i) :
                plan' = [plan EXCEPT
                          !.made = @ + 1,
                          !.flows = WithFlow(i, host(plan.made), host(plan.made + 1),
                                             Protocol(kind))]

\* All hosts for density one, else their share rounded to even, one at least.
Selected ==
  LET quarters == req.hosts * req.density
      whole == quarters \div 4
      part == quarters % 4
      rounded == IF part > 2 \/ (part = 2 /\ whole % 2 = 1) THEN whole + 1 ELSE whole
  IN  IF rounded = 0 THEN 1 ELSE rounded

SelectsHosts ==
  /\ At("counted") /\ plan.item \notin Items
  /\ \E hosts \in (IF req.density > 0 /\ Plain # {} THEN kSubset(Selected, Hosts) ELSE {{}}) :
       plan' = [plan EXCEPT !.pc = "selected", !.left = hosts]

\* A selected host sends one flow to any other.  The loop over the items only leaves the
\* last one behind.
LastPlain == CHOOSE i \in Plain : \A j \in Plain : j <= i
SendsFlow ==
  /\ At("selected")
  /\ \E src \in plan.left :
       \E dst \in (IF req.hosts = 1 THEN Hosts ELSE Hosts \ {src}), kind \in KindsOf(LastPlain) :
         plan' = [plan EXCEPT !.left = @ \ {src},
                              !.flows = WithFlow(LastPlain, src, dst, Protocol(kind))]

WritesSummary ==
  /\ At("selected") /\ plan.left = {}
  /\ plan' = [plan EXCEPT !.pc = "done"]

Next ==
  \/ WritesNothing \/ Starts \/ CountsFlow \/ SelectsHosts \/ SendsFlow \/ WritesSummary

Spec == Init /\ [][Next]_vars

-----------------------------------------------------------------------------
FlowsOf(i) == {k \in DOMAIN plan.flows : plan.flows[k].item = i}

\* An item with a count has exactly so many flows, whatever the density; of the others
\* only the last one has any, one of each selected host.  No flow is from a host to itself
\* if there is another, and no two receivers of a host listen on one port.
FlowsAsAsked ==
  /\ plan.pc = "done" =>
       \A i \in Items :
         Cardinality(FlowsOf(i)) =
           IF req.hosts = 0 THEN 0
           ELSE IF i \in Counted THEN req.items[i].abs
           ELSE IF i = LastPlain /\ req.density > 0 THEN Selected ELSE 0
  /\ \A k, l \in DOMAIN plan.flows :
       LET f == plan.flows[k]
           g == plan.flows[l]
       IN  /\ f.src = f.dst => req.hosts = 1
           /\ k # l /\ f.dst = g.dst /\ f.proto = g.proto => f.port # g.port
           /\ k # l /\ f.item = g.item /\ f.item \in Plain => f.src # g.src

=============================================================================
