----------------------------- MODULE Segmentation -----------------------------
(***************************************************************************)
(* Segmentation of a run (utils/segmentation.py): slots put NAT, firewall   *)
(* or custom scripts on nodes; then rules are added that accept the flows   *)
(* of the generated traffic, the flows are checked once more, and some get  *)
(* a port forwarding.  Nodes execute the scripts if the Segmentation        *)
(* service is enabled on them.                                              *)
(*                                                                         *)
(* req: the routers are 1..routers, net gives each host its subnet, primary *)
(* each router the subnet its address is in (0: none), gate each subnet the *)
(* router it is behind.  Items are the rows of the section, density is in   *)
(* quarters, prior the rules of the summary found in the directory and      *)
(* numbers the number in the name of the script of each.                    *)
(***************************************************************************)
EXTENDS Integers, Sequences, SequencesExt

VARIABLES req, plan

vars == <<req, plan>>

Kinds == {"Firewall", "NAT", "CUSTOM"}
Drops == {"subnet_block", "host_block", "protect_internal"}
MaxFirewallRules == 3

\* Hosts and routers are different nodes, and flows are between hosts.
Requests ==
  {r \in [routers : Nat, net : UNION {[S -> Nat] : S \in SUBSET Nat},
          primary : Seq(Nat), gate : Seq(Nat),
          items : Seq([name : Kinds \cup {"Random"}, abs : Nat, factor : Nat]), density : Nat,
          prior : Seq([node : Nat, type : Drops \cup {"none", "nat", "custom", "allow", "dnat"},
                       chain : {"", "FORWARD", "INPUT", "OUTPUT"},
                       src : SUBSET Int, dst : SUBSET Int, port : Nat]),
          numbers : Seq(Nat \ {0}), hosts : BOOLEAN, dnat : BOOLEAN, flows : Seq([src : Nat, dst : Nat, port : Nat])] :
     /\ IsFiniteSet(DOMAIN r.net) /\ DOMAIN r.net \cap 1..r.routers = {}
     /\ Len(r.primary) = r.routers /\ Len(r.numbers) = Len(r.prior)
     /\ \A i \in DOMAIN r.flows : {r.flows[i].src, r.flows[i].dst} \subseteq DOMAIN r.net}

Routers == 1..req.routers
Hosts == DOMAIN req.net
Nets == Range(req.net)

\* A selector is a set of addresses: those of hosts, and one more of each subnet.
Sel(n) == {h \in Hosts : req.net[h] = n} \cup {-n}
All == UNION {Sel(n) : n \in Nets}

Begun ==
  [pc |-> "slots", slot |-> 0, node |-> 0, more |-> 0, service |-> FALSE, flow |-> 1,
   rules |-> req.prior, enabled |-> {}, used |-> {}, nat |-> {}, fw |-> {}, reported |-> {}]

Init == req \in Requests /\ plan = Begun

At(pc) == plan.pc = pc /\ UNCHANGED req
NodesOf(types) == {plan.rules[i].node : i \in {j \in DOMAIN plan.rules : plan.rules[j].type \in types}}

-----------------------------------------------------------------------------
(***************************************************************************)
(* Slots                                                                   *)
(***************************************************************************)
Counted(name) ==
  FlattenSeq([i \in DOMAIN req.items |->
                IF (req.items[i].name = "NAT") = (name = "NAT")
                THEN [k \in 1..req.items[i].abs |-> req.items[i].name] ELSE <<>>])

Sequence_NatLast == Counted("others") \o Counted("NAT")

\* NAT comes first, while there are routers without a firewall.
Sequence == Counted("NAT") \o Counted("others")

Rounded(quarters) ==
  LET whole == quarters \div 4
      part == quarters % 4
  IN  IF part > 2 \/ (part = 2 /\ whole % 2 = 1) THEN whole + 1 ELSE whole
OneAtLeast(n) == IF n = 0 THEN 1 ELSE n

Weighted == {i \in DOMAIN req.items : req.items[i].factor > 0}
DensitySlots ==
  IF req.density = 0 \/ \A i \in Weighted : req.items[i].abs > 0 THEN 0
  ELSE OneAtLeast(Rounded(IF req.density >= 4 THEN req.density
                          ELSE Cardinality(Nets) * req.density))
Slots == Len(Sequence) + DensitySlots

\* What a slot is for: the next of the sequence, then anything that has a weight.
Services ==
  IF plan.slot <= Len(Sequence) THEN {Sequence[plan.slot]}
  ELSE UNION {IF req.items[i].name = "Random" THEN Kinds ELSE {req.items[i].name} : i \in Weighted}

\* Without density or items the CLI leaves the directory as it is; without hosts nothing is
\* done.
Skipped == req.density = 0 \/ req.items = <<>> \/ Hosts = {}
Skips ==
  /\ At("slots") /\ plan.slot = 0 /\ Skipped
  /\ plan' = [plan EXCEPT !.pc = "allow"]

\* Nodes with a rule in the summary count as taken, then the directory is emptied.
Starts ==
  /\ At("slots") /\ plan.slot = 0 /\ ~Skipped
  /\ plan' = [plan EXCEPT !.slot = 1, !.rules = <<>>,
                          !.nat = NodesOf({"nat"}), !.fw = NodesOf(Drops)]

Unused(nodes) == nodes \ plan.used
Free(nodes) == Unused(nodes) \cup IF req.hosts THEN Unused(Hosts) ELSE {}
Clean == Routers \ (plan.nat \cup plan.fw)
SlotFor(service) ==
  At("slots") /\ plan.slot \in 1..Slots /\ plan.more = 0 /\ service \in Services

Rule(node, type, chain, src, dst) ==
  [node |-> node, type |-> type, chain |-> chain, src |-> src, dst |-> dst, port |-> 0]

\* NAT from the router's subnet, or the largest, to another one or anywhere.  It goes to a
\* router with neither NAT nor firewall, an unused one if there is one.
Largest == {n \in Nets : \A m \in Nets : Cardinality(Sel(m)) <= Cardinality(Sel(n))}
PlacesNat ==
  /\ SlotFor("NAT")
  /\ \E r \in (IF Unused(Clean) # {} THEN Unused(Clean) ELSE Clean) :
       \E internal \in (IF req.primary[r] = 0 THEN Largest ELSE {req.primary[r]}) :
         \E external \in (IF Nets = {internal} THEN {All}
                          ELSE {Sel(n) : n \in Nets \ {internal}}) :
           plan' = [plan EXCEPT
                     !.slot = @ + 1, !.used = @ \cup {r}, !.nat = @ \cup {r},
                     !.enabled = @ \cup {r},
                     !.rules = Append(@, Rule(r, "nat", "", Sel(internal), external))]

SkipsNat ==
  /\ SlotFor("NAT") /\ Clean = {}
  /\ plan' = [plan EXCEPT !.slot = @ + 1]

\* The service is not enabled for a custom script.
PlacesCustom ==
  /\ SlotFor("CUSTOM")
  /\ \E n \in Free(Routers) :
       plan' = [plan EXCEPT !.slot = @ + 1, !.used = @ \cup {n},
                            !.rules = Append(@, Rule(n, "custom", "", {}, {}))]

\* Nor for a slot that says Random: as a service that does not exist.
PlacesFirewall ==
  \E service \in {"Firewall", "Random"} :
    /\ SlotFor(service)
    /\ \E n \in Free(Routers \ plan.nat), more \in 1..MaxFirewallRules :
         plan' = [plan EXCEPT !.node = n, !.more = more, !.used = @ \cup {n},
                              !.service = service = "Firewall"]

SkipsOther ==
  /\ \E service \in {"CUSTOM", "Firewall", "Random"} :
       /\ SlotFor(service)
       /\ Free(IF service = "CUSTOM" THEN Routers ELSE Routers \ plan.nat) = {}
  /\ plan' = [plan EXCEPT !.slot = @ + 1]

\* What one firewall rule of a node can be.  Where a block has no two subnets or hosts,
\* the rule protects a subnet instead.
Drafts(n) ==
  LET router == n \in Routers
      chain == IF router THEN "FORWARD" ELSE "INPUT"
      own == IF ~router THEN {req.net[n]}
             ELSE IF req.primary[n] = 0 THEN Nets ELSE {req.primary[n]}
  IN  {Rule(n, "subnet_block", chain, Sel(e[1]), Sel(e[2])) :
         e \in {f \in Nets \X own : f[1] # f[2]}}
      \cup {Rule(n, "host_block", chain, {e[1]}, {e[2]}) :
              e \in {f \in Hosts \X (IF router THEN Hosts ELSE {n}) : f[1] # f[2]}}
      \cup {Rule(n, "protect_internal", chain, All \ Sel(i), Sel(i)) : i \in Nets}

\* A rule the node has, or one its protection of the subnet covers, is left out.
Repeats(rule) ==
  \E i \in DOMAIN plan.rules :
    LET r == plan.rules[i]
    IN  /\ r.node = rule.node /\ r.dst = rule.dst
        /\ \/ r.type = rule.type /\ r.src = rule.src
           \/ r.type = "protect_internal" /\ rule.type = "subnet_block" /\ rule.node \in Routers

\* The script drops by default whether or not it has a rule.
AddsRule ==
  /\ At("slots") /\ plan.more > 0
  /\ \E draft \in Drafts(plan.node) :
       LET repeats == Repeats(draft)
           rule == IF repeats THEN Rule(draft.node, "none", draft.chain, {}, {}) ELSE draft
       IN  plan' = [plan EXCEPT
                     !.more = @ - 1,
                     !.slot = IF plan.more = 1 THEN @ + 1 ELSE @,
                     !.enabled = IF plan.service THEN @ \cup {draft.node} ELSE @,
                     !.fw = IF repeats THEN @ ELSE @ \cup {draft.node},
                     !.rules = Append(@, rule)]

EndsSlots ==
  /\ At("slots") /\ plan.slot > Slots /\ plan.more = 0
  /\ plan' = [plan EXCEPT !.pc = "allow"]

-----------------------------------------------------------------------------
(***************************************************************************)
(* Rules for the flows                                                     *)
(***************************************************************************)
SameLan(f) == req.net[f.src] = req.net[f.dst]
Denies(i, chain) == plan.rules[i].chain = chain /\ plan.rules[i].type \in Drops \cup {"none"}

Blocked(f) ==
  \/ \E i \in DOMAIN plan.rules :
       plan.rules[i].type \in Drops /\ f.src \in plan.rules[i].src /\ f.dst \in plan.rules[i].dst
  \/ NodesOf({"nat"}) # {} /\ ~SameLan(f)
  \/ \E i \in DOMAIN plan.rules : Denies(i, "INPUT") /\ plan.rules[i].node = f.dst

Covered_AnyPort(rule) ==
  \E i \in DOMAIN plan.rules :
    LET r == plan.rules[i]
    IN  /\ r.type = "allow" /\ r.node = rule.node /\ r.chain = rule.chain
        /\ rule.src \subseteq r.src /\ rule.dst \subseteq r.dst

\* An earlier rule that accepts as much at the same place.
Covered(rule) ==
  \E i \in DOMAIN plan.rules :
    LET r == plan.rules[i]
    IN  /\ r.type = "allow" /\ r.node = rule.node /\ r.chain = rule.chain /\ r.port = rule.port
        /\ rule.src \subseteq r.src /\ rule.dst \subseteq r.dst

Flow == req.flows[plan.flow]
AtFlow(pc) == At(pc) /\ plan.flow \in DOMAIN req.flows
AllowAt(node, chain, src, dst) ==
  [node |-> node, type |-> "allow", chain |-> chain, src |-> src, dst |-> dst, port |-> Flow.port]
Enables(nodes) == nodes \cap (Routers \cup IF req.hosts THEN Hosts ELSE {})

\* A flow that is blocked is accepted at its receiver, its sender and every router, each
\* end perhaps for its whole subnet.
AllowsFlow ==
  /\ AtFlow("allow") /\ Blocked(Flow)
  /\ \E src \in {{Flow.src}, Sel(req.net[Flow.src])},
        dst \in {{Flow.dst}, Sel(req.net[Flow.dst])} :
       LET wanted == {AllowAt(Flow.dst, "INPUT", src, dst), AllowAt(Flow.src, "OUTPUT", src, dst)}
                       \cup {AllowAt(r, "FORWARD", src, dst) : r \in Routers}
           new == SetToSeq({rule \in wanted : ~Covered(rule)})
       IN  plan' = [plan EXCEPT !.flow = @ + 1, !.rules = @ \o new,
                                !.enabled = @ \cup Enables({rule.node : rule \in Range(new)})]

PassesFlow ==
  /\ AtFlow("allow") /\ ~Blocked(Flow)
  /\ plan' = [plan EXCEPT !.flow = @ + 1]

\* The check knows no sender: it reports each flow to a protected subnet.
VerifiesFlows ==
  /\ At("allow") /\ plan.flow \notin DOMAIN req.flows
  /\ plan' = [plan EXCEPT
               !.pc = IF req.dnat THEN "dnat" ELSE "done", !.flow = 1,
               !.reported = {f \in DOMAIN req.flows : \E i \in DOMAIN plan.rules :
                               /\ plan.rules[i].type = "protect_internal"
                               /\ req.flows[f].dst \in plan.rules[i].dst}]

\* A flow chosen at random is forwarded by every router that does not do so yet.
ForwardsPort ==
  /\ AtFlow("dnat")
  /\ LET known == {plan.rules[i].node : i \in {j \in DOMAIN plan.rules :
                     /\ plan.rules[j].type = "dnat" /\ plan.rules[j].dst = {Flow.dst}
                     /\ plan.rules[j].port = Flow.port}}
         new == SetToSeq(Routers \ known)
         rule(r) == [node |-> r, type |-> "dnat", chain |-> "FORWARD", src |-> All,
                     dst |-> {Flow.dst}, port |-> Flow.port]
     IN  \/ plan' = [plan EXCEPT !.flow = @ + 1]
         \/ plan' = [plan EXCEPT !.flow = @ + 1, !.enabled = @ \cup Range(new),
                                 !.rules = @ \o [i \in DOMAIN new |-> rule(new[i])]]

EndsPorts ==
  /\ At("dnat") /\ plan.flow \notin DOMAIN req.flows
  /\ plan' = [plan EXCEPT !.pc = "done"]

Next ==
  \/ Skips \/ Starts \/ PlacesNat \/ SkipsNat \/ PlacesCustom \/ PlacesFirewall \/ SkipsOther
  \/ AddsRule \/ EndsSlots \/ AllowsFlow \/ PassesFlow \/ VerifiesFlows \/ ForwardsPort \/ EndsPorts

Spec == Init /\ [][Next]_vars

-----------------------------------------------------------------------------
\* The rules that were found and kept come first.  Each run numbers its scripts of a type
\* from one at each node, so its n-th is written over the n-th of those kept, whose rule
\* stays in the summary; so is one whose number an earlier run gave again.
Kept == IF Skipped THEN Len(req.prior) ELSE 0
Standing(i) ==
  LET same(j) == plan.rules[j].type = plan.rules[i].type /\ plan.rules[j].node = plan.rules[i].node
      written == {j \in DOMAIN plan.rules : j > Kept /\ same(j)}
  IN  i <= Kept =>
        /\ req.numbers[i] > Cardinality(written)
        /\ \A j \in (i + 1)..Kept : same(j) => req.numbers[j] # req.numbers[i]

\* A node with the service executes the scripts that bear its number.
Active(i) == plan.rules[i].node \in plan.enabled /\ Standing(i)
Placed == plan.slot > Slots

\* A router translates addresses once at most, and never also filters: the two are kept
\* apart whatever was counted, weighted or found from an earlier run.
NatApart ==
  plan.slot > 0 =>
    /\ NodesOf({"nat"}) \cap NodesOf(Drops) = {}
    /\ \A i, j \in DOMAIN plan.rules :
         /\ i # j /\ plan.rules[i].type = "nat" /\ plan.rules[j].type = "nat"
         => plan.rules[i].node # plan.rules[j].node

\* With a clean router for each slot every slot has a node of its own; and the NAT slots
\* asked for are all met if there are clean routers for them, whatever else is asked for.
SlotsPlaced ==
  Placed =>
    LET before(types) == {req.prior[i].node : i \in {j \in DOMAIN req.prior :
                                                        req.prior[j].type \in types}}
        clean == Cardinality(Routers \ before(Drops \cup {"nat"}))
    IN  /\ Slots <= clean => Cardinality(plan.used) = Slots
        /\ Len(Counted("NAT")) <= clean => Cardinality(NodesOf({"nat"})) >= Len(Counted("NAT"))

Checked == plan.pc \in {"dnat", "done"}
Matches(r, n, chain, f) ==
  r.node = n /\ r.chain = chain /\ r.port = f.port /\ f.src \in r.src /\ f.dst \in r.dst
Accepts(n, chain, f) ==
  \E i \in DOMAIN plan.rules :
    LET r == plan.rules[i]
    IN  /\ Active(i)
        /\ \/ r.type \in {"allow", "dnat"} /\ Matches(r, n, chain, f)
           \/ /\ r.type = "nat" /\ chain = "FORWARD" /\ r.node = n
              /\ f.src \in r.src /\ f.dst \in r.dst

\* Where the script of rule i stops a flow: it drops it, or it lets nothing else through,
\* as one that translates addresses does and, at the receiver, one that filters.
Stops(i, chain, f) ==
  LET r == plan.rules[i]
  IN  \/ /\ chain = "FORWARD" /\ r.node \in Routers
         /\ \/ r.type \in Drops /\ f.src \in r.src /\ f.dst \in r.dst
            \/ r.type = "nat" /\ ~SameLan(f)
      \/ chain = "INPUT" /\ r.node = f.dst /\ Denies(i, "INPUT")

\* An accept rule that was found in the summary has lost its script to another one.
Overwritten(n, chain, f) ==
  \E i \in DOMAIN plan.rules :
    plan.rules[i].type = "allow" /\ Matches(plan.rules[i], n, chain, f) /\ ~Standing(i)

\* Once the flows are done no script that a node executes stops one: there is also one that
\* accepts it, unless the rule was one of an earlier run and its script was written over.
AllowRulesSuffice ==
  Checked =>
    \A k \in DOMAIN req.flows, chain \in {"FORWARD", "INPUT"} :
      \A i \in {j \in DOMAIN plan.rules : Active(j) /\ Stops(j, chain, req.flows[k])} :
        \/ Accepts(plan.rules[i].node, chain, req.flows[k])
        \/ Overwritten(plan.rules[i].node, chain, req.flows[k])

\* The comment of write_allow_rules_for_flows: generated traffic can flow.  A flow that
\* leaves its subnet goes through the routers its two subnets are behind.  What has been
\* written over is not counted here either.
FlowsPass ==
  Checked =>
    \A k \in DOMAIN req.flows :
      LET f == req.flows[k] IN
      ~SameLan(f) =>
        \A i \in DOMAIN plan.rules :
          /\ Active(i) /\ (plan.rules[i].type = "nat" \/ Denies(i, "FORWARD"))
          /\ plan.rules[i].node \in {req.gate[req.net[f.src]], req.gate[req.net[f.dst]]}
          => \/ Accepts(plan.rules[i].node, "FORWARD", f)
             \/ Overwritten(plan.rules[i].node, "FORWARD", f)

=============================================================================
