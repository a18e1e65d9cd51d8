---------------------------- MODULE CountPlanning ----------------------------
(***************************************************************************)
(* How many of each thing a scenario asks for: the host roles as the CLI   *)
(* counts them (cli.py, utils/allocation.py), then the plan of all its     *)
(* sections (planning/orchestrator.py with the parsers and planners of     *)
(* nodes, routers, services, vulnerabilities, segmentation and traffic).   *)
(*                                                                         *)
(* A row of a section is an item of the XML: what it selects, its metric   *)
(* ("" when absent), its count and its factor.  Factors and densities are  *)
(* in quarters, so 4 is 1.0.                                               *)
(***************************************************************************)
EXTENDS Integers, Sequences, SequencesExt

VARIABLES req, plan

vars == <<req, plan>>

One == 4
Metrics == {"", "Weight", "Count"}
RowsOf(names) == Seq([name : names, metric : Metrics, count : Nat, factor : Nat])

\* The names of roles in the order of sorted().
RoleNames == <<"Host", "PC", "Random", "Server", "Workstation">>
RandomRoles == <<"Server", "Workstation", "PC">>
RandomProtocols == <<"RIP", "RIPv2", "BGP", "OSPFv2", "OSPFv3">>
RandomServices == <<"SSH", "HTTP", "DHCPClient">>
RandomVulns == <<"SSHCreds", "Bashbug", "FileArtifact", "Incompetence">>
RandomKinds == <<"Firewall", "NAT", "CUSTOM">>

Requests ==
  [base : Nat, cap : Nat, gate : BOOLEAN, nodes : RowsOf(Range(RoleNames)),
   routing : RowsOf(Range(RandomProtocols) \cup {"Random"}),
   services : RowsOf(Range(RandomServices) \cup {"Random"}),
   vulns : RowsOf({"Random", "Type/Vector", "Specific"}),
   segments : RowsOf(Range(RandomKinds) \cup {"Random"}),
   flows : Nat, density : Nat]

AtMost(a, b) == IF a <= b THEN a ELSE b
Clamped == AtMost(req.density, One)
Portion == (req.base * Clamped) \div One

SumOf(f) == FoldFunction(LAMBDA x, y : x + y, 0, f)
IsCount(row) == row.metric = "Count"
IsRandom(row) == row.name = "Random"

Evenly_NoRest(n, names) ==
  [i \in DOMAIN names |-> [name |-> names[i], count |-> n \div Len(names)]]

\* n split over names evenly, the first ones getting one more.
Evenly(n, names) ==
  [i \in DOMAIN names |->
     [name |-> names[i],
      count |-> n \div Len(names) + IF i <= n % Len(names) THEN 1 ELSE 0]]

\* What each name gets in all; names that get nothing are left out.
ByName(entries) ==
  LET some == {i \in DOMAIN entries : entries[i].count > 0}
  IN  [name \in {entries[i].name : i \in some} |->
         FoldFunctionOnSet(LAMBDA x, y : x + y, 0, [i \in some |-> entries[i].count],
                           {i \in some : entries[i].name = name})]

\* Largest remainder: everyone gets the whole part of its share, the first of those
\* with the largest fractions one more.
Shares(total, weighted) ==
  LET w(i) == weighted[i].weight
      sum == SumOf([i \in DOMAIN weighted |-> w(i)])
      floor(i) == (total * w(i)) \div sum
      part(i) == (total * w(i)) % sum
      left == total - SumOf([i \in DOMAIN weighted |-> floor(i)])
      before(i) == {j \in DOMAIN weighted : part(j) > part(i) \/ (part(j) = part(i) /\ j < i)}
  IN  IF weighted = <<>> THEN <<>>
      ELSE [i \in DOMAIN weighted |->
              [name |-> weighted[i].name,
               count |-> floor(i) + IF Cardinality(before(i)) < left THEN 1 ELSE 0]]

\* Weights are in twelfths of a factor, so that Random splits over three or four names.
Weigh(row) == [name |-> row.name, weight |-> 12 * row.factor]
WeighRandom(factor, names) ==
  IF factor = 0 THEN <<>>
  ELSE [i \in DOMAIN names |-> [name |-> names[i], weight |-> (12 * factor) \div Len(names)]]
FactorOf(rows) == SumOf([i \in DOMAIN rows |-> rows[i].factor])
CountOf(rows) == SumOf([i \in DOMAIN rows |-> rows[i].count])

-----------------------------------------------------------------------------
(***************************************************************************)
(* Hosts                                                                   *)
(***************************************************************************)
\* Weight rows count unless the section says it has none.
WeightRows == IF req.gate THEN SelectSeq(req.nodes, LAMBDA r : ~IsCount(r) /\ r.factor > 0) ELSE <<>>
CountRows == SelectSeq(req.nodes, IsCount)
CountItems ==
  SelectSeq([i \in DOMAIN RoleNames |->
           [name |-> RoleNames[i],
            count |-> CountOf(SelectSeq(CountRows, LAMBDA r : r.name = RoleNames[i]))]],
        LAMBDA c : c.count > 0)

Role(name) == IF name \in {"Server", "Workstation"} THEN name ELSE "PC"

\* Rows of the same role weigh together, in the place of the first.
MergedWeights ==
  LET all == [i \in DOMAIN WeightRows |-> Weigh(WeightRows[i])]
      split == SelectSeq(all, LAMBDA w : w.name # "Random")
                 \o WeighRandom(FactorOf(SelectSeq(WeightRows, IsRandom)), RandomRoles)
      add(s, w) ==
        LET at == {i \in DOMAIN s : s[i].name = Role(w.name)}
        IN  IF at = {} THEN Append(s, [name |-> Role(w.name), weight |-> w.weight])
            ELSE [s EXCEPT ![CHOOSE i \in at : TRUE].weight = @ + w.weight]
  IN  FoldLeft(add, <<>>, split)

Additive ==
  LET random == CountOf(SelectSeq(CountItems, IsRandom))
  IN  SelectSeq(CountItems, LAMBDA c : c.name # "Random") \o Evenly(random, RandomRoles)

NodePlan ==
  LET counted == [i \in DOMAIN Additive |-> [Additive[i] EXCEPT !.name = Role(@)]]
  IN  ByName(Shares(req.base, MergedWeights) \o counted)

\* The CLI's own count of the weight rows: factors are taken as they are, a role that
\* two rows name keeps the whole part of the last; what is left goes to the rows with
\* the largest fractions, then around.
RoleCounts(total) ==
  LET rows == SelectSeq(WeightRows, LAMBDA r : ~IsRandom(r))
      n == Len(rows)
      names == {rows[i].name : i \in DOMAIN rows}
      exact(i) == rows[i].factor * total
      last(name) == CHOOSE i \in DOMAIN rows : /\ rows[i].name = name
                      /\ \A j \in DOMAIN rows : rows[j].name = name => j <= i
      whole == [name \in names |-> exact(last(name)) \div One]
      left == total - SumOf(whole)
      part(i) == exact(i) % One
      before(i) == {j \in DOMAIN rows : part(j) > part(i) \/ (part(j) = part(i) /\ j < i)}
      turns(i) == Cardinality({k \in 1..left : k <= n /\ Cardinality(before(i)) = k - 1}
                              \cup {k \in 1..left : k > n /\ (k - n - 1) % n = i - 1})
  IN  IF rows = <<>> THEN [name \in {"Workstation"} |-> total]
      ELSE [name \in names |->
              whole[name] + FoldFunctionOnSet(LAMBDA x, y : x + y, 0,
                                              [i \in DOMAIN rows |-> turns(i)],
                                              {i \in DOMAIN rows : rows[i].name = name})]

\* Then the count rows are added, as far as the cap lets them.
CliRoleCounts ==
  LET total == IF req.cap > 0 THEN AtMost(req.base, req.cap) ELSE req.base
      weighted == IF total > 0 THEN RoleCounts(total) ELSE <<>>
      room == req.cap - SumOf(weighted)
      add(s, c) == LET more == IF req.cap = 0 THEN c.count
                               ELSE IF s.room <= 0 THEN 0 ELSE AtMost(c.count, s.room)
                   IN  [room |-> s.room - more,
                        items |-> Append(s.items, [name |-> c.name, count |-> more])]
      added == FoldLeft(add, [room |-> room, items |-> <<>>], CountItems).items
      counted == {[name |-> name, count |-> weighted[name]] : name \in DOMAIN weighted}
  IN  ByName(SetToSeq(counted) \o added)

-----------------------------------------------------------------------------
(***************************************************************************)
(* The other sections                                                      *)
(***************************************************************************)
\* Items with a count, then those with a weight.
RoutingItems ==
  SelectSeq(req.routing, LAMBDA r : IsCount(r) /\ r.count > 0)
    \o SelectSeq(req.routing, LAMBDA r : ~IsCount(r) /\ r.factor > 0)

\* The planner splits Random over the protocols before it counts.
ExpandedCounts ==
  FlattenSeq([i \in DOMAIN RoutingItems |->
            LET row == RoutingItems[i]
            IN  IF ~IsCount(row) THEN <<>>
                ELSE IF IsRandom(row) THEN Evenly(row.count, RandomProtocols)
                ELSE <<[name |-> row.name, count |-> row.count]>>])
HasWeight(rows) == \E i \in DOMAIN rows : ~IsCount(rows[i]) /\ rows[i].factor > 0

RouterPlan(hosts) ==
  AtMost(hosts, CountOf(ExpandedCounts) + IF HasWeight(RoutingItems) THEN Portion ELSE 0)

\* The builder's own count, of the items as they are.
PlanRouterCounts(hosts) ==
  LET counted == CountOf(SelectSeq(RoutingItems, IsCount))
  IN  AtMost(hosts, counted + IF HasWeight(RoutingItems) THEN Portion ELSE 0)

\* A service row is kept if it has a factor and a density: its count, or the section's.
ServiceItems ==
  SelectSeq(req.services, LAMBDA r : r.factor > 0 /\ (IsCount(r) \/ req.density > 0))
ServicePlan ==
  LET density(r) == IF IsCount(r) THEN 0 ELSE req.density
      derived(d, parts) == (AtMost(d, One * parts) * req.base) \div (One * parts)
      abs(r) == IF IsCount(r) THEN r.count ELSE 0
      plain == SelectSeq(ServiceItems, LAMBDA r : ~IsRandom(r))
      random == SelectSeq(ServiceItems, IsRandom)
      share == SumOf([i \in DOMAIN random |-> density(random[i])])
      split == Evenly(SumOf([i \in DOMAIN random |-> abs(random[i])]), RandomServices)
  IN  ByName([i \in DOMAIN plain |->
                [name |-> plain[i].name,
                 count |-> IF abs(plain[i]) > 0 THEN abs(plain[i])
                           ELSE derived(density(plain[i]), 1)]]
             \o [i \in DOMAIN split |->
                   [split[i] EXCEPT !.count = IF @ > 0 THEN @ ELSE derived(share, 3)]])

\* Only a row for a specific vulnerability carries a count.
VulnCount(r) == IF r.name = "Specific" THEN r.count ELSE 0
VulnWeights ==
  LET weighted == SelectSeq(req.vulns, LAMBDA r : ~IsCount(r) /\ r.factor > 0)
      named == SelectSeq(weighted, LAMBDA r : ~IsRandom(r))
  IN  [i \in DOMAIN named |-> Weigh(named[i])]
        \o WeighRandom(FactorOf(SelectSeq(weighted, IsRandom)), RandomVulns)
VulnPlan ==
  LET counted == SelectSeq(req.vulns, IsCount)
      pool == IF VulnWeights = <<>> THEN 0 ELSE Portion
  IN  ByName([i \in DOMAIN counted |->
                [name |-> counted[i].name, count |-> VulnCount(counted[i])]]
             \o Shares(pool, VulnWeights))

\* A count that is read as a number has no strip(): a specific vulnerability with a
\* count and no metric ends the plan.
VulnsRaise ==
  \E i \in DOMAIN req.vulns : req.vulns[i].metric = "" /\ VulnCount(req.vulns[i]) > 0

SegmentItems ==
  SelectSeq(req.segments, LAMBDA r : r.factor > 0 \/ (IsCount(r) /\ r.count > 0))
Slots ==
  IF \E i \in DOMAIN SegmentItems :
       SegmentItems[i].factor > 0 /\ ~(IsCount(SegmentItems[i]) /\ SegmentItems[i].count > 0)
  THEN Portion ELSE 0
SegmentationPlan ==
  LET weighted == SelectSeq(SegmentItems, LAMBDA r : r.factor > 0)
      split(r) == IF IsRandom(r) THEN WeighRandom(r.factor, RandomKinds) ELSE <<Weigh(r)>>
  IN  ByName(Shares(Slots, FlattenSeq([i \in DOMAIN weighted |-> split(weighted[i])])))

\* Items of traffic reach the planner without their kind: whatever they are, each counts
\* as a Random one with factor 1, and the three kinds share what they sum up to.
TrafficPlan ==
  IF req.flows = 0 THEN <<>>
  ELSE [kind \in {"TCP", "UDP", "CUSTOM"} |-> (12 * req.flows) \div 3]

-----------------------------------------------------------------------------
Begun == [pc |-> "counts", cli |-> <<>>, roles |-> <<>>, routers |-> 0, services |-> <<>>,
          vulns |-> <<>>, segments |-> <<>>, traffic |-> <<>>]

Init == req \in Requests /\ plan = Begun

At(pc) == plan.pc = pc /\ UNCHANGED req

CountsRoles ==
  /\ At("counts")
  /\ plan' = [plan EXCEPT !.pc = "nodes", !.cli = CliRoleCounts]

PlansNodes ==
  /\ At("nodes")
  /\ plan' = [plan EXCEPT !.pc = "routing", !.roles = NodePlan]

PlansRouters ==
  /\ At("routing")
  /\ plan' = [plan EXCEPT !.pc = "services", !.routers = RouterPlan(SumOf(plan.roles))]

PlansServices ==
  /\ At("services")
  /\ plan' = [plan EXCEPT !.pc = "vulns", !.services = ServicePlan]

PlansVulnerabilities ==
  /\ At("vulns")
  /\ ~VulnsRaise
  /\ plan' = [plan EXCEPT !.pc = "segments", !.vulns = VulnPlan]

VulnerabilitiesRaise ==
  /\ At("vulns")
  /\ VulnsRaise
  /\ plan' = [plan EXCEPT !.pc = "failed"]

PlansSegmentation ==
  /\ At("segments")
  /\ plan' = [plan EXCEPT !.pc = "traffic", !.segments = SegmentationPlan]

PlansTraffic ==
  /\ At("traffic")
  /\ plan' = [plan EXCEPT !.pc = "done", !.traffic = TrafficPlan]

Next ==
  \/ CountsRoles \/ PlansNodes \/ PlansRouters \/ PlansServices
  \/ PlansVulnerabilities \/ VulnerabilitiesRaise \/ PlansSegmentation \/ PlansTraffic

Spec == Init /\ [][Next]_vars

-----------------------------------------------------------------------------
Done == plan.pc = "done"
WeightSum == SumOf([i \in DOMAIN MergedWeights |-> MergedWeights[i].weight])

\* Proportional splits neither lose nor invent anything: the pool of each section is given
\* out to the last unit, every role is within one host of its exact share, and a count
\* asked for is added in full, Random or not.
CountsMet ==
  Done =>
    /\ SumOf(plan.roles) =
         CountOf(CountRows) + (IF MergedWeights = <<>> THEN 0 ELSE req.base)
    /\ \A i \in DOMAIN MergedWeights :
         LET name == MergedWeights[i].name
             added == CountOf(SelectSeq(Additive, LAMBDA c : Role(c.name) = name))
             got == (IF name \in DOMAIN plan.roles THEN plan.roles[name] ELSE 0) - added
             off == got * WeightSum - MergedWeights[i].weight * req.base
         IN  -WeightSum < off /\ off < WeightSum
    /\ SumOf(plan.vulns) =
         (IF VulnWeights = <<>> THEN 0 ELSE Portion)
           + CountOf(SelectSeq(req.vulns, LAMBDA r : IsCount(r) /\ r.name = "Specific"))
    /\ SumOf(plan.segments) = Slots
    /\ \A i \in DOMAIN ServiceItems :
         LET row == ServiceItems[i]
         IN  IsCount(row) /\ ~IsRandom(row) /\ row.count > 0 =>
               plan.services[row.name] >= row.count

\* The builder counts the routers again, with code of its own; for the same hosts it comes
\* to the number the plan says, and both leave no router without a host.
RouterCountsAgree ==
  plan.pc \notin {"counts", "nodes", "routing"} =>
    /\ plan.routers = PlanRouterCounts(SumOf(plan.roles))
    /\ plan.routers <= SumOf(plan.roles)

\* If the factors sum up to no more than one, the CLI makes as many hosts as the section
\* asks for, or as --max-nodes allows.
HostCapKept ==
  plan.pc # "counts" /\ FactorOf(SelectSeq(WeightRows, LAMBDA r : ~IsRandom(r))) <= One =>
    LET asked == req.base + CountOf(CountRows)
    IN  SumOf(plan.cli) = IF req.cap = 0 THEN asked ELSE AtMost(asked, req.cap)

=============================================================================
