----------------------------- MODULE MCGeneration ----------------------------
(* Small requests for the parts that generate a topology, one part at a time: the
   allocator of subnets, which has state of its own, or one of those that turn a
   request into a plan. *)
EXTENDS SubnetAllocators, GenerationParts, TLC

VARIABLE part

\* Pools with a /24 of two addresses: a base inside a larger pool that begins where it does,
\* a third pool, and two smaller than a /24.
Overlapping ==
  {[start |-> 0, len |-> 2], [start |-> 0, len |-> 8], [start |-> 8, len |-> 4],
   [start |-> 13, len |-> 1], [start |-> 14, len |-> 1]}

Counts == INSTANCE CountPlanning
Groups == INSTANCE RouterHostPlan
Links == INSTANCE PreviewRouters
Nodes == INSTANCE PreviewHosts
Mesh == INSTANCE RouterMesh
Spread == INSTANCE HostServices

-----------------------------------------------------------------------------
NoRows == [base |-> 5, cap |-> 0, gate |-> TRUE, nodes |-> <<>>, routing |-> <<>>,
           services |-> <<>>, vulns |-> <<>>, segments |-> <<>>, flows |-> 0, density |-> 0]
Row(name, metric, count, factor) ==
  [name |-> name, metric |-> metric, count |-> count, factor |-> factor]
Pairs(rows) == {<<>>} \cup {<<r>> : r \in rows} \cup (rows \X rows)

NodeRows == Pairs({Row("Server", "Weight", 0, 1), Row("Workstation", "", 0, 3),
                   Row("Random", "Weight", 0, 2), Row("Host", "Weight", 0, 4),
                   Row("Random", "Count", 2, 1), Row("Server", "Count", 3, 1)})
RoutingRows == Pairs({Row("OSPFv2", "Weight", 0, 1), Row("Random", "Weight", 0, 2),
                      Row("Random", "Count", 6, 1), Row("BGP", "Count", 2, 1)})
ServiceRows == Pairs({Row("SSH", "Weight", 0, 1), Row("Random", "Weight", 0, 1),
                      Row("Random", "Count", 4, 1), Row("HTTP", "Count", 2, 1),
                      Row("HTTP", "Count", 0, 1)})
VulnRows == Pairs({Row("Type/Vector", "Weight", 0, 1), Row("Random", "", 0, 2),
                   Row("Specific", "", 1, 1), Row("Specific", "Count", 2, 1),
                   Row("Random", "Count", 2, 1)})
SegmentRows == Pairs({Row("Firewall", "Weight", 0, 1), Row("Random", "Weight", 0, 3),
                      Row("NAT", "Count", 2, 1), Row("CUSTOM", "Count", 0, 2)})

CountRequests ==
  {[NoRows EXCEPT !.base = b, !.cap = c, !.gate = g, !.nodes = n] :
     b \in {0, 1, 5, 8}, c \in {0, 3, 6}, g \in BOOLEAN, n \in NodeRows}
    \cup {[NoRows EXCEPT !.density = d, !.nodes = <<Row("Server", "Weight", 0, 4)>>,
                         !.routing = r, !.services = s, !.flows = d] :
            d \in {0, 1, 3, 5}, r \in RoutingRows, s \in ServiceRows}
    \cup {[NoRows EXCEPT !.density = d, !.base = b, !.vulns = v, !.segments = s] :
            d \in {0, 1, 3, 5}, b \in {5, 7}, v \in VulnRows, s \in SegmentRows}

-----------------------------------------------------------------------------
NoItem == [abs |-> 0, edges |-> 0, min |-> 0, max |-> 0]
ItemLists ==
  {<<>>} \cup {<<[NoItem EXCEPT !.min = lo, !.max = hi]>> : lo \in 0..3, hi \in 0..4}
    \cup {<<[NoItem EXCEPT !.edges = 2, !.max = 5], [NoItem EXCEPT !.min = 3, !.abs = 1]>>}

GroupRequests ==
  [routers : 1..3, hosts : 0..9, mode : Groups!Modes, target : {0, 2, 3}, items : ItemLists]
    \cup [routers : {1}, hosts : 17..20, mode : {"exact"}, target : {2}, items : ItemLists]

Bases == {Links!NoBase,
          [kind |-> [v \in 1..4 |-> IF v <= 2 THEN "target" ELSE "other"],
           edge |-> {{1, 3}, {3, 4}}]}
LinkRequests ==
  [routers : 0..6, mode : Links!Modes \ {"", "nonuniform"}, degree : 0..5, base : {Links!NoBase}]
    \cup [routers : 0..5, mode : {"", "nonuniform"}, degree : {0}, base : {Links!NoBase}]
    \cup [routers : 0..2, mode : {"min"}, degree : {0}, base : Bases]

\* Hosts of each router behind no switch, one, or two of which one may be empty; and behind
\* one where each router is to have one.
GroupsOf(r, hosts) ==
  LET group(some) == [router |-> r, hosts |-> some, only |-> FALSE]
  IN  {<<>>, <<group(hosts)>>}
        \cup {<<group(SubSeq(hosts, 1, k)), group(SubSeq(hosts, k + 1, Len(hosts)))>> :
                k \in DOMAIN hosts}
Only(r, hosts) == <<[router |-> r, hosts |-> hosts, only |-> TRUE]>>
NodeRequest(routers, hosts, groups, nets, lan) ==
  [routers |-> routers, hosts |-> hosts, groups |-> groups, nets |-> nets, lan |-> lan,
   services |-> 3, vulns |-> 1, flows |-> <<>>]
\* The subnet of single addresses may be the LAN of any one switch.
Nets(groups) ==
  {[i \in DOMAIN groups |-> IF i = k THEN 0 ELSE i] : k \in 0..Len(groups)}
NodeRequests ==
  LET shapes == {<<1, 4, g>> : g \in GroupsOf(1, <<2, 3, 4, 5>>)}
                  \cup {<<2, 3, g \o h>> : g \in GroupsOf(1, <<3, 5>>), h \in GroupsOf(2, <<4>>)}
                  \cup {<<1, 4, Only(1, <<2, 3, 4, 5>>)>>,
                        <<2, 3, Only(1, <<3, 5>>) \o Only(2, <<4>>)>>}
                  \cup {<<2, 1, g>> : g \in GroupsOf(1, <<3>>)}
                  \cup {<<0, 2, <<>> >>, <<2, 0, <<>> >>}
      flows == {<<>>, <<[abs |-> 1, factor |-> 0], [abs |-> 0, factor |-> 2]>>}
  IN  UNION {{NodeRequest(s[1], s[2], s[3], nets, lan) : nets \in Nets(s[3]), lan \in 2..6} :
               s \in shapes}
        \cup {[NodeRequest(1, 2, <<>>, <<>>, 2) EXCEPT !.flows = f] : f \in flows}

-----------------------------------------------------------------------------
FlowItem(kind, abs, factor) == [kind |-> kind, abs |-> abs, factor |-> factor]
FlowItems == {FlowItem("TCP", 0, 2), FlowItem("Random", 0, 1), FlowItem("UDP", 0, 0),
              FlowItem("Random", 2, 1), FlowItem("CUSTOM", 3, 0)}
FlowRequests ==
  [hosts : 0..3, density : {0, 2, 3, 4}, items : Pairs(FlowItems)]

\* A preview and a run, or two of a kind, with the same seed or not.
User(kind, seed, names) == [kind |-> kind, seed |-> seed, names |-> names]
ScriptRequests ==
  {[users |-> u, keep |-> k] : k \in 0..1,
     u \in UNION {{<<User(kind, 1, {1, 2}), User("run", 1, {2, 3})>>,
                   <<User("preview", 1, {1, 2}), User("preview", seed, {2})>>,
                   <<User(kind, 1, {1}), User("preview", seed, {2}), User("preview", 3, {1})>>} :
                  kind \in Scripts!Kinds, seed \in 1..2}}

SegmentItem(name, abs, factor) == [name |-> name, abs |-> abs, factor |-> factor]
SegmentItems == {SegmentItem("NAT", 1, 1), SegmentItem("Firewall", 0, 1), SegmentItem("CUSTOM", 1, 0),
                 SegmentItem("Random", 1, 0), SegmentItem("Random", 0, 2), SegmentItem("NAT", 2, 0)}
SegmentFlow(src, dst, port) == [src |-> src, dst |-> dst, port |-> port]
OldRule(node, type) == [node |-> node, type |-> type, chain |-> "FORWARD",
                        src |-> {3, -1}, dst |-> {4, -2}, port |-> 0]
OldAllow(node, chain, port) == [node |-> node, type |-> "allow", chain |-> chain,
                                src |-> {3, -1}, dst |-> {4}, port |-> port]
\* Two hosts and the number each is given.
OfTwo(a, m, b, n) == [h \in {a, b} |-> IF h = a THEN m ELSE n]

\* A topology, and a run's section, old rules, wishes and traffic for it.
Site(routers, net, primary, gate) ==
  [routers |-> routers, net |-> net, primary |-> primary, gate |-> gate]
Section(site, items, density, prior, hosts, dnat, flows) ==
  [routers |-> site.routers, net |-> site.net, primary |-> site.primary, gate |-> site.gate,
   items |-> items, density |-> density, prior |-> [i \in DOMAIN prior |-> prior[i].rule],
   numbers |-> [i \in DOMAIN prior |-> prior[i].n], hosts |-> hosts, dnat |-> dnat, flows |-> flows]

OneRouter == Site(1, OfTwo(2, 1, 3, 2), <<1>>, <<1, 1>>)
OneLan == Site(1, OfTwo(2, 1, 3, 1), <<0>>, <<1>>)
FlatSite == Site(2, OfTwo(3, 1, 4, 1), <<1, 0>>, <<1>>)
TwoRouters == Site(2, OfTwo(3, 1, 4, 2), <<1, 2>>, <<1, 2>>)
NoRouters == Site(0, OfTwo(1, 1, 2, 2), <<>>, <<0, 0>>)
NoHosts == Site(1, <<>>, <<0>>, <<>>)

TwicePorts == <<SegmentFlow(2, 3, 1), SegmentFlow(2, 3, 2)>>
ThereAndBack == <<SegmentFlow(2, 3, 1), SegmentFlow(3, 2, 1)>>

\* What earlier runs left: one rule, or one and what let flows through, on one port or two,
\* as scripts of their own or where the second run wrote over those of the first.
Old(rule, n) == [rule |-> rule, n |-> n]
OldAllows(port, n) ==
  <<Old(OldAllow(4, "INPUT", port), n), Old(OldAllow(3, "OUTPUT", port), n),
    Old(OldAllow(1, "FORWARD", port), n), Old(OldAllow(2, "FORWARD", port), n)>>
OldDrop == <<Old(OldRule(1, "subnet_block"), 1), Old(OldRule(1, "none"), 1)>>
OldGuard == <<Old([OldRule(4, "protect_internal") EXCEPT !.chain = "INPUT"], 1)>>
OldForward == <<Old([OldAllow(1, "FORWARD", 1) EXCEPT !.type = "dnat"], 1)>>
OldRules == {<<>>, <<Old(OldRule(1, "nat"), 1)>>, <<Old(OldRule(2, "subnet_block"), 1)>>}
OldRuns ==
  {OldDrop \o OldAllows(1, 1) \o OldForward, OldDrop \o OldAllows(3, 1) \o OldAllows(1, 2),
   OldDrop \o OldAllows(1, 1) \o OldAllows(2, 1), OldGuard \o OldAllows(1, 1)}

SegmentRequests ==
  {Section(s, i, 2, <<>>, FALSE, FALSE, <<>>) :
     s \in {FlatSite, NoRouters, NoHosts}, i \in Pairs(SegmentItems)}
  \cup {Section(OneLan, <<i>>, d, <<>>, TRUE, FALSE, <<>>) : i \in SegmentItems, d \in {2, 8}}
  \cup {Section(s, <<i>>, 1, <<>>, h, h, f) :
          s \in {OneRouter, OneLan}, i \in SegmentItems, h \in BOOLEAN,
          f \in {TwicePorts, ThereAndBack}}
  \cup {Section(TwoRouters, <<i>>, d, p, FALSE, FALSE, <<SegmentFlow(3, 4, 1)>>) :
          i \in SegmentItems, d \in {0, 1}, p \in OldRules}
  \cup {Section(TwoRouters, <<>>, d, p, TRUE, TRUE, f) :
          d \in 0..1, p \in OldRuns,
          f \in {<<SegmentFlow(3, 4, 1), SegmentFlow(3, 4, 2)>>, <<SegmentFlow(4, 3, 1)>>}}

-----------------------------------------------------------------------------
\* Switches may list a host twice or share one, or belong to a router that is missing.
SwitchOf(router, switch, hosts) == [router |-> router, switch |-> switch, hosts |-> hosts]
PreviewRequests ==
  LET lists == {<<>>, <<3>>, <<3, 4>>, <<4, 4, 3>>, <<4, 9>>}
      switches == {<<>>} \cup {<<SwitchOf(r, 6, a)>> : r \in {1, 8}, a \in lists}
                    \cup {<<SwitchOf(1, 6, a), SwitchOf(2, 7, b)>> : a, b \in lists}
      homes == {[h \in 3..5 |-> IF h = 5 THEN 2 ELSE 1], OfTwo(3, 2, 4, 8)}
      edges == {<<>>, <<<<1, 2>>>>, <<<<1, 2>>, <<2, 1>>>>}
  IN  [routers : {1..2}, hosts : {3..5}, home : homes, switches : switches, edges : edges,
       losses : 0..2]

BuildRequests ==
  LET hosts == <<"host", "device", "host", "host">>
      none == {<<>>}
  IN  [routers : {2}, roles : {hosts}, slots : {{}, {3}}, edges : {<<>>, <<<<1, 2>>>>},
       extra : {<<<<2, 1>>>>}, grouped : BOOLEAN, lookup : {TRUE}, losses : {1}]
      \cup [routers : 0..3, roles : {<<"host", "host">>}, slots : {{1}, {2, 3}}, edges : none,
            extra : none, grouped : BOOLEAN, lookup : BOOLEAN, losses : {2}]
      \cup [routers : {2}, roles : none, slots : {{}}, edges : none, extra : none,
            grouped : {TRUE}, lookup : {TRUE}, losses : {0}]

\* Routing items of one or two modes and protocols.
MeshItem(protocol, mode, degree, count, factor) ==
  [protocol |-> protocol, mode |-> mode, degree |-> degree, count |-> count, factor |-> factor]
MeshRequests ==
  LET of(routers, items, density, style) ==
        [routers |-> routers, items |-> items, density |-> density, style |-> style]
      one(mode, degree) == <<MeshItem("BGP", mode, degree, 0, 4)>>
      two(degree) == <<MeshItem("RIP", "Uniform", degree, 2, 0), MeshItem("Random", "Uniform", 1, 0, 2)>>
      styles == {"", "full", "ring", "tree"}
  IN  {of(n, one(m, 0), d, s) : n \in {1, 2, 4}, m \in {"", "Min", "NonUniform", "Max", "Exact"},
                                d \in {0, 3}, s \in styles}
      \cup {of(n, one("Uniform", k), 4, s) : n \in 2..5, k \in 0..4, s \in styles}
      \cup {of(6, one("Uniform", 2), 6, "full"), of(5, one("NonUniform", 0), 5, "full")}
      \cup {of(4, two(3), 2, s) : s \in styles}
      \cup {of(4, <<MeshItem("RIP", "Exact", k, 1, 0), MeshItem("BGP", "Exact", 1, 0, 3),
                    MeshItem("BGP", "Min", 0, 0, 2)>>, 3, s) : k \in 1..2, s \in styles}
      \cup {of(3, <<>>, 0, "full")}

StarRequests ==
  [kind : {"star", "access"}, roles : {<<>>, <<"host", "device", "host">>, [i \in 1..21 |-> "host"]},
   slots : SUBSET {1, 2, 3}, access : 0..3, losses : {0, 2}, lookup : BOOLEAN]

\* Sessions with routers, with switches, with both, with hosts alone, and empty ones.
HitlRequests ==
  LET of(routers, switches, hosts, attach, losses, lists) ==
        [routers |-> routers, switches |-> switches, hosts |-> hosts, attach |-> attach,
         losses |-> losses, lists |-> lists, spent |-> <<2, 1, 3, 1>>]
      kinds == DOMAIN Hitl!AttemptOrder
  IN  {of(s[1], s[2], s[3], attach, losses, lists) :
         s \in {<<<<1, 2>>, <<>>, <<4>>>>, <<<<1>>, <<3>>, <<4>>>>, <<<<>>, <<3>>, <<4>>>>,
                <<<<>>, <<>>, <<4>>>>, <<<<>>, <<>>, <<>>>>},
         attach \in {<<k>> : k \in kinds} \cup (kinds \X kinds),
         losses \in {0, 2}, lists \in BOOLEAN}
      \cup {of(<<1>>, <<>>, <<>>, <<k, l, m>>, 1, FALSE) : k, l, m \in kinds}

SpreadRow(name, metric, count) == [name |-> name, metric |-> metric, count |-> count]
SpreadRows == {SpreadRow("SSH", "Weight", 0), SpreadRow("HTTP", "Count", 2), SpreadRow("SSH", "Count", 1),
               SpreadRow("Random", "Weight", 0), SpreadRow("Random", "Count", 2), SpreadRow("HTTP", "Count", 0)}
SpreadRequests == [hosts : 0..3, density : {0, 2, 5}, rows : Pairs(SpreadRows)]

-----------------------------------------------------------------------------
Parts == {"subnets", "counts", "groups", "links", "nodes", "flows", "scripts", "segments",
          "previewed", "built", "mesh", "star", "hitl", "services"}

GenerationInit ==
  /\ part \in Parts
  /\ Init
  /\ part # "subnets" => pools = <<CHOOSE p \in Networks : TRUE>>
  /\ \/ part = "subnets" /\ req = <<>> /\ plan = <<>>
     \/ part = "counts" /\ req \in CountRequests /\ plan = Counts!Begun
     \/ part = "groups" /\ req \in GroupRequests /\ plan = Groups!Begun
     \/ part = "links" /\ req \in LinkRequests /\ plan = Links!Begun
     \/ part = "nodes" /\ req \in NodeRequests /\ plan = Nodes!Begun
     \/ part = "flows" /\ req \in FlowRequests /\ plan = Flows!Begun
     \/ part = "scripts" /\ req \in ScriptRequests /\ plan = Scripts!Begun
     \/ part = "segments" /\ req \in SegmentRequests /\ plan = Segments!Begun
     \/ part = "previewed" /\ req \in PreviewRequests /\ plan = Previewed!Begun
     \/ part = "built" /\ req \in BuildRequests /\ plan = Built!Begun
     \/ part = "mesh" /\ req \in MeshRequests /\ plan = Mesh!Begun
     \/ part = "star" /\ req \in StarRequests /\ plan = Star!Begun
     \/ part = "hitl" /\ req \in HitlRequests /\ plan = Hitl!Begun
     \/ part = "services" /\ req \in SpreadRequests /\ plan = Spread!Begun

Generates ==
  \/ part = "counts" /\ Counts!Next
  \/ part = "groups" /\ Groups!Next
  \/ part = "links" /\ Links!Next
  \/ part = "nodes" /\ Nodes!Next
  \/ part = "flows" /\ Flows!Next
  \/ part = "scripts" /\ Scripts!Next
  \/ part = "segments" /\ Segments!Next
  \/ part = "previewed" /\ Previewed!Next
  \/ part = "built" /\ Built!Next
  \/ part = "mesh" /\ Mesh!Next
  \/ part = "star" /\ Star!Next
  \/ part = "hitl" /\ Hitl!Next
  \/ part = "services" /\ Spread!Next

GenerationNext ==
  /\ UNCHANGED part
  /\ \/ part = "subnets" /\ Next /\ UNCHANGED <<req, plan>>
     \/ Generates /\ UNCHANGED vars

GenerationSpec == GenerationInit /\ [][GenerationNext]_<<vars, part, req, plan>>

\* Each states what the modules it names state of their part.
PoolsServed == part = "subnets" => TypeOK /\ InPools /\ NoneLeftIsTrue /\ FairTurns
CountsMet ==
  /\ part = "counts" => Counts!CountsMet /\ Counts!HostCapKept /\ Counts!RouterCountsAgree
  /\ part = "services" => Spread!ServicesSpread
GroupsFit ==
  part = "groups" =>
    Groups!HostsInOneGroup /\ Groups!SwitchTargetMet /\ Groups!GroupSizesWithinBounds
DegreesMet ==
  /\ part = "links" => Links!SequencesRealized /\ Links!DegreesMet
  /\ part = "mesh" => Mesh!DegreesBounded /\ Mesh!MeshAsAsked
RoutersConnected ==
  /\ part = "links" => Links!RoutersConnected /\ Links!BridgeClusterClosed
  /\ part = "mesh" => Mesh!MeshConnected
  /\ part = "hitl" => Hitl!Rj45sConnected
AddressesDistinct == part = "nodes" => Nodes!AddressesDistinct
FlowsAsAsked == part = "flows" => Flows!FlowsAsAsked
OwnScriptsUnlessTouched == part = "scripts" => Scripts!OwnScriptsUnlessTouched
SlotsPlaced == part = "segments" => Segments!SlotsPlaced /\ Segments!NatApart
AllowRulesSuffice == part = "segments" => Segments!AllowRulesSuffice
InterfacesDistinct ==
  /\ part = "previewed" => Previewed!InterfacesDistinct
  /\ part = "built" => Built!InterfacesDistinct
  /\ part = "star" => Star!InterfacesDistinct
  /\ part = "hitl" => Hitl!InterfacesDistinct
HostsAttached ==
  /\ part = "previewed" => Previewed!HostsRealized
  /\ part = "built" => Built!HostsAttached
DockersPlaced ==
  /\ part = "built" => Built!DockersPlaced
  /\ part = "star" => Star!DockersPlaced

\* What the documents say and the code does not do.
FlowsPass == part = "segments" => Segments!FlowsPass
Rj45sAccepted == part = "hitl" => Hitl!Rj45sAccepted
=============================================================================
