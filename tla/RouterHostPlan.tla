--------------------------- MODULE RouterHostPlan ---------------------------
(***************************************************************************)
(* Grouping of hosts behind switches (planning/router_host_plan.py): hosts *)
(* are dealt to routers in turn, and the hosts of each router are split    *)
(* into groups, one switch and one /24 of addresses each.                  *)
(*                                                                         *)
(* req is what the planner is called with, plan its local variables.  An   *)
(* absent bound or target is 0.  An item is a routing item: its absolute   *)
(* count, its number of switches, and its bounds of hosts per switch.      *)
(***************************************************************************)
EXTENDS Naturals, Sequences, SequencesExt, FiniteSets

VARIABLES req, plan

vars == <<req, plan>>

Modes == {"exact", "min", "nonuniform", "ratio"}
Items == [abs : Nat, edges : Nat, min : Nat, max : Nat]
Requests == [routers : Nat \ {0}, hosts : Nat, mode : Modes, target : Nat,
             items : Seq(Items)]

AtLeast(a, b) == IF a >= b THEN a ELSE b
AtMost(a, b) == IF a <= b THEN a ELSE b

(***************************************************************************)
(* What the arguments give                                                 *)
(***************************************************************************)
\* Hosts have the ids after the routers'; they go to routers in turn.
HostIds == (req.routers + 1) .. (req.routers + req.hosts)
HostsOf(r) ==
  LET count == (req.hosts + req.routers - r) \div req.routers
  IN  [k \in 1..count |-> req.routers + r + (k - 1) * req.routers]

\* Items with an absolute count come first, as often as it says; then all in turn.
ItemOf(r) ==
  LET counted == FoldLeft(LAMBDA s, it : s \o [k \in 1..it.abs |-> it], <<>>, req.items)
      n == Len(counted)
  IN  IF r <= n THEN counted[r] ELSE req.items[((r - n - 1) % Len(req.items)) + 1]
NoBounds == [min |-> 0, max |-> 0]
Bounds(r) == IF req.items = <<>> THEN NoBounds
             ELSE [min |-> ItemOf(r).min, max |-> ItemOf(r).max]

Mode == IF req.mode = "min" THEN "exact" ELSE req.mode

\* Switches per router of mode exact: as asked, of the first item with a number, or 1.
Target ==
  LET numbered == SelectSeq(req.items, LAMBDA it : it.edges > 0)
  IN  IF req.mode = "min" THEN 1
      ELSE IF req.target > 0 THEN req.target
      ELSE IF numbered # <<>> THEN numbered[1].edges ELSE 1

(***************************************************************************)
(* The groups of one router                                                *)
(***************************************************************************)
EveryNth_Even(hosts, i, g, n) == [k \in 1..(n \div g) |-> hosts[i + (k - 1) * g]]

\* What group i of g gets when the first n hosts are dealt to the groups in turn.
EveryNth(hosts, i, g, n) == [k \in 1..((n + g - i) \div g) |-> hosts[i + (k - 1) * g]]

\* Each group gets the minimum, lowered when there are too few hosts; the rest is dealt
\* until the groups, which fill up together, are full, eight turns a group at most; what
\* then remains joins the last group.
DistributeExactGroups(hosts, desired, b) ==
  LET g == AtLeast(desired, 1)
      n == Len(hosts)
      min == AtLeast(b.min, 1)
      seed == IF n >= g * min THEN min ELSE IF n >= g THEN 1 ELSE 0
      turns == IF b.max = 0 THEN 8 ELSE AtMost(AtLeast(b.max, min) - seed, 8)
      rest == SubSeq(hosts, g * seed + 1, n)
      dealt == AtMost(Len(rest), g * turns)
  IN  [i \in 1..g |->
         SubSeq(hosts, (i - 1) * seed + 1, i * seed) \o EveryNth(rest, i, g, dealt)
           \o (IF i = g THEN SubSeq(rest, dealt + 1, Len(rest)) ELSE <<>>)]

\* How many groups n hosts can be in.
GroupRange(n, b) ==
  LET min == IF b.min > 0 THEN b.min ELSE 2
      max == IF b.max = 0 THEN 0 ELSE AtLeast(b.max, min)
      fewest == IF max = 0 THEN 1 ELSE (n + max - 1) \div max
      most == IF min > n THEN 1 ELSE n \div min
  IN  fewest .. AtLeast(most, fewest)

\* Routers with the fewest choices first, of these those with most hosts; each takes
\* the lowest number that no earlier one has.
Candidates == {[id |-> r, hosts |-> Len(HostsOf(r)), range |-> GroupRange(Len(HostsOf(r)), Bounds(r))] :
              r \in {q \in 1..req.routers : Len(HostsOf(q)) >= 2}}
NonuniformTargets ==
  LET before(c, d) ==
        LET m == Cardinality(c.range)
            n == Cardinality(d.range)
        IN  \/ m < n
            \/ m = n /\ c.hosts > d.hosts
            \/ m = n /\ c.hosts = d.hosts /\ c.id < d.id
      lowest(S) == CHOOSE v \in S : \A w \in S : v <= w
      choose(chosen, c) ==
        LET free == c.range \ Range(chosen)
        IN  [chosen EXCEPT ![c.id] = lowest(IF free # {} THEN free ELSE c.range)]
  IN  FoldLeft(choose, [r \in 1..req.routers |-> 0], SetToSortSeq(Candidates, before))

\* The least and the most hosts of a group in mode ratio.
Hi(b) == IF b.max > 0 /\ (b.min = 0 \/ b.max >= b.min) THEN b.max ELSE 4
Lo(b) == AtMost(IF b.min > 0 THEN b.min ELSE 2, Hi(b))

(***************************************************************************)
(* The planner                                                             *)
(***************************************************************************)
Begun ==
  [router |-> 1, sizing |-> FALSE, groups |-> <<>>, rest |-> <<>>,
       switches |-> <<>>, count |-> [r \in 1..req.routers |-> 0]]

Init == req \in Requests /\ plan = Begun

\* Each group of the router gets the next switch id.
Switches(groups) ==
  [i \in 1..Len(groups) |->
     [id |-> req.routers + req.hosts + Len(plan.switches) + i,
      router |-> plan.router, hosts |-> groups[i]]]

EndsRouter(groups) ==
  plan' = [plan EXCEPT !.router = @ + 1, !.sizing = FALSE, !.groups = <<>>, !.rest = <<>>,
                       !.switches = @ \o Switches(groups),
                       !.count[plan.router] = Len(groups)]

Starts(mode) ==
  /\ plan.router <= req.routers /\ ~plan.sizing
  /\ Mode = mode
  /\ UNCHANGED req

Hosts == HostsOf(plan.router)

\* One switch takes all hosts; without hosts there is none.
PlansSingle ==
  /\ Starts("exact") /\ Target = 1
  /\ EndsRouter(IF Hosts = <<>> THEN <<>> ELSE <<Hosts>>)

PlansExact ==
  /\ Starts("exact") /\ Target > 1
  /\ EndsRouter(DistributeExactGroups(Hosts, Target, Bounds(plan.router)))

\* Other modes make no switch for fewer than two hosts.
SkipsRouter ==
  /\ \E mode \in {"nonuniform", "ratio"} : Starts(mode)
  /\ Len(Hosts) < 2
  /\ EndsRouter(<<>>)

PlansNonuniform ==
  /\ Starts("nonuniform") /\ Len(Hosts) >= 2
  /\ EndsRouter(DistributeExactGroups(Hosts, NonuniformTargets[plan.router],
                                      Bounds(plan.router)))

StartsSizing ==
  /\ Starts("ratio") /\ Len(Hosts) >= 2
  /\ plan' = [plan EXCEPT !.sizing = TRUE, !.rest = Hosts]

\* A random number of hosts goes into the next group.
PicksSize ==
  /\ plan.sizing
  /\ LET b == Bounds(plan.router) IN
       /\ Len(plan.rest) > Hi(b)
       /\ \E size \in Lo(b) .. Hi(b) :
            plan' = [plan EXCEPT !.groups = Append(@, SubSeq(plan.rest, 1, size)),
                                 !.rest = SubSeq(@, size + 1, Len(@))]
  /\ UNCHANGED req

\* What remains is a group of its own, or too small for one.
EndsSizing ==
  /\ plan.sizing
  /\ LET b == Bounds(plan.router)
         n == Len(plan.groups) IN
       /\ Len(plan.rest) <= Hi(b)
       /\ EndsRouter(IF Len(plan.rest) >= Lo(b) \/ n = 0 THEN Append(plan.groups, plan.rest)
                     ELSE [plan.groups EXCEPT ![n] = @ \o plan.rest])
  /\ UNCHANGED req

Next ==
  \/ PlansSingle \/ PlansExact \/ SkipsRouter \/ PlansNonuniform
  \/ StartsSizing \/ PicksSize \/ EndsSizing

Spec == Init /\ [][Next]_vars

-----------------------------------------------------------------------------
Planned(r) == r < plan.router
SwitchesOf(r) == {i \in DOMAIN plan.switches : plan.switches[i].router = r}
Behind(i) == plan.switches[i].hosts

\* A host is behind one switch at most, once, and that switch is its router's; the
\* hosts of a router that has switches are all behind one.
HostsInOneGroup ==
  \A r \in 1..req.routers : Planned(r) =>
    /\ \A i \in SwitchesOf(r), j \in DOMAIN plan.switches :
         \A k \in DOMAIN Behind(i), l \in DOMAIN Behind(j) :
           Behind(i)[k] = Behind(j)[l] => i = j /\ k = l
    /\ LET all == UNION {Range(Behind(i)) : i \in SwitchesOf(r)}
       IN  all = IF SwitchesOf(r) = {} THEN {} ELSE Range(HostsOf(r))
    /\ SwitchesOf(r) = {} => Len(HostsOf(r)) < 2

\* A number of switches asked for is met, with hosts to share out or without; where the
\* numbers are to differ, each is one that the bounds of the router's hosts allow.
SwitchTargetMet ==
  \A r \in 1..req.routers : Planned(r) =>
    /\ Cardinality(SwitchesOf(r)) = plan.count[r]
    /\ Mode = "exact" =>
         plan.count[r] = IF Target = 1 /\ HostsOf(r) = <<>> THEN 0 ELSE Target
    /\ Mode = "nonuniform" /\ plan.count[r] > 0 => plan.count[r] \in GroupRange(Len(HostsOf(r)), Bounds(r))

\* Groups respect the bounds of their router whenever its hosts can be grouped so
\* and the deal has turns enough; a group sized at random leaves them only when the
\* hosts that remain are too few for a group.
GroupSizesWithinBounds ==
  \A r \in 1..req.routers : Planned(r) =>
    LET b == Bounds(r)
        g == plan.count[r]
        n == Len(HostsOf(r))
        min == IF b.min > 0 THEN b.min ELSE 1
        max == IF b.max = 0 THEN n ELSE AtLeast(b.max, min)
    IN  /\ Mode # "ratio" /\ g > 1 /\ g * min <= n /\ n <= g * max /\ n <= 8 * g =>
             \A i \in SwitchesOf(r) : Len(Behind(i)) \in min..max
        /\ Mode = "ratio" /\ n >= Lo(b) =>
             /\ \A i \in SwitchesOf(r) : Len(Behind(i)) \in Lo(b) .. (Hi(b) + Lo(b) - 1)
             /\ Cardinality({i \in SwitchesOf(r) : Len(Behind(i)) > Hi(b)}) <= 1

=============================================================================
