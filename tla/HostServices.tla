----------------------------- MODULE HostServices -----------------------------
(***************************************************************************)
(* Services of the hosts (utils/services.py, builders/topology.py): rows   *)
(* with a count first, then those the density of the section decides, each *)
(* for hosts drawn among those it is new to; then each is added to its     *)
(* node, of a client that offers nothing but the services of node objects. *)
(*                                                                         *)
(* req: the number of hosts, the density (in quarters, above 1 a number of *)
(* hosts) and the rows with their name, metric and count.                  *)
(***************************************************************************)
EXTENDS Naturals, Sequences, SequencesExt, FiniteSets

VARIABLES req, plan

vars == <<req, plan>>

Hosts == 1..req.hosts
IsRandom(row) == row.name = "Random"
AtMost(a, b) == IF a <= b THEN a ELSE b
AtLeast(a, b) == IF a >= b THEN a ELSE b

\* round(): halves go to the even number.
Rounded(quarters) ==
  LET q == quarters \div 4
      r == quarters % 4
  IN  IF r > 2 \/ (r = 2 /\ q % 2 = 1) THEN q + 1 ELSE q

\* Without a density only rows with a count, 0 among them, pass the parser.
Parsed == SelectSeq(req.rows, LAMBDA r : r.metric = "Count" \/ req.density > 0)

\* The services a Random row draws from.
Concrete ==
  LET named == {row.name : row \in Range(SelectSeq(Parsed, LAMBDA r : ~IsRandom(r)))}
  IN  IF named = {} THEN {"SSH", "HTTP", "DHCPClient"} ELSE named

\* Rows with a count come first, and do not count against the density.
Rows == SelectSeq(Parsed, LAMBDA r : r.count > 0) \o SelectSeq(Parsed, LAMBDA r : r.count = 0)

\* How many hosts a row asks for: a count of 0 takes the place of the density.
Wanted(row) ==
  IF row.count > 0 THEN AtMost(req.hosts, row.count)
  ELSE IF row.metric = "Count" THEN 0
  ELSE IF req.density >= 4 THEN AtMost(req.hosts, Rounded(req.density))
  ELSE AtLeast(1, AtMost(req.hosts, Rounded(req.hosts * req.density)))

Begun ==
  [pc |-> "spread", k |-> 1, given |-> [h \in Hosts |-> <<>>], has |-> [h \in Hosts |-> {"DefaultRoute"}]]

Init == plan = Begun

Eligible(row) ==
  IF IsRandom(row) THEN {h \in Hosts : Concrete \ Range(plan.given[h]) # {}}
  ELSE {h \in Hosts : row.name \notin Range(plan.given[h])}

\* Which hosts the row goes to is random, preselected by its factor or not; so is the
\* service a host gets of a Random row.
SpreadsRow ==
  /\ plan.pc = "spread" /\ plan.k <= Len(Rows) /\ Hosts # {}
  /\ LET row == Rows[plan.k]
         n == AtMost(Wanted(row), Cardinality(Eligible(row))) IN
       \E chosen \in kSubset(n, Eligible(row)) :
         \E of \in [chosen -> IF IsRandom(row) THEN Concrete ELSE {row.name}] :
           /\ \A h \in chosen : of[h] \notin Range(plan.given[h])
           /\ plan' = [plan EXCEPT !.k = @ + 1, !.given =
                [h \in Hosts |-> IF h \in chosen THEN Append(@[h], of[h]) ELSE @[h]]]
  /\ UNCHANGED req

EndsSpread ==
  /\ plan.pc = "spread" /\ (plan.k > Len(Rows) \/ Hosts = {})
  /\ plan' = [plan EXCEPT !.pc = "add", !.k = 1]
  /\ UNCHANGED req

\* A host's node holds a set of services, which only grows.
AddsServices ==
  /\ plan.pc = "add" /\ plan.k <= req.hosts
  /\ plan' = [plan EXCEPT !.k = @ + 1, !.has[plan.k] = @ \cup Range(plan.given[plan.k])]
  /\ UNCHANGED req

Next == SpreadsRow \/ EndsSpread \/ AddsServices

Spec == Init /\ [][Next]_vars

-----------------------------------------------------------------------------
HostsWith(s) == {h \in Hosts : s \in Range(plan.given[h])}
WantedOf(rows) == FoldLeft(LAMBDA n, row : n + Wanted(row), 0, rows)

\* No host gets a service twice, or one that is not named; in the end each service is on as
\* many hosts as the row that asks for most of it wants, even where Random rows took some
\* of it first, and on no more than all rows that may give it; nodes have what was given.
ServicesSpread ==
  /\ \A h \in Hosts : IsInjective(plan.given[h]) /\ Range(plan.given[h]) \subseteq Concrete
  /\ plan.pc = "add" /\ Hosts # {} => \A s \in Concrete :
       LET own == SelectSeq(Rows, LAMBDA r : r.name = s)
           any == SelectSeq(Rows, LAMBDA r : r.name = s \/ IsRandom(r)) IN
         /\ \A row \in Range(own) : Cardinality(HostsWith(s)) >= Wanted(row)
         /\ Cardinality(HostsWith(s)) <= WantedOf(any)
  /\ plan.pc = "add" /\ plan.k > req.hosts =>
       \A h \in Hosts : plan.has[h] = {"DefaultRoute"} \cup Range(plan.given[h])

===============================================================================
