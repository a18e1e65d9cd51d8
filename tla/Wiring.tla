-------------------------------- MODULE Wiring --------------------------------
(***************************************************************************)
(* Links as the builders of topologies make them (add_link of the session, *)
(* with an Interface for each side), and the dictionaries they keep.       *)
(***************************************************************************)

\* A link maps the two nodes it joins to the interface each uses.
Ports(a, i, b, j) == [v \in {a, b} |-> IF v = a THEN i ELSE j]

\* d[key] = value
With(d, key, value) == [k \in DOMAIN d \cup {key} |-> IF k = key THEN value ELSE d[k]]
===============================================================================
