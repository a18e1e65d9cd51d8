---------------------------- MODULE TopologyParts ----------------------------
(* A request for a topology and what has been built of it: of routers, hosts and switches, *)
(* from a preview or without one, of one switch, and of hardware that is attached.         *)

VARIABLES req, plan

Previewed == INSTANCE PreviewTopology
Built == INSTANCE TopologyBuild
Star == INSTANCE StarTopology
Hitl == INSTANCE HitlAttach
=============================================================================
