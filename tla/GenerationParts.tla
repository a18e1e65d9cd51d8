-------------------------- MODULE GenerationParts --------------------------
(* A request and what has been made of it, for the generators that are        *)
(* proved about: of topologies, of traffic and its scripts, and of the rules  *)
(* that segment a topology.                                                   *)
EXTENDS TopologyParts

Flows == INSTANCE TrafficFlows
Scripts == INSTANCE PreviewScripts
Segments == INSTANCE Segmentation
============================================================================
