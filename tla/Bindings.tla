------------------------------ MODULE Bindings ------------------------------
(***************************************************************************)
(* Which agent a source is routed to.  A binding has an agent, the sources *)
(* its pattern matches, and the form of the pattern.                       *)
(***************************************************************************)
EXTENDS Integers, Sequences, FiniteSets, FiniteSetsExt

(* Binding._compute_tier: a literal, a pattern, a pattern with ".*".       *)
Tier == [literal |-> 0, pattern |-> 1, wildcard |-> 2]

(* RoutingTable.resolve, over bindings sorted by tier and then by their    *)
(* place in the configuration.                                             *)
Matching(bindings, source) == {i \in DOMAIN bindings : source \in bindings[i].matches}
AgentFor(bindings, source, default) ==
  LET matching == Matching(bindings, source)
      tier     == Min({Tier[bindings[i].form] : i \in matching})
  IN IF matching = {} THEN default
     ELSE bindings[Min({i \in matching : Tier[bindings[i].form] = tier})].agent
=============================================================================
