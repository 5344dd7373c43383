---------------------------- MODULE MCBuildSpecs ----------------------------
(* Two runs at a time: the master of a group and a builder of one of its    *)
(* names, or two runs of one builder, which may be a master or of a group.  *)
EXTENDS BuildSpecs

CONSTANTS first, second, canary, slave

MCFleet(ns, ms, m) ==
  [names |-> [b \in Builders |-> IF b = first THEN ns ELSE ms], masters |-> m]
MCFleets == {MCFleet(<<canary, slave>>, <<slave>>, {first}),
             MCFleet(<<canary>>, <<canary>>, Builders),
             MCFleet(<<canary, slave>>, <<canary, slave>>, {})}
=============================================================================
