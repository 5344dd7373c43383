---------------------------- MODULE MCCommitQueue ----------------------------
(* Two slaves, an internal and an external one, of which the first may be    *)
(* the sanity checker, and pools of two changes that differ in what the      *)
(* blame may turn on.                                                        *)
EXTENDS CommitQueue

CONSTANTS link, x86, first, second

MCSlaveList == <<link, x86>>
MCOverlays == [s \in Slaves |-> IF s = link THEN {"private"} ELSE {"public"}]

MCChange(p, i, o, ign, b) ==
  [project |-> p, internal |-> i, overlays |-> o, ignored |-> ign, bad |-> b]
Library == MCChange("lib", FALSE, {}, {"VMTest"}, FALSE)
Private == MCChange("board", TRUE, {"private"}, {HWTest}, FALSE)
BadTool == MCChange("tool", FALSE, {}, {"VMTest", HWTest}, TRUE)
BuildTool == MCChange("chromite", FALSE, {}, {}, FALSE)

MCScene(q, c, d) ==
  [sanity |-> q, change |-> [x \in Changes |-> IF x = first THEN c ELSE d]]
MCScenes == {MCScene({}, Library, Private), MCScene({link}, Library, Private),
             MCScene({link}, BuildTool, BadTool)}

Traceback(stage, cause) == [stage |-> stage, cause |-> cause]
MCBuildFaults ==
  {{}, {Traceback("Build", "lib")}, {Traceback("Build", "infra")}}
MCTestFaults == {{}, {Traceback("VMTest", "bug")}}
=============================================================================
