SPECIFICATION Spec
CONSTANTS
  link = link
  x86 = x86
  first = first
  second = second
  Slaves = {link, x86}
  SlaveList <- MCSlaveList
  Internal = {link}
  Overlays <- MCOverlays
  Changes = {first, second}
  Stages = {"Build", "VMTest"}
  Scenes <- MCScenes
  Projects = {"lib", "board", "tool", "chromite"}
  OverlayProjects = {"board"}
  Chromite = "chromite"
  BuildFaults <- MCBuildFaults
  TestFaults <- MCTestFaults
  MaxRounds = 2
INVARIANTS
  SeenIsReported
  SubmittedWithConsent
  RejectedForCause
  SkippedForCause
PROPERTIES
  DecidedOnce
  MasterEnds
\* The runs of the builders end.
CHECK_DEADLOCK FALSE
