----------------------------- MODULE MCRobotRun -----------------------------
(* Two access points of AP1's name, samples of three scans of which two must   *)
(* hear them, and two alarms for the buzzer.                                   *)
EXTENDS RobotRun

MCAlarms == 1..2

\* States that differ only in values written before they are next read are one:
\* the last scan's result between samples, a pattern that is over, which of the
\* two alarms the pattern has.
SamplerView ==
  IF pc \in {"scan", "scanning"} \/ scanActive
    THEN <<pendingResult, scanId, position, here>>
    ELSE <<position = here, IF readings = <<>> THEN 0 ELSE here>>
BuzzerView ==
  IF ~playing /\ pendingAlarms = {} THEN <<tone>>
  ELSE <<cue, noteIndex, tone, playing, pendingAlarms = {alarm}>>
RobotView ==
  <<SamplerView, BuzzerView, scanOpen, samplerFailed, identity, readings, scanActive,
    pc, then, powered, reportOk, missingTries, startVars, payloadVars, blockVars, eventVars>>
=============================================================================
