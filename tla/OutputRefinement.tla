-------------------------- MODULE OutputRefinement --------------------------
(***************************************************************************)
(* The output ports implement TwoSourceMerge: the sources of a port are    *)
(* its occupied slots, the silent ones those older than MergeTimeout.      *)
(***************************************************************************)
EXTENDS OutputPort

SourceA(o) == IF o.ipA = None THEN {} ELSE {<<o.ipA, o.physicalA>>}
SourceB(o) == IF o.ipB = None THEN {} ELSE {<<o.ipB, o.physicalB>>}

SlotSources(o) == SourceA(o) \cup SourceB(o)

SilentSources(o) ==
  (IF o.ageA > MergeTimeout THEN SourceA(o) ELSE {}) \cup
  (IF o.ageB > MergeTimeout THEN SourceB(o) ELSE {})

Promise == INSTANCE TwoSourceMerge WITH
  Port <- Ports, Source <- Sources,
  sources <- [p \in Ports |-> SlotSources(out[p])],
  silent <- [p \in Ports |-> SilentSources(out[p])],
  evicting <- [p \in Ports |-> out[p].cancel_merge_pending]

(* Whatever the order of frames, timeouts, cancellations and set-ups, the  *)
(* slots of every port change only the way TwoSourceMerge allows: handle_dmx *)
(* and check_merge_timeouts drop no live source, keep out no newcomer while *)
(* there is room, and let no third source in.                              *)
MergePromise == Promise!MergeSpec
=============================================================================
