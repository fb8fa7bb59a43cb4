--------------------------- MODULE TwoSourceMerge ---------------------------
(***************************************************************************)
(* What the merging of an output port promises the controllers, without    *)
(* slots, clocks or data: at most two sources feed a port, a source that   *)
(* still sends is never dropped for another one, a newcomer is let in as   *)
(* soon as there is room, and AcCancelMerge gives the port to whoever      *)
(* sends next.                                                             *)
(***************************************************************************)
CONSTANTS Port, Source

VARIABLES
  sources,  (* the sources feeding each port                              *)
  silent,   (* those of them that have timed out and may be dropped       *)
  evicting  (* AcCancelMerge has been received for the port               *)

mergeVars == <<sources, silent, evicting>>

MergeInit ==
  /\ sources = [p \in Port |-> {}]
  /\ silent = [p \in Port |-> {}]
  /\ evicting = [p \in Port |-> FALSE]

(* Merging is limited to two sources.                                      *)
AtMostTwo(S) == \E a, b \in S : S = {a, b}

(* A newcomer joins when there is room; one that had timed out itself      *)
(* leaves with this frame and joins with its next.                         *)
Joined(p, s) ==
  IF s \notin silent[p] /\ AtMostTwo(sources[p] \cup {s}) THEN {s} ELSE {}

SourcesAfter(p, s) ==
  IF evicting[p] THEN {s} ELSE (sources[p] \ silent[p]) \cup Joined(p, s)

(* Source s sends a frame to the ports of one universe.                    *)
Feed(s, fed) ==
  /\ sources' = [p \in Port |-> IF p \in fed THEN SourcesAfter(p, s) ELSE sources[p]]
  /\ silent' = [p \in Port |-> IF p \in fed THEN {} ELSE silent[p]]
  /\ evicting' = [p \in Port |-> evicting[p] /\ p \notin fed]

(* Time passes: sources of any port may time out.                          *)
FallSilent ==
  /\ silent' \in [Port -> SUBSET Source]
  /\ \A p \in Port : silent[p] \subseteq silent'[p] /\ silent'[p] \subseteq sources[p]
  /\ UNCHANGED <<sources, evicting>>

(* AcCancelMerge, for the ports that report a merge.                       *)
Cancel(merging) ==
  /\ evicting' = [p \in Port |-> evicting[p] \/ p \in merging]
  /\ UNCHANGED <<sources, silent>>

(* A port changes its direction and forgets everything about its sources.  *)
Forget(p) ==
  /\ sources' = [sources EXCEPT ![p] = {}]
  /\ silent' = [silent EXCEPT ![p] = {}]
  /\ evicting' = [evicting EXCEPT ![p] = FALSE]

MergeNext ==
  \/ \E s \in Source, fed \in SUBSET Port : Feed(s, fed)
  \/ FallSilent
  \/ \E merging \in SUBSET Port : Cancel(merging)
  \/ \E p \in Port : Forget(p)

MergeSpec == MergeInit /\ [][MergeNext]_mergeVars
=============================================================================
