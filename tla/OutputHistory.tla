---------------------------- MODULE OutputHistory ---------------------------
(***************************************************************************)
(* OutputPort with a history variable, to relate a port's merge slots to   *)
(* what the controllers sent: the last level of every source of every      *)
(* universe.  The history variable never influences the node.              *)
(***************************************************************************)
EXTENDS OutputPort

VARIABLE latest (* latest[u][<<src, physical>>]: the last level of that source *)

HistoryInit ==
  /\ Init
  /\ latest = [u \in Universes |-> [s \in Sources |-> 0]]

HistoryNext ==
  \/ \E u \in Universes, f \in Frame :
       /\ HandleDmx(u, f)
       /\ latest' = [latest EXCEPT ![u][<<f.src, f.physical>>] = f.level]
  \/ /\ \/ \E h \in Hosts : HandleSync(h)
        \/ \E u \in NzsUniverses, level \in Levels : HandleNzs(u, level)
        \/ \E cmd \in Commands : HandleAddress(cmd)
        \/ NoOutputPacket
        \/ CheckTimeouts
        \/ Tick
     /\ UNCHANGED latest

HistorySpec == HistoryInit /\ [][HistoryNext]_<<vars, latest>>

(* An occupied merge slot holds the last level its source sent, so a merge *)
(* never mixes in a level its controller has since replaced, whichever     *)
(* slot a source left and came back to.                                    *)
SlotHoldsLatest ==
  \A p \in Ports :
    LET sent == latest[UniverseOf[p]]
    IN  /\ out[p].ipA # None => out[p].dataA = sent[<<out[p].ipA, out[p].physicalA>>]
        /\ out[p].ipB # None => out[p].dataB = sent[<<out[p].ipB, out[p].physicalB>>]
=============================================================================
