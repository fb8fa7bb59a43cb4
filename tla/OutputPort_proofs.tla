-------------------------- MODULE OutputPort_proofs -------------------------
(***************************************************************************)
(* Theorems about OutputPort, for every number of ports, every set of      *)
(* controllers, every level range and all timeouts: its invariants and     *)
(* action properties, that it implements TwoSourceMerge, and that the      *)
(* merge slots of OutputHistory hold what their sources sent last.         *)
(***************************************************************************)
EXTENDS OutputRefinement, OutputHistory, WellFoundedInduction, TLAPS

LEMMA ConstantFacts ==
  /\ None \notin Hosts
  /\ 0 \in Physicals
  /\ MaxLevel \in Nat \ {0}
  /\ FailsafeTimeout \in Nat \ {0} /\ SyncTimeout \in Nat \ {0} /\ MergeTimeout \in Nat \ {0}
  /\ 0 \in Levels /\ MaxLevel \in Levels
  /\ Old \in Nat /\ MergeTimeout < Old
  /\ Never \notin Nat
  BY SourceAssumption, LevelAssumption, TimeoutAssumption DEF Levels, Old, Never

-----------------------------------------------------------------------------
(* Every helper of the handlers takes a well-formed port to one.           *)

LEMMA CommitType ==
  ASSUME NEW o \in PortState, NEW level \in Levels
  PROVE  CommitOutput(o, level) \in PortState
  BY DEF CommitOutput, PortState

LEMMA StageType ==
  ASSUME NEW o \in PortState, NEW level \in Levels
  PROVE  StageOutput(o, level) \in PortState
  BY DEF StageOutput, CommitOutput, PortState

LEMMA FlushType ==
  ASSUME NEW o \in PortState
  PROVE  FlushSyncOutput(o) \in PortState
<1> DEFINE t == CommitOutput(o, o.sync_data)
<1>1. t \in PortState
  BY CommitType DEF PortState
<1> HIDE DEF t
<1>2. [t EXCEPT !.sync_pending = FALSE] \in PortState
  BY <1>1 DEF PortState
<1> QED BY <1>2 DEF FlushSyncOutput, t

LEMMA MergeType ==
  ASSUME NEW o \in PortState, NEW level \in Levels
  PROVE  MergeSources(o, level) \in PortState
<1> DEFINE merged == IF o.merge_mode = "HTP" THEN Higher(o.dataA, o.dataB) ELSE level
           staged == [o EXCEPT !.sync_data = merged, !.sync_pending = TRUE]
<1>1. merged \in Levels
  BY DEF PortState, Higher
<1>2. staged \in PortState
  BY <1>1 DEF PortState
<1> HIDE DEF merged
<1>3. FlushSyncOutput(staged) \in PortState
  BY <1>2, FlushType
<1>4. MergeSources(o, level) = IF sync_mode THEN staged ELSE FlushSyncOutput(staged)
  BY DEF MergeSources, merged
<1> QED BY <1>2, <1>3, <1>4

LEMMA CheckMergeType ==
  ASSUME NEW o \in PortState
  PROVE  CheckMergeTimeouts(o) \in PortState
<1> DEFINE t == DropStaleSources(o)
           stays == t.merging /\ ~MergeEnds(o)
<1>1. t \in PortState
  BY DEF DropStaleSources, PortState
<1>2. stays \in BOOLEAN
  OBVIOUS
<1>3. CheckMergeTimeouts(o) = [t EXCEPT !.merging = stays]
  BY DEF CheckMergeTimeouts
<1> HIDE DEF t, stays
<1> QED BY <1>1, <1>2, <1>3 DEF PortState

LEMMA RefreshType ==
  ASSUME NEW o \in PortState, NEW f \in Frame
  PROVE  /\ RefreshA(o, f) \in PortState
         /\ RefreshB(o, f) \in PortState
         /\ TakeA(o, f) \in PortState
         /\ TakeB(o, f) \in PortState
<1>1. 0 \in 0 .. Old
  BY ConstantFacts
<1>2. RefreshA(o, f) \in PortState /\ RefreshB(o, f) \in PortState
  BY <1>1 DEF RefreshA, RefreshB, PortState, Frame
<1>3. TakeA(o, f) \in PortState
  BY <1>2 DEF TakeA, PortState, Frame
<1>4. TakeB(o, f) \in PortState
  BY <1>2 DEF TakeB, PortState, Frame
<1> QED BY <1>2, <1>3, <1>4

LEMMA StartMergeType ==
  ASSUME NEW o \in PortState, NEW f \in Frame
  PROVE  StartMerge(o, f) \in PortState
<1>1. MergeSources(o, f.level) \in PortState
  BY MergeType DEF Frame
<1> QED BY <1>1 DEF StartMerge, PortState

LEMMA AcceptType ==
  ASSUME NEW o \in PortState, NEW f \in Frame
  PROVE  AcceptFrame(o, f) \in PortState
<1> DEFINE t == CheckMergeTimeouts(o)
<1>1. t \in PortState
  BY CheckMergeType
<1>2. f.level \in Levels
  BY DEF Frame
<1>3. /\ StageOutput(TakeA(t, f), f.level) \in PortState
      /\ StageOutput(RefreshA(t, f), f.level) \in PortState
      /\ StageOutput(RefreshB(t, f), f.level) \in PortState
  BY <1>1, <1>2, StageType, RefreshType
<1>4. /\ StartMerge(TakeA(t, f), f) \in PortState
      /\ StartMerge(TakeB(t, f), f) \in PortState
  BY <1>1, StartMergeType, RefreshType
<1>5. /\ MergeSources(RefreshA(t, f), f.level) \in PortState
      /\ MergeSources(RefreshB(t, f), f.level) \in PortState
  BY <1>1, <1>2, MergeType, RefreshType
<1> HIDE DEF t
<1> QED BY <1>1, <1>3, <1>4, <1>5 DEF AcceptFrame, t

LEMMA CancelType ==
  ASSUME NEW o \in PortState, NEW f \in Frame
  PROVE  CancelMerge(o, f) \in PortState
<1> DEFINE t == TakeA(o, f)
           u == [t EXCEPT !.cancel_merge_pending = FALSE, !.merging = FALSE,
                          !.ipB = None, !.physicalB = 0, !.ageB = Old, !.dataB = 0]
<1>1. t \in PortState
  BY RefreshType
<1>2. 0 \in Physicals /\ 0 \in Levels /\ Old \in 0 .. Old
  BY ConstantFacts
<1>3. CancelMerge(o, f) = IF o.cancel_merge_pending THEN u ELSE o
  BY DEF CancelMerge
<1> HIDE DEF t
<1>4. u \in PortState
  BY <1>1, <1>2 DEF PortState
<1> QED BY <1>3, <1>4

LEMMA FeedType ==
  ASSUME NEW o \in PortState, NEW f \in Frame
  PROVE  FeedPort(o, f) \in PortState
<1> DEFINE seen == [o EXCEPT !.nzs = FALSE, !.last_dmx_source = f.src]
           fed == CancelMerge(AcceptFrame(seen, f), f)
<1>1. seen \in PortState
  BY DEF PortState, Frame
<1>2. fed \in PortState
  BY <1>1, AcceptType, CancelType
<1>3. FeedPort(o, f) = [fed EXCEPT !.dmxAge = 0, !.failsafe_triggered = FALSE]
  BY DEF FeedPort
<1>4. 0 \in 0 .. FailsafeTimeout
  BY ConstantFacts
<1> HIDE DEF fed
<1> QED BY <1>2, <1>3, <1>4 DEF PortState

LEMMA NzsType ==
  ASSUME NEW o \in PortState, NEW level \in Levels
  PROVE  FeedNzs(o, level) \in PortState
<1>1. CommitOutput(o, level) \in PortState
  BY CommitType
<1>2. 0 \in 0 .. FailsafeTimeout
  BY ConstantFacts
<1> QED BY <1>1, <1>2 DEF FeedNzs, PortState

LEMMA CommandedType ==
  ASSUME NEW o \in PortState, NEW cmd, NEW p
  PROVE  Commanded(cmd, p, o) \in PortState
<1>1. 0 \in Physicals /\ 0 \in Levels /\ Old \in 0 .. Old
  BY ConstantFacts
<1> DEFINE cancel == o.cancel_merge_pending \/ o.merging
<1>2. cancel \in BOOLEAN
  OBVIOUS
<1>3. [o EXCEPT !.cancel_merge_pending = cancel] \in PortState
  <2> HIDE DEF cancel
  <2> QED BY <1>2 DEF PortState
<1>4. ForgetSources(o) \in PortState
  BY <1>1 DEF ForgetSources, PortState
<1>5. /\ [o EXCEPT !.merge_mode = "LTP"] \in PortState
      /\ [o EXCEPT !.merge_mode = "HTP"] \in PortState
      /\ [o EXCEPT !.data = 0, !.length = 0] \in PortState
      /\ [o EXCEPT !.failsafe_data = o.data, !.failsafe_length = o.length] \in PortState
  BY <1>1 DEF PortState
<1> QED BY <1>3, <1>4, <1>5 DEF Commanded

LEMMA FailsafeType ==
  ASSUME NEW o \in PortState
  PROVE  Failsafe(o) \in PortState
<1>1. 0 \in Levels /\ MaxLevel \in Levels
  BY ConstantFacts
<1> QED BY <1>1 DEF Failsafe, PortState

LEMMA TimedOutType ==
  ASSUME NEW o \in PortState
  PROVE  TimedOut(o) \in PortState
  BY FailsafeType, FlushType DEF TimedOut

LEMMA OlderType ==
  ASSUME NEW cap \in Nat, NEW age \in 0 .. cap
  PROVE  Older(age, cap) \in 0 .. cap /\ age <= Older(age, cap)
  BY DEF Older

LEMMA AgedType ==
  ASSUME NEW o \in PortState
  PROVE  AgedPort(o) \in PortState
<1>1. Older(o.ageA, Old) \in 0 .. Old /\ Older(o.ageB, Old) \in 0 .. Old
  BY ConstantFacts, OlderType DEF PortState
<1>2. (IF o.dmxAge = Never THEN Never ELSE Older(o.dmxAge, FailsafeTimeout))
        \in {Never} \cup (0 .. FailsafeTimeout)
  BY ConstantFacts, OlderType DEF PortState
<1> QED BY <1>1, <1>2 DEF AgedPort, PortState
-----------------------------------------------------------------------------
(* Type correctness: however frames, synchronisation, commands and         *)
(* timeouts interleave, every port, the node's modes and the announced     *)
(* status keep their ranges.                                               *)

LEMMA InitPortType == InitPort \in PortState
  BY ConstantFacts DEF InitPort, PortState

LEMMA AnnouncedType ==
  ASSUME TypeOK, NEW f \in Frame, NEW fed \in SUBSET Ports
  PROVE  AnnouncedAfter(fed, f) \in [Ports -> BOOLEAN]
<1>1. ASSUME NEW q \in Ports
      PROVE  /\ FeedPort(out[q], f).merging \in BOOLEAN
             /\ AcceptFrame(out[q], f).merging \in BOOLEAN
             /\ out[q].merging \in BOOLEAN
  <2>1. out[q] \in PortState
    BY DEF TypeOK
  <2>2. FeedPort(out[q], f) \in PortState /\ AcceptFrame(out[q], f) \in PortState
    BY <2>1, FeedType, AcceptType
  <2> QED BY <2>1, <2>2 DEF PortState
<1>2. announced \in [Ports -> BOOLEAN]
  BY DEF TypeOK
<1> QED BY <1>1, <1>2 DEF AnnouncedAfter

LEMMA TypeStep == TypeOK /\ [Next]_vars => TypeOK'
<1> SUFFICES ASSUME TypeOK, [Next]_vars
             PROVE  TypeOK'
  OBVIOUS
<1>1. \A p \in Ports : out[p] \in PortState
  BY DEF TypeOK
<1>2. ASSUME NEW u \in Universes, NEW f \in Frame, HandleDmx(u, f)
      PROVE  TypeOK'
  <2>1. \A p \in Ports : FeedPort(out[p], f) \in PortState
    BY <1>1, FeedType
  <2>2. out' \in [Ports -> PortState]
    BY <1>1, <1>2, <2>1 DEF HandleDmx
  <2>3. announced' \in [Ports -> BOOLEAN]
    BY <1>2, AnnouncedType DEF HandleDmx, PortsOn
  <2> QED BY <1>2, <2>2, <2>3 DEF TypeOK, HandleDmx, Received
<1>3. ASSUME NEW h \in Hosts, HandleSync(h)
      PROVE  TypeOK'
  <2>1. \A p \in Ports : FlushSyncOutput(out[p]) \in PortState
    BY <1>1, FlushType
  <2>2. out' \in [Ports -> PortState]
    BY <1>1, <1>3, <2>1 DEF HandleSync
  <2>3. sync_mode' \in BOOLEAN
    BY <1>3, Zenon DEF TypeOK, HandleSync
  <2>4. syncAge' \in 0 .. SyncTimeout
    BY <1>3, ConstantFacts DEF TypeOK, HandleSync
  <2> QED BY <1>3, <2>2, <2>3, <2>4 DEF TypeOK, HandleSync, Received
<1>4. ASSUME NEW u \in NzsUniverses, NEW level \in Levels, HandleNzs(u, level)
      PROVE  TypeOK'
  <2>1. \A p \in Ports : FeedNzs(out[p], level) \in PortState
    BY <1>1, NzsType
  <2>2. out' \in [Ports -> PortState]
    BY <1>4, <2>1 DEF TypeOK, HandleNzs
  <2> QED BY <1>4, <2>2 DEF TypeOK, HandleNzs, Received
<1>5. ASSUME NEW cmd \in Commands, HandleAddress(cmd)
      PROVE  TypeOK'
  <2>1. \A p \in Ports : Commanded(cmd, p, out[p]) \in PortState
    BY <1>1, CommandedType
  <2>2. out' \in [Ports -> PortState]
    BY <1>5, <2>1 DEF HandleAddress
  <2>3. \A p \in Ports : out'[p].merging \in BOOLEAN
    BY <2>2 DEF PortState
  <2>4. announced' \in [Ports -> BOOLEAN]
    BY <1>5, <2>3 DEF HandleAddress
  <2>5. failsafe_mode' \in FailsafeModes
    BY <1>5 DEF TypeOK, HandleAddress, FailsafeModeAfter, FailsafeModes
  <2> QED BY <1>5, <2>2, <2>4, <2>5 DEF TypeOK, HandleAddress, Received
<1>6. CASE NoOutputPacket
  BY <1>6 DEF TypeOK, NoOutputPacket, Received
<1>7. CASE CheckTimeouts
  <2>1. \A p \in Ports : TimedOut(out[p]) \in PortState
    BY <1>1, TimedOutType
  <2>2. out' \in [Ports -> PortState]
    BY <1>7, <2>1 DEF CheckTimeouts
  <2>3. sync_mode' \in BOOLEAN
    BY <1>7, Zenon DEF TypeOK, CheckTimeouts
  <2> QED BY <1>7, <2>2, <2>3 DEF TypeOK, CheckTimeouts
<1>8. CASE Tick
  <2>1. \A p \in Ports : AgedPort(out[p]) \in PortState
    BY <1>1, AgedType
  <2>2. out' \in [Ports -> PortState]
    BY <1>8, <2>1 DEF Tick
  <2>3. syncAge' \in 0 .. SyncTimeout
    BY <1>8, ConstantFacts, OlderType DEF TypeOK, Tick
  <2> QED BY <1>8, <2>2, <2>3 DEF TypeOK, Tick
<1>9. CASE UNCHANGED vars
  BY <1>9 DEF TypeOK, vars
<1> QED BY <1>2, <1>3, <1>4, <1>5, <1>6, <1>7, <1>8, <1>9 DEF Next

(* Every reachable state of an output side is well-formed.                 *)
THEOREM TypeCorrect == Spec => []TypeOK
<1>1. Init => TypeOK
  <2> SUFFICES ASSUME Init PROVE TypeOK
    OBVIOUS
  <2>1. out \in [Ports -> PortState]
    BY InitPortType DEF Init
  <2>2. syncAge \in 0 .. SyncTimeout
    BY ConstantFacts DEF Init
  <2>3. sync_mode \in BOOLEAN /\ announced \in [Ports -> BOOLEAN]
    BY Zenon DEF Init
  <2> QED BY <2>1, <2>2, <2>3 DEF Init, TypeOK, FailsafeModes
<1> QED BY <1>1, TypeStep, PTL DEF Spec
-----------------------------------------------------------------------------
(* The merge slots.  Most helpers only move data: the slots, their ages    *)
(* and the merging status stay as they are.                                *)

SameSlots(o, x) ==
  /\ x.ipA = o.ipA /\ x.physicalA = o.physicalA /\ x.ageA = o.ageA
  /\ x.ipB = o.ipB /\ x.physicalB = o.physicalB /\ x.ageB = o.ageB
  /\ x.merging = o.merging /\ x.cancel_merge_pending = o.cancel_merge_pending

LEMMA DataOnly ==
  ASSUME NEW o \in PortState, NEW level \in Levels
  PROVE  /\ SameSlots(o, StageOutput(o, level))
         /\ SameSlots(o, FlushSyncOutput(o))
         /\ SameSlots(o, MergeSources(o, level))
         /\ SameSlots(o, FeedNzs(o, level))
         /\ SameSlots(o, TimedOut(o))
<1> USE DEF SameSlots, PortState
<1>1. \A q \in PortState : SameSlots(q, CommitOutput(q, q.sync_data))
  BY DEF CommitOutput
<1>2. \A q \in PortState : SameSlots(q, FlushSyncOutput(q))
  BY <1>1, CommitType DEF FlushSyncOutput, CommitOutput
<1>3. SameSlots(o, StageOutput(o, level)) /\ SameSlots(o, FeedNzs(o, level))
  BY DEF StageOutput, FeedNzs, CommitOutput
<1>4. SameSlots(o, MergeSources(o, level))
  <2> DEFINE merged == IF o.merge_mode = "HTP" THEN Higher(o.dataA, o.dataB) ELSE level
             staged == [o EXCEPT !.sync_data = merged, !.sync_pending = TRUE]
  <2>1. merged \in Levels
    BY DEF Higher
  <2>2. staged \in PortState /\ SameSlots(o, staged)
    <3> HIDE DEF merged
    <3> QED BY <2>1
  <2>3. SameSlots(staged, FlushSyncOutput(staged))
    BY <1>2, <2>2
  <2>4. MergeSources(o, level) = IF sync_mode THEN staged ELSE FlushSyncOutput(staged)
    BY DEF MergeSources
  <2> HIDE DEF staged
  <2> QED BY <2>2, <2>3, <2>4
<1>5. SameSlots(o, TimedOut(o))
  <2>1. Failsafe(o) \in PortState /\ SameSlots(o, Failsafe(o))
    BY FailsafeType DEF Failsafe
  <2> QED BY <1>2, <2>1 DEF TimedOut
<1> QED BY <1>2, <1>3, <1>4, <1>5

LEMMA CheckSlots ==
  ASSUME NEW o \in PortState
  PROVE  LET t == CheckMergeTimeouts(o)
         IN  /\ t.ipA = (IF o.ageA > MergeTimeout THEN None ELSE o.ipA)
             /\ t.ipB = (IF o.ageB > MergeTimeout THEN None ELSE o.ipB)
             /\ t.physicalA = o.physicalA /\ t.physicalB = o.physicalB
             /\ t.ageA = o.ageA /\ t.ageB = o.ageB
             /\ t.cancel_merge_pending = o.cancel_merge_pending
             /\ HasTwoSources(t) => HasTwoSources(o) /\ (t.merging <=> o.merging)
<1> DEFINE d == DropStaleSources(o)
           t == CheckMergeTimeouts(o)
<1>1. /\ d.ipA = (IF o.ageA > MergeTimeout THEN None ELSE o.ipA)
      /\ d.ipB = (IF o.ageB > MergeTimeout THEN None ELSE o.ipB)
      /\ d.physicalA = o.physicalA /\ d.physicalB = o.physicalB
      /\ d.ageA = o.ageA /\ d.ageB = o.ageB
      /\ d.cancel_merge_pending = o.cancel_merge_pending
      /\ d.merging = o.merging
      /\ d \in PortState
  <2> DEFINE a == IF o.ageA > MergeTimeout THEN None ELSE o.ipA
             b == IF o.ageB > MergeTimeout THEN None ELSE o.ipB
  <2>1. a \in Hosts \cup {None} /\ b \in Hosts \cup {None}
    BY DEF PortState
  <2>2. d = [o EXCEPT !.ipA = a, !.ipB = b]
    BY DEF DropStaleSources
  <2> HIDE DEF a, b, d
  <2>3. /\ d.ipA = a /\ d.ipB = b
        /\ d.physicalA = o.physicalA /\ d.physicalB = o.physicalB
        /\ d.ageA = o.ageA /\ d.ageB = o.ageB
        /\ d.cancel_merge_pending = o.cancel_merge_pending /\ d.merging = o.merging
    BY <2>2 DEF PortState
  <2>4. d \in PortState
    BY <2>1, <2>2 DEF PortState
  <2> QED BY <2>3, <2>4 DEF a, b
<1> HIDE DEF d
<1>2. /\ t.ipA = d.ipA /\ t.ipB = d.ipB
      /\ t.physicalA = d.physicalA /\ t.physicalB = d.physicalB
      /\ t.ageA = d.ageA /\ t.ageB = d.ageB
      /\ t.cancel_merge_pending = d.cancel_merge_pending
      /\ t.merging = (d.merging /\ ~MergeEnds(o))
  BY <1>1 DEF CheckMergeTimeouts, d, PortState
<1>3. HasTwoSources(t) => HasTwoSources(o) /\ HasTwoSources(d)
  BY <1>1, <1>2 DEF HasTwoSources
<1>4. HasTwoSources(d) => ~MergeEnds(o)
  BY DEF MergeEnds, d
<1> QED BY <1>1, <1>2, <1>3, <1>4

(* handle_dmx, seen from the slots alone.                                  *)
LEMMA AcceptCases ==
  ASSUME NEW o \in PortState, NEW f \in Frame
  PROVE  LET t == CheckMergeTimeouts(o)
             x == AcceptFrame(o, f)
         IN  \/ /\ o.ipA = None /\ o.ipB = None
                /\ SameSlots(TakeA(t, f), x)
             \/ /\ FromA(o, f) /\ o.ipB = None
                /\ SameSlots(RefreshA(t, f), x)
             \/ /\ o.ipA = None /\ FromB(o, f)
                /\ SameSlots(RefreshB(t, f), x)
             \/ /\ MergeStartsInB(o, f)
                /\ SameSlots([TakeB(t, f) EXCEPT !.merging = TRUE], x)
             \/ /\ MergeStartsInA(o, f)
                /\ SameSlots([TakeA(t, f) EXCEPT !.merging = TRUE], x)
             \/ /\ HasTwoSources(o) /\ FromA(o, f) /\ ~FromB(o, f)
                /\ SameSlots(RefreshA(t, f), x)
             \/ /\ HasTwoSources(o) /\ FromB(o, f) /\ ~FromA(o, f)
                /\ SameSlots(RefreshB(t, f), x)
             \/ /\ HasTwoSources(o) /\ (FromA(o, f) <=> FromB(o, f))
                /\ x = t
<1> DEFINE t == CheckMergeTimeouts(o)
           x == AcceptFrame(o, f)
<1>1. t \in PortState /\ f.level \in Levels /\ f.src # None
  BY CheckMergeType, ConstantFacts DEF Frame
<1>2. /\ TakeA(t, f) \in PortState /\ TakeB(t, f) \in PortState
      /\ RefreshA(t, f) \in PortState /\ RefreshB(t, f) \in PortState
  BY <1>1, RefreshType
<1>3. \A q \in PortState :
        /\ SameSlots(q, StageOutput(q, f.level))
        /\ SameSlots(q, MergeSources(q, f.level))
        /\ SameSlots([q EXCEPT !.merging = TRUE], StartMerge(q, f))
  <2> TAKE q \in PortState
  <2>1. /\ SameSlots(q, StageOutput(q, f.level))
        /\ SameSlots(q, MergeSources(q, f.level))
        /\ MergeSources(q, f.level) \in PortState
    BY <1>1, DataOnly, MergeType
  <2> QED BY <2>1 DEF StartMerge, SameSlots, PortState
<1>4. ~FromA(o, f) \/ o.ipA # None
  BY <1>1 DEF FromA
<1>5. ~FromB(o, f) \/ o.ipB # None
  BY <1>1 DEF FromB
<1> HIDE DEF t
<1>6. x = CASE o.ipA = None /\ o.ipB = None -> StageOutput(TakeA(t, f), f.level)
            [] FromA(o, f) /\ o.ipB = None  -> StageOutput(RefreshA(t, f), f.level)
            [] o.ipA = None /\ FromB(o, f)  -> StageOutput(RefreshB(t, f), f.level)
            [] MergeStartsInB(o, f)         -> StartMerge(TakeB(t, f), f)
            [] MergeStartsInA(o, f)         -> StartMerge(TakeA(t, f), f)
            [] HasTwoSources(o) /\ FromA(o, f) /\ ~FromB(o, f) ->
                 MergeSources(RefreshA(t, f), f.level)
            [] HasTwoSources(o) /\ FromB(o, f) /\ ~FromA(o, f) ->
                 MergeSources(RefreshB(t, f), f.level)
            [] OTHER -> t
  BY DEF AcceptFrame, t
<1> HIDE DEF x
<1> QED BY <1>2, <1>3, <1>4, <1>5, <1>6
        DEF MergeStartsInA, MergeStartsInB, HasTwoSources, t, x
-----------------------------------------------------------------------------
(* Two occupied slots hold different sources and are flagged as merging.   *)
(* With TypeOK this is inductive: check_merge_timeouts may empty a slot    *)
(* handle_dmx still believes occupied, never the other way round.          *)

SlotsSafe(o) ==
  HasTwoSources(o) =>
    /\ <<o.ipA, o.physicalA>> # <<o.ipB, o.physicalB>>
    /\ o.merging

LEMMA SameSlotsSafe ==
  ASSUME NEW o \in PortState, NEW x \in PortState, SameSlots(o, x), SlotsSafe(o)
  PROVE  SlotsSafe(x)
  BY DEF SameSlots, SlotsSafe, HasTwoSources

LEMMA AcceptSafe ==
  ASSUME NEW o \in PortState, NEW f \in Frame, SlotsSafe(o)
  PROVE  SlotsSafe(AcceptFrame(o, f))
<1> DEFINE t == CheckMergeTimeouts(o)
           x == AcceptFrame(o, f)
<1>1. t \in PortState
  BY CheckMergeType
<1>2. /\ t.ipA \in {None, o.ipA} /\ t.ipB \in {None, o.ipB}
      /\ t.physicalA = o.physicalA /\ t.physicalB = o.physicalB
      /\ HasTwoSources(t) => HasTwoSources(o) /\ (t.merging <=> o.merging)
  BY CheckSlots
<1>3. SlotsSafe(t)
  BY <1>2 DEF SlotsSafe, HasTwoSources
<1> HIDE DEF t
<1>4. /\ SlotsSafe(RefreshA(t, f)) /\ SlotsSafe(RefreshB(t, f))
  BY <1>1, <1>3 DEF SlotsSafe, HasTwoSources, RefreshA, RefreshB, PortState
<1>5. CASE o.ipA = None /\ o.ipB = None /\ SameSlots(TakeA(t, f), x)
  BY <1>1, <1>2, <1>5
     DEF SlotsSafe, HasTwoSources, SameSlots, TakeA, RefreshA, PortState
<1>6. CASE SameSlots(RefreshA(t, f), x) \/ SameSlots(RefreshB(t, f), x)
  BY <1>4, <1>6 DEF SlotsSafe, HasTwoSources, SameSlots
<1>7. CASE MergeStartsInB(o, f) /\ SameSlots([TakeB(t, f) EXCEPT !.merging = TRUE], x)
  BY <1>1, <1>2, <1>7
     DEF SlotsSafe, HasTwoSources, SameSlots, TakeB, RefreshB, MergeStartsInB, FromA, PortState
<1>8. CASE MergeStartsInA(o, f) /\ SameSlots([TakeA(t, f) EXCEPT !.merging = TRUE], x)
  BY <1>1, <1>2, <1>8
     DEF SlotsSafe, HasTwoSources, SameSlots, TakeA, RefreshA, MergeStartsInA, FromB, PortState
<1>9. CASE x = t
  BY <1>3, <1>9
<1> HIDE DEF x
<1> QED BY <1>5, <1>6, <1>7, <1>8, <1>9, AcceptCases DEF t, x

LEMMA CancelSafe ==
  ASSUME NEW o \in PortState, NEW f \in Frame, SlotsSafe(o)
  PROVE  SlotsSafe(CancelMerge(o, f))
<1>1. TakeA(o, f) \in PortState
  BY RefreshType
<1> QED BY <1>1 DEF CancelMerge, SlotsSafe, HasTwoSources, PortState

LEMMA FeedSafe ==
  ASSUME NEW o \in PortState, NEW f \in Frame, SlotsSafe(o)
  PROVE  SlotsSafe(FeedPort(o, f))
<1> DEFINE seen == [o EXCEPT !.nzs = FALSE, !.last_dmx_source = f.src]
           fed == CancelMerge(AcceptFrame(seen, f), f)
<1>1. seen \in PortState /\ SameSlots(o, seen)
  BY DEF PortState, Frame, SameSlots
<1>2. SlotsSafe(seen)
  BY <1>1, SameSlotsSafe
<1>3. fed \in PortState /\ SlotsSafe(fed)
  BY <1>1, <1>2, AcceptType, AcceptSafe, CancelType, CancelSafe
<1>4. FeedPort(o, f) = [fed EXCEPT !.dmxAge = 0, !.failsafe_triggered = FALSE]
  BY DEF FeedPort
<1> HIDE DEF fed
<1> QED BY <1>3, <1>4 DEF SlotsSafe, HasTwoSources, PortState

LEMMA OtherStepsSafe ==
  ASSUME NEW o \in PortState, SlotsSafe(o), NEW level \in Levels, NEW cmd, NEW p
  PROVE  /\ SlotsSafe(FlushSyncOutput(o))
         /\ SlotsSafe(FeedNzs(o, level))
         /\ SlotsSafe(TimedOut(o))
         /\ SlotsSafe(Commanded(cmd, p, o))
         /\ SlotsSafe(AgedPort(o))
<1>1. SlotsSafe(FlushSyncOutput(o)) /\ SlotsSafe(FeedNzs(o, level)) /\ SlotsSafe(TimedOut(o))
  BY DataOnly, SameSlotsSafe, FlushType, NzsType, TimedOutType
<1>2. SlotsSafe(Commanded(cmd, p, o))
  <2> DEFINE cancel == o.cancel_merge_pending \/ o.merging
  <2>1. SlotsSafe([o EXCEPT !.cancel_merge_pending = cancel])
    <3> HIDE DEF cancel
    <3> QED BY DEF SlotsSafe, HasTwoSources, PortState
  <2>2. SlotsSafe(ForgetSources(o))
    BY DEF ForgetSources, SlotsSafe, HasTwoSources, PortState
  <2>3. /\ SlotsSafe([o EXCEPT !.merge_mode = "LTP"])
        /\ SlotsSafe([o EXCEPT !.merge_mode = "HTP"])
        /\ SlotsSafe([o EXCEPT !.data = 0, !.length = 0])
        /\ SlotsSafe([o EXCEPT !.failsafe_data = o.data, !.failsafe_length = o.length])
    BY DEF SlotsSafe, HasTwoSources, PortState
  <2> QED BY <2>1, <2>2, <2>3 DEF Commanded
<1>3. SlotsSafe(AgedPort(o))
  BY DEF AgedPort, SlotsSafe, HasTwoSources, PortState
<1> QED BY <1>1, <1>2, <1>3

AllSlotsSafe == \A p \in Ports : SlotsSafe(out[p])

LEMMA SlotsStep == TypeOK /\ AllSlotsSafe /\ [Next]_vars => AllSlotsSafe'
<1> SUFFICES ASSUME TypeOK, AllSlotsSafe, [Next]_vars, NEW p \in Ports
             PROVE  SlotsSafe(out'[p])
  BY DEF AllSlotsSafe
<1>1. out[p] \in PortState /\ SlotsSafe(out[p])
  BY DEF TypeOK, AllSlotsSafe
<1>2. ASSUME NEW u \in Universes, NEW f \in Frame, HandleDmx(u, f)
      PROVE  SlotsSafe(out'[p])
  BY <1>1, <1>2, FeedSafe DEF HandleDmx
<1>3. ASSUME NEW h \in Hosts, HandleSync(h)
      PROVE  SlotsSafe(out'[p])
  BY <1>1, <1>3, OtherStepsSafe, ConstantFacts DEF HandleSync
<1>4. ASSUME NEW u \in NzsUniverses, NEW level \in Levels, HandleNzs(u, level)
      PROVE  SlotsSafe(out'[p])
  BY <1>1, <1>4, OtherStepsSafe DEF HandleNzs, TypeOK
<1>5. ASSUME NEW cmd \in Commands, HandleAddress(cmd)
      PROVE  SlotsSafe(out'[p])
  BY <1>1, <1>5, OtherStepsSafe, ConstantFacts DEF HandleAddress
<1>6. CASE CheckTimeouts
  BY <1>1, <1>6, OtherStepsSafe, ConstantFacts DEF CheckTimeouts
<1>7. CASE Tick
  BY <1>1, <1>7, OtherStepsSafe, ConstantFacts DEF Tick
<1>8. CASE NoOutputPacket \/ UNCHANGED vars
  BY <1>1, <1>8 DEF NoOutputPacket, vars
<1> QED BY <1>2, <1>3, <1>4, <1>5, <1>6, <1>7, <1>8 DEF Next

LEMMA SlotsInvariant == Spec => []AllSlotsSafe
<1>1. Init => AllSlotsSafe
  BY DEF Init, InitPort, AllSlotsSafe, SlotsSafe, HasTwoSources
<1> QED BY <1>1, SlotsStep, TypeCorrect, PTL DEF Spec

(* No controller is ever merged with itself.                               *)
THEOREM NeverMergedWithItself == Spec => []SourcesDistinct
<1>1. AllSlotsSafe => SourcesDistinct
  BY DEF AllSlotsSafe, SlotsSafe, SourcesDistinct
<1> QED BY <1>1, SlotsInvariant, PTL

(* Every port with two sources says so in its merging status, whatever     *)
(* stale flags and cancellations came before.                              *)
THEOREM TwoSourcesFlagged == Spec => []DualSourceFlagged
<1>1. AllSlotsSafe => DualSourceFlagged
  BY DEF AllSlotsSafe, SlotsSafe, DualSourceFlagged
<1> QED BY <1>1, SlotsInvariant, PTL
-----------------------------------------------------------------------------
(* Outside synchronous mode no helper leaves a frame in the buffer.        *)

LEMMA AcceptUnbuffered ==
  ASSUME NEW o \in PortState, NEW f \in Frame, ~sync_mode, ~o.sync_pending
  PROVE  ~AcceptFrame(o, f).sync_pending
<1> DEFINE t == CheckMergeTimeouts(o)
<1>1. t \in PortState /\ ~t.sync_pending /\ f.level \in Levels
  <2>1. CheckMergeTimeouts(o).sync_pending = o.sync_pending
    BY DEF CheckMergeTimeouts, DropStaleSources, PortState
  <2> QED BY <2>1, CheckMergeType DEF Frame
<1> HIDE DEF t
<1>2. \A q \in PortState : ~q.sync_pending => ~StageOutput(q, f.level).sync_pending
  BY DEF StageOutput, CommitOutput, PortState
<1>3. \A q \in PortState : ~FlushSyncOutput(q).sync_pending
  BY CommitType DEF FlushSyncOutput, CommitOutput, PortState
<1>4. \A q \in PortState : ~MergeSources(q, f.level).sync_pending
  <2> TAKE q \in PortState
  <2> DEFINE merged == IF q.merge_mode = "HTP" THEN Higher(q.dataA, q.dataB) ELSE f.level
             staged == [q EXCEPT !.sync_data = merged, !.sync_pending = TRUE]
  <2>1. merged \in Levels
    BY <1>1 DEF Higher, PortState
  <2>2. staged \in PortState
    <3> HIDE DEF merged
    <3> QED BY <2>1 DEF PortState
  <2>3. MergeSources(q, f.level) = FlushSyncOutput(staged)
    BY DEF MergeSources
  <2> HIDE DEF staged
  <2> QED BY <1>3, <2>2, <2>3
<1>5. \A q \in PortState : ~StartMerge(q, f).sync_pending
  BY <1>1, <1>4, MergeType DEF StartMerge, PortState
<1>6. /\ TakeA(t, f) \in PortState /\ ~TakeA(t, f).sync_pending
      /\ TakeB(t, f) \in PortState
      /\ RefreshA(t, f) \in PortState /\ ~RefreshA(t, f).sync_pending
      /\ RefreshB(t, f) \in PortState /\ ~RefreshB(t, f).sync_pending
  <2>1. /\ TakeA(t, f) \in PortState /\ TakeB(t, f) \in PortState
        /\ RefreshA(t, f) \in PortState /\ RefreshB(t, f) \in PortState
    BY <1>1, RefreshType
  <2>2. ~RefreshA(t, f).sync_pending /\ ~RefreshB(t, f).sync_pending
    BY <1>1 DEF RefreshA, RefreshB, PortState
  <2>3. ~TakeA(t, f).sync_pending
    BY <2>1, <2>2 DEF TakeA, PortState
  <2> QED BY <2>1, <2>2, <2>3
<1> QED BY <1>1, <1>2, <1>4, <1>5, <1>6 DEF AcceptFrame, t

LEMMA FeedUnbuffered ==
  ASSUME NEW o \in PortState, NEW f \in Frame, ~sync_mode, ~o.sync_pending
  PROVE  ~FeedPort(o, f).sync_pending
<1> DEFINE seen == [o EXCEPT !.nzs = FALSE, !.last_dmx_source = f.src]
           got == AcceptFrame(seen, f)
           fed == CancelMerge(got, f)
<1>1. seen \in PortState /\ ~seen.sync_pending
  BY DEF PortState, Frame
<1>2. got \in PortState /\ ~got.sync_pending
  BY <1>1, AcceptType, AcceptUnbuffered
<1>3. fed \in PortState
  BY <1>2, CancelType
<1> HIDE DEF got
<1>4. ~fed.sync_pending
  <2>1. TakeA(got, f) \in PortState /\ ~TakeA(got, f).sync_pending
    <3>1. RefreshA(got, f) \in PortState /\ TakeA(got, f) \in PortState
      BY <1>2, RefreshType
    <3>2. RefreshA(got, f).sync_pending = got.sync_pending
      BY <1>2 DEF RefreshA, PortState
    <3>3. TakeA(got, f).sync_pending = RefreshA(got, f).sync_pending
      BY <3>1 DEF TakeA, PortState
    <3> QED BY <1>2, <3>1, <3>2, <3>3
  <2> QED BY <1>2, <2>1 DEF CancelMerge, PortState
<1>5. FeedPort(o, f) = [fed EXCEPT !.dmxAge = 0, !.failsafe_triggered = FALSE]
  BY DEF FeedPort, got
<1> HIDE DEF fed
<1> QED BY <1>3, <1>4, <1>5 DEF PortState

LEMMA StagedStep == TypeOK /\ StagedOnlyInSyncMode /\ [Next]_vars => StagedOnlyInSyncMode'
<1> SUFFICES ASSUME TypeOK, StagedOnlyInSyncMode, [Next]_vars, NEW p \in Ports,
                    out'[p].sync_pending, ~sync_mode'
             PROVE  FALSE
  BY DEF StagedOnlyInSyncMode
<1>1. out[p] \in PortState /\ (out[p].sync_pending => sync_mode)
  BY DEF TypeOK, StagedOnlyInSyncMode
<1>2. ASSUME NEW u \in Universes, NEW f \in Frame, HandleDmx(u, f)
      PROVE  FALSE
  BY <1>1, <1>2, FeedUnbuffered DEF HandleDmx
<1>3. ASSUME NEW h \in Hosts, HandleSync(h)
      PROVE  FALSE
  <2>1. ~sync_mode /\ ~AcceptsSync(out[p], h)
    BY <1>3 DEF HandleSync
  <2>2. out'[p] = out[p]
    BY <1>3, <2>1 DEF HandleSync
  <2> QED BY <1>1, <2>1, <2>2
<1>4. ASSUME NEW u \in NzsUniverses, NEW level \in Levels, HandleNzs(u, level)
      PROVE  FALSE
  <2>1. FeedNzs(out[p], level).sync_pending = out[p].sync_pending
    BY <1>1 DEF FeedNzs, CommitOutput, PortState
  <2>2. out'[p] \in {out[p], FeedNzs(out[p], level)}
    BY <1>4 DEF HandleNzs, TypeOK
  <2> QED BY <1>1, <1>4, <2>1, <2>2 DEF HandleNzs
<1>5. ASSUME NEW cmd \in Commands, HandleAddress(cmd)
      PROVE  FALSE
  <2>1. Commanded(cmd, p, out[p]).sync_pending = out[p].sync_pending
    BY <1>1 DEF Commanded, ForgetSources, PortState
  <2> QED BY <1>1, <1>5, <2>1 DEF HandleAddress
<1>6. CASE CheckTimeouts
  <2>1. out'[p] = TimedOut(out[p])
    BY <1>6 DEF CheckTimeouts
  <2>2. CASE SyncExpired
    <3>1. \A q \in PortState : ~FlushSyncOutput(q).sync_pending
      BY CommitType DEF FlushSyncOutput, CommitOutput, PortState
    <3> QED BY <1>1, <2>1, <2>2, <3>1, FailsafeType DEF TimedOut
  <2>3. CASE ~SyncExpired
    <3>1. TimedOut(out[p]).sync_pending = out[p].sync_pending
      BY <1>1, <2>3 DEF TimedOut, Failsafe, PortState
    <3> QED BY <1>1, <1>6, <2>1, <2>3, <3>1 DEF CheckTimeouts
  <2> QED BY <2>2, <2>3
<1>7. CASE Tick
  <2>1. AgedPort(out[p]).sync_pending = out[p].sync_pending
    BY <1>1 DEF AgedPort, PortState
  <2> QED BY <1>1, <1>7, <2>1 DEF Tick
<1>8. CASE NoOutputPacket \/ UNCHANGED vars
  BY <1>1, <1>8 DEF NoOutputPacket, vars
<1> QED BY <1>2, <1>3, <1>4, <1>5, <1>6, <1>7, <1>8 DEF Next

(* Leaving synchronous mode never strands a buffered frame.                *)
THEOREM NoFrameStranded == Spec => []StagedOnlyInSyncMode
<1>1. Init => StagedOnlyInSyncMode
  BY DEF Init, InitPort, StagedOnlyInSyncMode
<1> QED BY <1>1, StagedStep, TypeCorrect, PTL DEF Spec
-----------------------------------------------------------------------------
(* Two live sources.                                                       *)

SameSources(o, x) ==
  /\ x.ipA = o.ipA /\ x.physicalA = o.physicalA
  /\ x.ipB = o.ipB /\ x.physicalB = o.physicalB

LEMMA FeedKeepsLive ==
  ASSUME NEW o \in PortState, NEW f \in Frame, LiveSlots(o), ~o.cancel_merge_pending
  PROVE  SameSources(o, FeedPort(o, f))
<1> DEFINE seen == [o EXCEPT !.nzs = FALSE, !.last_dmx_source = f.src]
           t == CheckMergeTimeouts(seen)
           got == AcceptFrame(seen, f)
<1>1. seen \in PortState /\ SameSlots(o, seen)
  BY DEF PortState, Frame, SameSlots
<1>2. t \in PortState /\ got \in PortState
  BY <1>1, CheckMergeType, AcceptType
<1>3. /\ SameSources(o, t) /\ ~t.cancel_merge_pending
      /\ seen.ipA # None /\ seen.ipB # None
  <2>1. ~(seen.ageA > MergeTimeout) /\ ~(seen.ageB > MergeTimeout)
    BY <1>1, ConstantFacts DEF SameSlots, LiveSlots, PortState
  <2>2. SameSources(seen, t) /\ (t.cancel_merge_pending <=> seen.cancel_merge_pending)
    BY <1>1, <2>1, CheckSlots DEF SameSources
  <2> QED BY <1>1, <2>2 DEF SameSlots, SameSources, LiveSlots, HasTwoSources
<1>4. \/ SameSlots(RefreshA(t, f), got)
      \/ SameSlots(RefreshB(t, f), got)
      \/ got = t
  BY <1>1, <1>3, AcceptCases DEF MergeStartsInA, MergeStartsInB
<1> HIDE DEF t, got
<1>5. SameSources(o, got) /\ ~got.cancel_merge_pending
  BY <1>2, <1>3, <1>4 DEF SameSlots, SameSources, RefreshA, RefreshB, PortState
<1>6. FeedPort(o, f) = [got EXCEPT !.dmxAge = 0, !.failsafe_triggered = FALSE]
  BY <1>5 DEF FeedPort, CancelMerge, got
<1> QED BY <1>2, <1>5, <1>6 DEF SameSources, PortState

LEMMA LiveStep ==
  ASSUME TypeOK, Next, NEW p \in Ports, LiveSlots(out[p]), ~out[p].cancel_merge_pending
  PROVE  \/ SameSources(out[p], out'[p])
         \/ out'[p].ipA = None /\ out'[p].ipB = None
<1>1. out[p] \in PortState
  BY DEF TypeOK
<1>2. ASSUME NEW u \in Universes, NEW f \in Frame, HandleDmx(u, f)
      PROVE  SameSources(out[p], out'[p])
  BY <1>1, <1>2, FeedKeepsLive DEF HandleDmx, SameSources
<1>3. \A x : SameSlots(out[p], x) => SameSources(out[p], x)
  BY DEF SameSlots, SameSources
<1>4. ASSUME NEW h \in Hosts, HandleSync(h)
      PROVE  SameSources(out[p], out'[p])
  BY <1>1, <1>3, <1>4, DataOnly, ConstantFacts DEF HandleSync, SameSources
<1>5. ASSUME NEW u \in NzsUniverses, NEW level \in Levels, HandleNzs(u, level)
      PROVE  SameSources(out[p], out'[p])
  BY <1>1, <1>3, <1>5, DataOnly DEF HandleNzs, SameSources, TypeOK
<1>6. ASSUME NEW cmd \in Commands, HandleAddress(cmd)
      PROVE  \/ SameSources(out[p], out'[p])
             \/ out'[p].ipA = None /\ out'[p].ipB = None
  <2>1. \/ SameSources(out[p], Commanded(cmd, p, out[p]))
        \/ /\ Commanded(cmd, p, out[p]).ipA = None
           /\ Commanded(cmd, p, out[p]).ipB = None
    BY <1>1 DEF Commanded, ForgetSources, SameSources, PortState
  <2> QED BY <1>6, <2>1 DEF HandleAddress
<1>7. CASE CheckTimeouts
  BY <1>1, <1>3, <1>7, DataOnly, ConstantFacts DEF CheckTimeouts
<1>8. CASE Tick
  BY <1>1, <1>8 DEF Tick, AgedPort, SameSources, PortState
<1>9. CASE NoOutputPacket
  BY <1>9 DEF NoOutputPacket, SameSources
<1> QED BY <1>2, <1>4, <1>5, <1>6, <1>7, <1>8, <1>9 DEF Next

(* Two live sources keep a port against any third one, in every            *)
(* interleaving of frames, timeouts and synchronisation.                   *)
THEOREM LiveSourcesStay == Spec => LiveSourcesKept
<1>1. TypeOK /\ [Next]_vars =>
        [\A p \in Ports :
           LiveSlots(out[p]) /\ ~out[p].cancel_merge_pending =>
             \/ /\ out'[p].ipA = out[p].ipA /\ out'[p].physicalA = out[p].physicalA
                /\ out'[p].ipB = out[p].ipB /\ out'[p].physicalB = out[p].physicalB
             \/ out'[p].ipA = None /\ out'[p].ipB = None]_vars
  BY LiveStep DEF SameSources
<1> QED BY <1>1, TypeCorrect, PTL DEF Spec, LiveSourcesKept
-----------------------------------------------------------------------------
(* The fail-safe level.                                                    *)

(* A port in fail-safe with nothing buffered, after a step that leaves it  *)
(* without data: only the clear command has changed its output.            *)
LEMMA FailsafeStep ==
  ASSUME TypeOK, Next, NEW p \in Ports,
         out[p].failsafe_triggered, ~out[p].sync_pending,
         out'[p].dmxAge >= FailsafeTimeout
  PROVE  out'[p].data = out[p].data \/ out'[p].length = 0
<1>1. out[p] \in PortState
  BY DEF TypeOK
<1>2. ASSUME NEW u \in Universes, NEW f \in Frame, HandleDmx(u, f)
      PROVE  out'[p] = out[p]
  <2>1. FeedPort(out[p], f).dmxAge = 0
    <3> DEFINE got == CancelMerge(AcceptFrame([out[p] EXCEPT !.nzs = FALSE,
                                                             !.last_dmx_source = f.src], f), f)
    <3>1. [out[p] EXCEPT !.nzs = FALSE, !.last_dmx_source = f.src] \in PortState
      BY <1>1 DEF PortState, Frame
    <3>2. got \in PortState
      BY <3>1, AcceptType, CancelType
    <3>3. FeedPort(out[p], f) = [got EXCEPT !.dmxAge = 0, !.failsafe_triggered = FALSE]
      BY DEF FeedPort
    <3> HIDE DEF got
    <3> QED BY <3>2, <3>3 DEF PortState
  <2>2. out'[p] \in {out[p], FeedPort(out[p], f)}
    BY <1>2 DEF HandleDmx
  <2> QED BY <2>1, <2>2, TimeoutAssumption
<1>3. ASSUME NEW h \in Hosts, HandleSync(h)
      PROVE  out'[p] = out[p]
  BY <1>3 DEF HandleSync, FlushSyncOutput
<1>4. ASSUME NEW u \in NzsUniverses, NEW level \in Levels, HandleNzs(u, level)
      PROVE  out'[p] = out[p]
  <2>1. FeedNzs(out[p], level).dmxAge = 0
    BY <1>1 DEF FeedNzs, CommitOutput, PortState
  <2>2. out'[p] \in {out[p], FeedNzs(out[p], level)}
    BY <1>4 DEF HandleNzs, TypeOK
  <2> QED BY <2>1, <2>2, TimeoutAssumption
<1>5. ASSUME NEW cmd \in Commands, HandleAddress(cmd)
      PROVE  out'[p].data = out[p].data \/ out'[p].length = 0
  <2>1. \/ Commanded(cmd, p, out[p]).data = out[p].data
        \/ Commanded(cmd, p, out[p]).length = 0
    BY <1>1 DEF Commanded, ForgetSources, PortState
  <2> QED BY <1>5, <2>1 DEF HandleAddress
<1>6. CASE CheckTimeouts
  BY <1>6 DEF CheckTimeouts, TimedOut, FailsafeDue, FlushSyncOutput
<1>7. CASE Tick
  BY <1>1, <1>7 DEF Tick, AgedPort, PortState
<1>8. CASE NoOutputPacket
  BY <1>8 DEF NoOutputPacket
<1> QED BY <1>2, <1>3, <1>4, <1>5, <1>6, <1>7, <1>8 DEF Next

(* The fail-safe level is applied once per loss: whatever is reprogrammed  *)
(* meanwhile, check_timeouts does not change the output again.             *)
THEOREM FailsafeAppliedOnce == Spec => FailsafeHeld
<1>1. TypeOK /\ [Next]_vars =>
        [\A p \in Ports :
           /\ out[p].failsafe_triggered /\ ~out[p].sync_pending
           /\ out'[p].dmxAge >= FailsafeTimeout
           => out'[p].data = out[p].data \/ out'[p].length = 0]_vars
  BY FailsafeStep
<1> QED BY <1>1, TypeCorrect, PTL DEF Spec, FailsafeHeld
-----------------------------------------------------------------------------
(* Synchronous mode.                                                       *)

LEMMA AcceptHolds ==
  ASSUME NEW o \in PortState, NEW f \in Frame, sync_mode
  PROVE  AcceptFrame(o, f).data = o.data
<1> DEFINE t == CheckMergeTimeouts(o)
<1>1. t \in PortState /\ t.data = o.data
  <2>1. CheckMergeTimeouts(o).data = o.data
    BY DEF CheckMergeTimeouts, DropStaleSources, PortState
  <2> QED BY <2>1, CheckMergeType
<1> HIDE DEF t
<1>2. \A q \in PortState : /\ StageOutput(q, f.level).data = q.data
                          /\ MergeSources(q, f.level).data = q.data
                          /\ StartMerge(q, f).data = q.data
  <2> TAKE q \in PortState
  <2>1. StageOutput(q, f.level).data = q.data
    BY DEF StageOutput, PortState
  <2>2. MergeSources(q, f.level).data = q.data
    <3> DEFINE merged == IF q.merge_mode = "HTP" THEN Higher(q.dataA, q.dataB) ELSE f.level
    <3>1. MergeSources(q, f.level) = [q EXCEPT !.sync_data = merged, !.sync_pending = TRUE]
      BY DEF MergeSources
    <3> HIDE DEF merged
    <3> QED BY <3>1 DEF PortState
  <2>3. MergeSources(q, f.level) \in PortState
    BY MergeType DEF Frame
  <2>4. StartMerge(q, f).data = MergeSources(q, f.level).data
    BY <2>3 DEF StartMerge, PortState
  <2> QED BY <2>1, <2>2, <2>4
<1>3. /\ TakeA(t, f) \in PortState /\ TakeB(t, f) \in PortState
      /\ RefreshA(t, f) \in PortState /\ RefreshB(t, f) \in PortState
  BY <1>1, RefreshType
<1>4. RefreshA(t, f).data = o.data /\ RefreshB(t, f).data = o.data
  BY <1>1 DEF RefreshA, RefreshB, PortState
<1>5. TakeA(t, f).data = o.data /\ TakeB(t, f).data = o.data
  BY <1>3, <1>4 DEF TakeA, TakeB, PortState
<1> QED BY <1>1, <1>2, <1>3, <1>4, <1>5 DEF AcceptFrame, t

LEMMA FeedHolds ==
  ASSUME NEW o \in PortState, NEW f \in Frame, sync_mode
  PROVE  FeedPort(o, f).data = o.data
<1> DEFINE seen == [o EXCEPT !.nzs = FALSE, !.last_dmx_source = f.src]
           got == AcceptFrame(seen, f)
           fed == CancelMerge(got, f)
<1>1. seen \in PortState /\ seen.data = o.data
  BY DEF PortState, Frame
<1>2. got \in PortState /\ got.data = o.data
  BY <1>1, AcceptType, AcceptHolds
<1> HIDE DEF got
<1>3. fed \in PortState /\ fed.data = o.data
  <2>1. fed \in PortState /\ TakeA(got, f) \in PortState
    BY <1>2, CancelType, RefreshType
  <2>2. RefreshA(got, f).data = o.data /\ RefreshA(got, f) \in PortState
    BY <1>2, RefreshType DEF RefreshA, PortState
  <2>3. TakeA(got, f).data = o.data
    BY <2>2 DEF TakeA, PortState
  <2> QED BY <1>2, <2>1, <2>3 DEF CancelMerge, PortState
<1>4. FeedPort(o, f) = [fed EXCEPT !.dmxAge = 0, !.failsafe_triggered = FALSE]
  BY DEF FeedPort, got
<1> HIDE DEF fed
<1> QED BY <1>3, <1>4 DEF PortState

(* Flushing is what outputs a buffered frame.                              *)
LEMMA FlushOutputs ==
  ASSUME NEW o \in PortState
  PROVE  /\ FlushSyncOutput(o).data # o.data =>
              o.sync_pending /\ ~FlushSyncOutput(o).sync_pending
         /\ FlushSyncOutput(o).failsafe_triggered = o.failsafe_triggered
<1>1. CommitOutput(o, o.sync_data) \in PortState
  BY CommitType DEF PortState
<1>2. CommitOutput(o, o.sync_data).failsafe_triggered = o.failsafe_triggered
  BY DEF CommitOutput, PortState
<1> QED BY <1>1, <1>2 DEF FlushSyncOutput, PortState

OutputMoves(o, x) ==
  \/ o.sync_pending /\ ~x.sync_pending
  \/ x.nzs
  \/ x.failsafe_triggered /\ ~o.failsafe_triggered
  \/ x.length = 0

LEMMA SyncStep ==
  ASSUME TypeOK, Next, NEW p \in Ports, sync_mode, out'[p].data # out[p].data
  PROVE  OutputMoves(out[p], out'[p])
<1>1. out[p] \in PortState
  BY DEF TypeOK
<1>2. ASSUME NEW u \in Universes, NEW f \in Frame, HandleDmx(u, f)
      PROVE  FALSE
  BY <1>1, <1>2, FeedHolds DEF HandleDmx
<1>3. ASSUME NEW h \in Hosts, HandleSync(h)
      PROVE  OutputMoves(out[p], out'[p])
  BY <1>1, <1>3, FlushOutputs DEF HandleSync, OutputMoves
<1>4. ASSUME NEW u \in NzsUniverses, NEW level \in Levels, HandleNzs(u, level)
      PROVE  out'[p].nzs
  <2>1. FeedNzs(out[p], level).nzs
    <3>1. CommitOutput(out[p], level) \in PortState
      BY <1>1, CommitType
    <3> QED BY <3>1 DEF FeedNzs, PortState
  <2>2. out'[p] \in {out[p], FeedNzs(out[p], level)}
    BY <1>4 DEF HandleNzs, TypeOK
  <2> QED BY <2>1, <2>2
<1>5. ASSUME NEW cmd \in Commands, HandleAddress(cmd)
      PROVE  out'[p].length = 0
  <2>1. \/ Commanded(cmd, p, out[p]).data = out[p].data
        \/ Commanded(cmd, p, out[p]).length = 0
    BY <1>1 DEF Commanded, ForgetSources, PortState
  <2> QED BY <1>5, <2>1 DEF HandleAddress
<1>6. ASSUME CheckTimeouts
      PROVE  OutputMoves(out[p], out'[p])
  <2>1. out'[p] = TimedOut(out[p])
    BY <1>6 DEF CheckTimeouts
  <2>2. Failsafe(out[p]) \in PortState /\ Failsafe(out[p]).failsafe_triggered
    BY <1>1, FailsafeType DEF Failsafe, PortState
  <2>3. CASE FailsafeDue(out[p])
    <3>1. out'[p].failsafe_triggered
      BY <2>1, <2>2, <2>3, FlushOutputs DEF TimedOut
    <3> QED BY <2>3, <3>1 DEF OutputMoves, FailsafeDue
  <2>4. CASE ~FailsafeDue(out[p])
    BY <1>1, <2>1, <2>4, FlushOutputs DEF TimedOut, OutputMoves
  <2> QED BY <2>3, <2>4
<1>7. ASSUME Tick
      PROVE  FALSE
  BY <1>1, <1>7 DEF Tick, AgedPort, PortState
<1>8. ASSUME NoOutputPacket
      PROVE  FALSE
  BY <1>8 DEF NoOutputPacket
<1> QED BY <1>2, <1>3, <1>4, <1>5, <1>6, <1>7, <1>8 DEF Next, OutputMoves

(* handle_dmx in synchronous mode: no frame, merged or not, reaches a      *)
(* port's output by itself.                                                *)
THEOREM OutputWaitsForSync == Spec => SyncHoldsOutput
<1>1. TypeOK /\ [Next]_vars =>
        [\A p \in Ports :
           sync_mode /\ out'[p].data # out[p].data =>
             \/ out[p].sync_pending /\ ~out'[p].sync_pending
             \/ out'[p].nzs
             \/ out'[p].failsafe_triggered /\ ~out[p].failsafe_triggered
             \/ out'[p].length = 0]_vars
  BY SyncStep DEF OutputMoves
<1> QED BY <1>1, TypeCorrect, PTL DEF Spec, SyncHoldsOutput
-----------------------------------------------------------------------------
(* The merging bit of ArtPollReply.                                        *)

LEMMA CheckMerging ==
  ASSUME NEW o \in PortState
  PROVE  CheckMergeTimeouts(o).merging <=> o.merging /\ ~MergeEnds(o)
<1> DEFINE d == DropStaleSources(o)
<1>1. d \in PortState /\ d.merging = o.merging
  BY DEF DropStaleSources, PortState
<1>2. CheckMergeTimeouts(o) = [d EXCEPT !.merging = d.merging /\ ~MergeEnds(o)]
  BY DEF CheckMergeTimeouts
<1> HIDE DEF d
<1> QED BY <1>1, <1>2 DEF PortState

(* A frame starts a merge, or leaves one going that has not ended.         *)
LEMMA AcceptMerging ==
  ASSUME NEW o \in PortState, NEW f \in Frame
  PROVE  AcceptFrame(o, f).merging <=>
           MergeStartsInA(o, f) \/ MergeStartsInB(o, f) \/ (o.merging /\ ~MergeEnds(o))
<1> DEFINE t == CheckMergeTimeouts(o)
           x == AcceptFrame(o, f)
<1>1. t \in PortState /\ (t.merging <=> o.merging /\ ~MergeEnds(o))
  BY CheckMergeType, CheckMerging
<1> HIDE DEF t
<1>2. /\ RefreshA(t, f) \in PortState /\ RefreshB(t, f) \in PortState
      /\ TakeA(t, f) \in PortState /\ TakeB(t, f) \in PortState
  BY <1>1, RefreshType
<1>3. /\ RefreshA(t, f).merging = t.merging /\ RefreshB(t, f).merging = t.merging
      /\ TakeA(t, f).merging = t.merging
  BY <1>1, <1>2 DEF RefreshA, RefreshB, TakeA, PortState
<1>4. /\ [TakeA(t, f) EXCEPT !.merging = TRUE].merging
      /\ [TakeB(t, f) EXCEPT !.merging = TRUE].merging
  BY <1>2 DEF PortState
<1>5. \A q : SameSlots(q, x) => (x.merging <=> q.merging)
  BY DEF SameSlots
<1>6. f.src # None
  BY ConstantFacts DEF Frame
<1>7. /\ FromA(o, f) => o.ipA # None
      /\ FromB(o, f) => o.ipB # None
  BY <1>6 DEF FromA, FromB
<1> HIDE DEF x
<1>8. \/ MergeStartsInB(o, f) /\ SameSlots([TakeB(t, f) EXCEPT !.merging = TRUE], x)
      \/ MergeStartsInA(o, f) /\ SameSlots([TakeA(t, f) EXCEPT !.merging = TRUE], x)
      \/ /\ ~MergeStartsInA(o, f) /\ ~MergeStartsInB(o, f)
         /\ \/ SameSlots(TakeA(t, f), x)
            \/ SameSlots(RefreshA(t, f), x)
            \/ SameSlots(RefreshB(t, f), x)
            \/ x = t
  BY <1>7, AcceptCases, Zenon DEF t, x, MergeStartsInA, MergeStartsInB, HasTwoSources
<1>9. CASE MergeStartsInA(o, f) \/ MergeStartsInB(o, f)
  <2>1. x.merging
    BY <1>4, <1>5, <1>8, <1>9, Zenon
  <2> QED BY <1>9, <2>1 DEF x
<1>10. CASE ~MergeStartsInA(o, f) /\ ~MergeStartsInB(o, f)
  <2>1. x.merging <=> t.merging
    BY <1>3, <1>5, <1>8, <1>10
  <2> QED BY <1>1, <1>10, <2>1 DEF x
<1> QED BY <1>9, <1>10

(* handle_dmx for one port: it merges afterwards only if it did, or if     *)
(* this frame starts a merge; and the reply sent from within reports it.   *)
LEMMA FeedMerging ==
  ASSUME NEW o \in PortState, NEW f \in Frame, FeedPort(o, f).merging
  PROVE  /\ AcceptFrame(o, f).merging
         /\ o.merging \/ MergeStartsInA(o, f) \/ MergeStartsInB(o, f)
<1> DEFINE seen == [o EXCEPT !.nzs = FALSE, !.last_dmx_source = f.src]
           got == AcceptFrame(seen, f)
           fed == CancelMerge(got, f)
<1>1. seen \in PortState /\ SameSlots(o, seen)
  BY DEF PortState, Frame, SameSlots
<1>2. got \in PortState
  BY <1>1, AcceptType
<1>3. got.merging <=> AcceptFrame(o, f).merging
  <2>1. MergeEnds(seen) <=> MergeEnds(o)
    <3>1. DropStaleSources(seen).ipA = DropStaleSources(o).ipA
          /\ DropStaleSources(seen).ipB = DropStaleSources(o).ipB
      BY <1>1 DEF DropStaleSources, SameSlots, PortState
    <3> HIDE DEF seen
    <3> QED BY <1>1, <3>1 DEF MergeEnds, HasTwoSources, SameSlots
  <2>2. /\ MergeStartsInA(seen, f) <=> MergeStartsInA(o, f)
        /\ MergeStartsInB(seen, f) <=> MergeStartsInB(o, f)
        /\ seen.merging <=> o.merging
    <3> HIDE DEF seen
    <3> QED BY <1>1 DEF MergeStartsInA, MergeStartsInB, FromA, FromB, SameSlots
  <2> HIDE DEF seen
  <2> QED BY <1>1, <2>1, <2>2, AcceptMerging
<1> HIDE DEF got
<1>4. fed \in PortState /\ (fed.merging => got.merging)
  <2>1. TakeA(got, f) \in PortState /\ fed \in PortState
    BY <1>2, RefreshType, CancelType
  <2> QED BY <2>1 DEF CancelMerge, PortState
<1>5. FeedPort(o, f) = [fed EXCEPT !.dmxAge = 0, !.failsafe_triggered = FALSE]
  BY DEF FeedPort, got
<1> HIDE DEF fed
<1>6. got.merging
  BY <1>4, <1>5 DEF PortState
<1> QED BY <1>3, <1>6, AcceptMerging

(* A set of ports has a last one.                                          *)
LEMMA LeastNat ==
  ASSUME NEW T \in SUBSET Nat, T # {}
  PROVE  \E n \in T : \A m \in T : n <= m
<1>1. PICK n \in T : \A m \in T : <<m, n>> \notin OpToRel(<, Nat)
  BY WFMin, NatLessThanWellFounded, Zenon
<1>2. \A m \in T : ~(m < n)
  BY <1>1, Zenon DEF OpToRel
<1> QED BY <1>2

LEMMA LastPort ==
  ASSUME NEW S \in SUBSET Ports, S # {}
  PROVE  \E p \in S : \A q \in S : q <= p
<1> DEFINE T == {n \in Nat : PortCount - n \in S}
<1>1. \A p \in S : PortCount - p \in T /\ p \in Nat
  BY PortAssumption DEF Ports
<1>2. PICK n \in T : \A m \in T : n <= m
  BY <1>1, LeastNat
<1>3. ASSUME NEW q \in S
      PROVE  q <= PortCount - n
  <2>1. n <= PortCount - q
    BY <1>1, <1>2
  <2>2. n \in Int /\ q \in Int /\ PortCount \in Int
    BY <1>1, <1>2, PortAssumption
  <2> HIDE DEF T
  <2> QED BY <2>1, <2>2
<1> QED BY <1>2, <1>3

LEMMA AnnouncedStep ==
  TypeOK /\ MergesAnnounced /\ [Next]_vars => MergesAnnounced'
<1> SUFFICES ASSUME TypeOK, MergesAnnounced, [Next]_vars, ReplyOnChange, NEW p \in Ports,
                    out'[p].merging
             PROVE  announced'[p]
  BY DEF MergesAnnounced
<1>1. /\ out[p] \in PortState
      /\ out[p].merging => announced[p]
  BY DEF TypeOK, MergesAnnounced
<1>2. ASSUME NEW u \in Universes, NEW f \in Frame, HandleDmx(u, f)
      PROVE  announced'[p]
  <2> DEFINE fed == PortsOn(u)
             senders == {q \in fed : Announces(out[q], f)}
  <2>1. /\ out'[p] = IF p \in fed THEN FeedPort(out[p], f) ELSE out[p]
        /\ announced' = AnnouncedAfter(fed, f)
        /\ senders \in SUBSET Ports
    BY <1>2 DEF HandleDmx, PortsOn
  <2>2. p \in fed => /\ AcceptFrame(out[p], f).merging
                     /\ out[p].merging \/ p \in senders
    BY <1>1, <2>1, FeedMerging DEF Announces
  <2> HIDE DEF senders, fed
  <2>3. CASE senders = {}
    BY <1>1, <2>1, <2>2, <2>3 DEF AnnouncedAfter, senders
  <2>4. CASE senders # {}
    <3> DEFINE last == CHOOSE q \in senders : \A r \in senders : r <= q
    <3>1. last \in senders /\ \A r \in senders : r <= last
      BY <2>1, <2>4, LastPort
    <3>2. AnnouncedAfter(fed, f)
          = [q \in Ports |-> IF q \in fed /\ q < last THEN FeedPort(out[q], f).merging
                             ELSE IF q = last THEN AcceptFrame(out[q], f).merging
                             ELSE out[q].merging]
      BY <2>4 DEF AnnouncedAfter, senders
    <3> HIDE DEF last
    <3>3. announced'[p] = IF p \in fed /\ p < last THEN FeedPort(out[p], f).merging
                          ELSE IF p = last THEN AcceptFrame(out[p], f).merging
                          ELSE out[p].merging
      BY <2>1, <3>2
    <3>4. last \in fed /\ last \in Int /\ p \in Int
      BY <2>1, <3>1 DEF senders, Ports
    <3>5. CASE p \notin fed
      BY <2>1, <3>3, <3>4, <3>5
    <3>6. CASE p \in fed /\ p < last
      BY <2>1, <3>3, <3>6
    <3>7. CASE p = last
      BY <2>2, <3>3, <3>4, <3>7
    <3>8. CASE p \in fed /\ p > last
      BY <2>2, <3>1, <3>3, <3>4, <3>8
    <3> QED BY <3>4, <3>5, <3>6, <3>7, <3>8
  <2> QED BY <2>3, <2>4
<1>3. ASSUME NEW cmd \in Commands, HandleAddress(cmd)
      PROVE  announced'[p]
  BY <1>3 DEF HandleAddress
<1>4. ASSUME UNCHANGED announced, SameSlots(out[p], out'[p]) \/ out'[p] = out[p]
      PROVE  announced'[p]
  BY <1>1, <1>4 DEF SameSlots
<1>5. ASSUME NEW h \in Hosts, HandleSync(h)
      PROVE  announced'[p]
  BY <1>1, <1>4, <1>5, DataOnly, ConstantFacts DEF HandleSync
<1>6. ASSUME NEW u \in NzsUniverses, NEW level \in Levels, HandleNzs(u, level)
      PROVE  announced'[p]
  BY <1>1, <1>4, <1>6, DataOnly DEF HandleNzs, TypeOK
<1>7. CASE CheckTimeouts
  BY <1>1, <1>4, <1>7, DataOnly, ConstantFacts DEF CheckTimeouts
<1>8. CASE Tick
  <2>1. AgedPort(out[p]).merging = out[p].merging
    BY <1>1 DEF AgedPort, PortState
  <2> QED BY <1>1, <1>8, <2>1 DEF Tick
<1>9. CASE NoOutputPacket \/ UNCHANGED vars
  BY <1>1, <1>9 DEF NoOutputPacket, vars
<1> QED BY <1>2, <1>3, <1>5, <1>6, <1>7, <1>8, <1>9 DEF Next

(* handle_poll and handle_dmx: while controllers asked to be told of       *)
(* changes, a merging port has been reported as merging, although the      *)
(* reply of one port leaves before the ports after it are fed.             *)
THEOREM MergingIsAnnounced == Spec => []MergesAnnounced
<1>1. Init => MergesAnnounced
  BY DEF Init, InitPort, MergesAnnounced
<1> QED BY <1>1, AnnouncedStep, TypeCorrect, PTL DEF Spec

-----------------------------------------------------------------------------
(* OutputPort implements TwoSourceMerge.                                   *)

LEMMA AtMostTwoFacts ==
  ASSUME NEW a, NEW b, NEW c
  PROVE  /\ Promise!AtMostTwo({a})
         /\ Promise!AtMostTwo({a, b})
         /\ a # b /\ b # c /\ a # c => ~Promise!AtMostTwo({a, b, c})
<1>1. Promise!AtMostTwo({a}) /\ Promise!AtMostTwo({a, b})
  BY DEF Promise!AtMostTwo
<1>2. ASSUME a # b, b # c, a # c, Promise!AtMostTwo({a, b, c})
      PROVE  FALSE
  <2>1. PICK u, v \in {a, b, c} : {a, b, c} = {u, v}
    BY <1>2 DEF Promise!AtMostTwo
  <2> QED BY <1>2, <2>1
<1> QED BY <1>1, <1>2

(* The sources of a port after a frame, without and with cancellation.     *)
Pair(f) == <<f.src, f.physical>>

Kept(o) == SlotSources(o) \ SilentSources(o)

Newcomer(o, s) ==
  IF s \notin SilentSources(o) /\ Promise!AtMostTwo(SlotSources(o) \cup {s})
  THEN {s} ELSE {}

LEMMA SameSlotsSources ==
  ASSUME NEW o, NEW x, SameSlots(o, x)
  PROVE  SlotSources(x) = SlotSources(o) /\ SilentSources(x) = SilentSources(o)
  BY DEF SameSlots, SlotSources, SilentSources, SourceA, SourceB

LEMMA AcceptSources ==
  ASSUME NEW o \in PortState, NEW f \in Frame, SlotsSafe(o)
  PROVE  /\ SlotSources(AcceptFrame(o, f)) = Kept(o) \cup Newcomer(o, Pair(f))
         /\ SilentSources(AcceptFrame(o, f)) = {}
         /\ AcceptFrame(o, f).cancel_merge_pending = o.cancel_merge_pending
<1> DEFINE t == CheckMergeTimeouts(o)
           x == AcceptFrame(o, f)
           a == <<o.ipA, o.physicalA>>
           b == <<o.ipB, o.physicalB>>
           s == Pair(f)
           oldA == o.ageA > MergeTimeout
           oldB == o.ageB > MergeTimeout
<1>1. t \in PortState /\ f.src # None /\ f.src \in Hosts /\ f.physical \in Physicals
  BY CheckMergeType, ConstantFacts DEF Frame
<1>2. /\ t.ipA = (IF oldA THEN None ELSE o.ipA)
      /\ t.ipB = (IF oldB THEN None ELSE o.ipB)
      /\ t.physicalA = o.physicalA /\ t.physicalB = o.physicalB
      /\ t.ageA = o.ageA /\ t.ageB = o.ageB
      /\ t.cancel_merge_pending = o.cancel_merge_pending
  BY CheckSlots
<1>3. (FromA(o, f) <=> a = s) /\ (FromB(o, f) <=> b = s)
  BY DEF FromA, FromB, Pair
<1>4. HasTwoSources(o) => a # b
  BY DEF SlotsSafe
<1>5. ~(0 > MergeTimeout)
  BY ConstantFacts
<1> HIDE DEF t
<1>6. /\ t.ipA # None /\ ~oldA => <<t.ipA, t.physicalA>> = a
      /\ t.ipB # None /\ ~oldB => <<t.ipB, t.physicalB>> = b
  BY <1>2
<1>7. ASSUME NEW y, SameSlots(y, x)
      PROVE  /\ SlotSources(x) = SlotSources(y) /\ SilentSources(x) = SilentSources(y)
             /\ x.cancel_merge_pending = y.cancel_merge_pending
  BY <1>7, SameSlotsSources DEF SameSlots
<1>8. /\ SourceA(t) = (IF oldA THEN {} ELSE SourceA(o))
      /\ SourceB(t) = (IF oldB THEN {} ELSE SourceB(o))
  BY <1>2 DEF SourceA, SourceB
<1>9. /\ SourceA(TakeA(t, f)) = {s}
      /\ SourceB(TakeA(t, f)) = SourceB(t)
      /\ TakeA(t, f).ageA = 0 /\ TakeA(t, f).ageB = o.ageB
      /\ TakeA(t, f).cancel_merge_pending = o.cancel_merge_pending
  BY <1>1, <1>2 DEF TakeA, RefreshA, SourceA, SourceB, Pair, PortState
<1>10. /\ SourceB(TakeB(t, f)) = {s}
       /\ SourceA(TakeB(t, f)) = SourceA(t)
       /\ TakeB(t, f).ageB = 0 /\ TakeB(t, f).ageA = o.ageA
       /\ TakeB(t, f).cancel_merge_pending = o.cancel_merge_pending
  BY <1>1, <1>2 DEF TakeB, RefreshB, SourceA, SourceB, Pair, PortState
<1>11. /\ SourceA(RefreshA(t, f)) = SourceA(t) /\ SourceB(RefreshA(t, f)) = SourceB(t)
       /\ RefreshA(t, f).ageA = 0 /\ RefreshA(t, f).ageB = o.ageB
       /\ RefreshA(t, f).cancel_merge_pending = o.cancel_merge_pending
  BY <1>1, <1>2 DEF RefreshA, SourceA, SourceB, PortState
<1>12. /\ SourceA(RefreshB(t, f)) = SourceA(t) /\ SourceB(RefreshB(t, f)) = SourceB(t)
       /\ RefreshB(t, f).ageB = 0 /\ RefreshB(t, f).ageA = o.ageA
       /\ RefreshB(t, f).cancel_merge_pending = o.cancel_merge_pending
  BY <1>1, <1>2 DEF RefreshB, SourceA, SourceB, PortState
<1>13. ASSUME NEW q \in PortState
       PROVE  SameSlots([q EXCEPT !.merging = TRUE], x) =>
                /\ SlotSources(x) = SlotSources(q) /\ SilentSources(x) = SilentSources(q)
                /\ x.cancel_merge_pending = q.cancel_merge_pending
  BY DEF SameSlots, SlotSources, SilentSources, SourceA, SourceB, PortState
<1>14. /\ TakeA(t, f) \in PortState /\ TakeB(t, f) \in PortState
  BY <1>1, RefreshType
<1> HIDE DEF x, a, b, s, oldA, oldB
<1>15. /\ SourceA(o) = (IF o.ipA = None THEN {} ELSE {a})
       /\ SourceB(o) = (IF o.ipB = None THEN {} ELSE {b})
  BY DEF SourceA, SourceB, a, b
<1>16. SilentSources(o) = (IF oldA THEN SourceA(o) ELSE {}) \cup (IF oldB THEN SourceB(o) ELSE {})
  BY DEF SilentSources, oldA, oldB
<1>17. \A y : /\ y.ageA = 0 /\ y.ageB = o.ageB
              /\ SourceB(y) = (IF oldB THEN {} ELSE SourceB(o))
              => SilentSources(y) = {}
  BY <1>5 DEF SilentSources, oldB
<1>18. \A y : /\ y.ageB = 0 /\ y.ageA = o.ageA
              /\ SourceA(y) = (IF oldA THEN {} ELSE SourceA(o))
              => SilentSources(y) = {}
  BY <1>5 DEF SilentSources, oldA
<1>19. SilentSources(t) = {}
  BY <1>2, <1>8 DEF SilentSources, oldA, oldB
<1>20. /\ SilentSources(TakeA(t, f)) = {} /\ SilentSources(TakeB(t, f)) = {}
       /\ SilentSources(RefreshA(t, f)) = {} /\ SilentSources(RefreshB(t, f)) = {}
  BY <1>8, <1>9, <1>10, <1>11, <1>12, <1>17, <1>18
<1>21. CASE o.ipA = None /\ o.ipB = None /\ SameSlots(TakeA(t, f), x)
  <2>1. SlotSources(o) = {} /\ SilentSources(o) = {} /\ SourceB(t) = {}
    BY <1>8, <1>15, <1>16, <1>21 DEF SlotSources
  <2>2. Kept(o) = {} /\ Newcomer(o, s) = {s}
    <3>1. SlotSources(o) \cup {s} = {s}
      BY <2>1
    <3>2. Promise!AtMostTwo(SlotSources(o) \cup {s})
      BY <3>1, AtMostTwoFacts
    <3> QED BY <2>1, <3>2 DEF Kept, Newcomer
  <2>3. SlotSources(TakeA(t, f)) = {s}
    BY <1>9, <2>1 DEF SlotSources
  <2> QED BY <1>7, <1>9, <1>20, <1>21, <2>2, <2>3 DEF x, s
<1>22. CASE FromA(o, f) /\ o.ipB = None /\ SameSlots(RefreshA(t, f), x)
  <2>1. a = s /\ o.ipA # None
    BY <1>1, <1>3, <1>22 DEF FromA, a, s
  <2>2. /\ SlotSources(o) = {s} /\ SilentSources(o) = (IF oldA THEN {s} ELSE {})
        /\ SlotSources(t) = (IF oldA THEN {} ELSE {s})
    BY <1>8, <1>15, <1>16, <1>22, <2>1 DEF SlotSources
  <2>3. Kept(o) \cup Newcomer(o, s) = (IF oldA THEN {} ELSE {s})
    BY <2>2, AtMostTwoFacts DEF Kept, Newcomer
  <2>4. SlotSources(RefreshA(t, f)) = SlotSources(t)
    BY <1>11 DEF SlotSources
  <2> QED BY <1>7, <1>11, <1>20, <1>22, <2>2, <2>3, <2>4 DEF x, s
<1>23. CASE o.ipA = None /\ FromB(o, f) /\ SameSlots(RefreshB(t, f), x)
  <2>1. b = s /\ o.ipB # None
    BY <1>1, <1>3, <1>23 DEF FromB, b, s
  <2>2. /\ SlotSources(o) = {s} /\ SilentSources(o) = (IF oldB THEN {s} ELSE {})
        /\ SlotSources(t) = (IF oldB THEN {} ELSE {s})
    BY <1>8, <1>15, <1>16, <1>23, <2>1 DEF SlotSources
  <2>3. Kept(o) \cup Newcomer(o, s) = (IF oldB THEN {} ELSE {s})
    BY <2>2, AtMostTwoFacts DEF Kept, Newcomer
  <2>4. SlotSources(RefreshB(t, f)) = SlotSources(t)
    BY <1>12 DEF SlotSources
  <2> QED BY <1>7, <1>12, <1>20, <1>23, <2>2, <2>3, <2>4 DEF x, s
<1>24. CASE MergeStartsInB(o, f) /\ SameSlots([TakeB(t, f) EXCEPT !.merging = TRUE], x)
  <2>1. a # s /\ o.ipA # None /\ o.ipB = None
    BY <1>3, <1>24 DEF MergeStartsInB, a, s
  <2>2. /\ SlotSources(o) = {a} /\ SilentSources(o) = (IF oldA THEN {a} ELSE {})
        /\ SourceA(t) = (IF oldA THEN {} ELSE {a})
    BY <1>8, <1>15, <1>16, <2>1 DEF SlotSources
  <2>3. Promise!AtMostTwo(SlotSources(o) \cup {s}) /\ s \notin SilentSources(o)
    <3>1. SlotSources(o) \cup {s} = {a, s}
      BY <2>2
    <3> QED BY <2>1, <2>2, <3>1, AtMostTwoFacts
  <2>4. Newcomer(o, s) = {s} /\ Kept(o) = (IF oldA THEN {} ELSE {a})
    BY <2>2, <2>3 DEF Kept, Newcomer
  <2>5. SlotSources(TakeB(t, f)) = (IF oldA THEN {} ELSE {a}) \cup {s}
    BY <1>10, <2>2 DEF SlotSources
  <2> QED BY <1>10, <1>13, <1>14, <1>20, <1>24, <2>4, <2>5 DEF x, s
<1>25. CASE MergeStartsInA(o, f) /\ SameSlots([TakeA(t, f) EXCEPT !.merging = TRUE], x)
  <2>1. b # s /\ o.ipB # None /\ o.ipA = None
    BY <1>3, <1>25 DEF MergeStartsInA, b, s
  <2>2. /\ SlotSources(o) = {b} /\ SilentSources(o) = (IF oldB THEN {b} ELSE {})
        /\ SourceB(t) = (IF oldB THEN {} ELSE {b})
    BY <1>8, <1>15, <1>16, <2>1 DEF SlotSources
  <2>3. Promise!AtMostTwo(SlotSources(o) \cup {s}) /\ s \notin SilentSources(o)
    <3>1. SlotSources(o) \cup {s} = {b, s}
      BY <2>2
    <3> QED BY <2>1, <2>2, <3>1, AtMostTwoFacts
  <2>4. Newcomer(o, s) = {s} /\ Kept(o) = (IF oldB THEN {} ELSE {b})
    BY <2>2, <2>3 DEF Kept, Newcomer
  <2>5. SlotSources(TakeA(t, f)) = (IF oldB THEN {} ELSE {b}) \cup {s}
    BY <1>9, <2>2 DEF SlotSources
  <2> QED BY <1>9, <1>13, <1>14, <1>20, <1>25, <2>4, <2>5 DEF x, s
<1>26. CASE HasTwoSources(o) /\ (\/ SameSlots(RefreshA(t, f), x)
                               \/ SameSlots(RefreshB(t, f), x)
                               \/ x = t)
  <2>1. /\ SlotSources(o) = {a, b} /\ a # b
        /\ SilentSources(o) = (IF oldA THEN {a} ELSE {}) \cup (IF oldB THEN {b} ELSE {})
        /\ SlotSources(t) = {a, b} \ SilentSources(o)
    BY <1>4, <1>8, <1>15, <1>16, <1>26 DEF SlotSources, HasTwoSources
  <2>2. SlotSources(x) = SlotSources(t) /\ SilentSources(x) = {}
    BY <1>7, <1>11, <1>12, <1>19, <1>20, <1>26 DEF SlotSources
  <2>3. x.cancel_merge_pending = o.cancel_merge_pending
    BY <1>2, <1>7, <1>11, <1>12, <1>26
  <2>4. CASE s \in {a, b}
    <3>1. {a, b} \cup {s} = {a, b}
      BY <2>4
    <3>2. Newcomer(o, s) \subseteq Kept(o)
      BY <2>1, <2>4, <3>1, AtMostTwoFacts DEF Newcomer, Kept
    <3> QED BY <2>1, <2>2, <2>3, <3>2 DEF Kept, x, s
  <2>5. CASE s \notin {a, b}
    <3>1. SlotSources(o) \cup {s} = {a, b, s} /\ a # s /\ b # s
      BY <2>1, <2>5
    <3>2. Newcomer(o, s) = {}
      <4>1. ~Promise!AtMostTwo({a, b, s})
        BY <2>1, <3>1, AtMostTwoFacts
      <4> QED BY <3>1, <4>1 DEF Newcomer
    <3> QED BY <2>1, <2>2, <2>3, <3>2 DEF Kept, x, s
  <2> QED BY <2>4, <2>5
<1>27. \/ /\ o.ipA = None /\ o.ipB = None
          /\ SameSlots(TakeA(t, f), x)
       \/ /\ FromA(o, f) /\ o.ipB = None
          /\ SameSlots(RefreshA(t, f), x)
       \/ /\ o.ipA = None /\ FromB(o, f)
          /\ SameSlots(RefreshB(t, f), x)
       \/ /\ MergeStartsInB(o, f)
          /\ SameSlots([TakeB(t, f) EXCEPT !.merging = TRUE], x)
       \/ /\ MergeStartsInA(o, f)
          /\ SameSlots([TakeA(t, f) EXCEPT !.merging = TRUE], x)
       \/ /\ HasTwoSources(o) /\ FromA(o, f) /\ ~FromB(o, f)
          /\ SameSlots(RefreshA(t, f), x)
       \/ /\ HasTwoSources(o) /\ FromB(o, f) /\ ~FromA(o, f)
          /\ SameSlots(RefreshB(t, f), x)
       \/ /\ HasTwoSources(o) /\ (FromA(o, f) <=> FromB(o, f))
          /\ x = t
  BY AcceptCases DEF t, x
<1> QED BY <1>21, <1>22, <1>23, <1>24, <1>25, <1>26, <1>27 DEF x

LEMMA FeedSources ==
  ASSUME NEW o \in PortState, NEW f \in Frame, SlotsSafe(o)
  PROVE  /\ SlotSources(FeedPort(o, f)) = (IF o.cancel_merge_pending THEN {Pair(f)}
                                           ELSE Kept(o) \cup Newcomer(o, Pair(f)))
         /\ SilentSources(FeedPort(o, f)) = {}
         /\ FeedPort(o, f).cancel_merge_pending = FALSE
<1> DEFINE seen == [o EXCEPT !.nzs = FALSE, !.last_dmx_source = f.src]
           got == AcceptFrame(seen, f)
           fed == CancelMerge(got, f)
           x == FeedPort(o, f)
<1>1. seen \in PortState /\ SameSlots(o, seen) /\ f.src # None /\ ~(0 > MergeTimeout)
  <2>1. seen \in PortState /\ SameSlots(o, seen)
    BY DEF PortState, Frame, SameSlots
  <2> QED BY <2>1, ConstantFacts DEF Frame
<1>2. /\ SlotSources(seen) = SlotSources(o) /\ SilentSources(seen) = SilentSources(o)
      /\ SlotsSafe(seen)
  BY <1>1, SameSlotsSources, SameSlotsSafe
<1>3. /\ SlotSources(got) = Kept(o) \cup Newcomer(o, Pair(f))
      /\ SilentSources(got) = {}
      /\ got.cancel_merge_pending = o.cancel_merge_pending
  <2>1. Kept(seen) = Kept(o) /\ Newcomer(seen, Pair(f)) = Newcomer(o, Pair(f))
    BY <1>2 DEF Kept, Newcomer
  <2> QED BY <1>1, <1>2, <2>1, AcceptSources DEF SameSlots
<1>4. got \in PortState
  BY <1>1, AcceptType
<1> HIDE DEF got
<1>5. /\ fed \in PortState
      /\ SlotSources(fed) = (IF got.cancel_merge_pending THEN {Pair(f)} ELSE SlotSources(got))
      /\ SilentSources(fed) = {}
      /\ fed.cancel_merge_pending = FALSE
  <2>1. fed \in PortState /\ TakeA(got, f) \in PortState
    BY <1>4, CancelType, RefreshType
  <2>2. CASE ~got.cancel_merge_pending
    BY <1>3, <1>4, <2>1, <2>2 DEF CancelMerge, PortState
  <2>3. CASE got.cancel_merge_pending
    <3>1. /\ fed.ipA = f.src /\ fed.physicalA = f.physical /\ fed.ageA = 0
          /\ fed.ipB = None /\ fed.cancel_merge_pending = FALSE
      BY <1>4, <2>1, <2>3 DEF CancelMerge, TakeA, RefreshA, PortState
    <3>2. SourceA(fed) = {Pair(f)} /\ SourceB(fed) = {}
      BY <1>1, <3>1 DEF SourceA, SourceB, Pair
    <3> QED BY <1>1, <2>1, <2>3, <3>1, <3>2 DEF SlotSources, SilentSources
  <2> QED BY <2>2, <2>3
<1>6. x = [fed EXCEPT !.dmxAge = 0, !.failsafe_triggered = FALSE]
  BY DEF FeedPort, got
<1>7. SameSlots(fed, x)
  <2> HIDE DEF fed
  <2> QED BY <1>5, <1>6 DEF SameSlots, PortState
<1> HIDE DEF fed, x
<1>8. /\ SlotSources(x) = SlotSources(fed) /\ SilentSources(x) = SilentSources(fed)
      /\ x.cancel_merge_pending = fed.cancel_merge_pending
  BY <1>7, SameSlotsSources DEF SameSlots
<1> QED BY <1>3, <1>5, <1>8 DEF x

LEMMA AgedSources ==
  ASSUME NEW o \in PortState
  PROVE  /\ SlotSources(AgedPort(o)) = SlotSources(o)
         /\ SilentSources(o) \subseteq SilentSources(AgedPort(o))
         /\ SilentSources(AgedPort(o)) \subseteq SlotSources(o)
         /\ AgedPort(o).cancel_merge_pending = o.cancel_merge_pending
<1>1. /\ SourceA(AgedPort(o)) = SourceA(o) /\ SourceB(AgedPort(o)) = SourceB(o)
      /\ AgedPort(o).cancel_merge_pending = o.cancel_merge_pending
      /\ AgedPort(o).ageA = Older(o.ageA, Old) /\ AgedPort(o).ageB = Older(o.ageB, Old)
  BY DEF AgedPort, SourceA, SourceB, PortState
<1>2. o.ageA \in 0 .. Old /\ o.ageB \in 0 .. Old
  BY DEF PortState
<1>3. /\ o.ageA > MergeTimeout => AgedPort(o).ageA > MergeTimeout
      /\ o.ageB > MergeTimeout => AgedPort(o).ageB > MergeTimeout
  BY <1>1, <1>2, ConstantFacts DEF Older
<1> QED BY <1>1, <1>3 DEF SlotSources, SilentSources

LEMMA SilentAreSources ==
  ASSUME NEW o \in PortState
  PROVE  SilentSources(o) \subseteq SlotSources(o) /\ SlotSources(o) \subseteq Sources
  BY DEF SilentSources, SlotSources, SourceA, SourceB, Sources, PortState

LEMMA CommandedSources ==
  ASSUME NEW o \in PortState, NEW cmd, NEW p, ~(cmd = "DIRECTION_0" /\ p = 0)
  PROVE  /\ SlotSources(Commanded(cmd, p, o)) = SlotSources(o)
         /\ SilentSources(Commanded(cmd, p, o)) = SilentSources(o)
         /\ Commanded(cmd, p, o).cancel_merge_pending =
              (IF cmd = "CANCEL" THEN o.cancel_merge_pending \/ o.merging
               ELSE o.cancel_merge_pending)
<1> DEFINE x == Commanded(cmd, p, o)
<1>1. /\ x.ipA = o.ipA /\ x.physicalA = o.physicalA /\ x.ageA = o.ageA
      /\ x.ipB = o.ipB /\ x.physicalB = o.physicalB /\ x.ageB = o.ageB
  BY DEF Commanded, PortState
<1>2. x.cancel_merge_pending = (IF cmd = "CANCEL" THEN o.cancel_merge_pending \/ o.merging
                                ELSE o.cancel_merge_pending)
  BY DEF Commanded, PortState
<1> QED BY <1>1, <1>2 DEF SlotSources, SilentSources, SourceA, SourceB

LEMMA ForgottenSources ==
  ASSUME NEW o \in PortState
  PROVE  /\ SlotSources(Commanded("DIRECTION_0", 0, o)) = {}
         /\ SilentSources(Commanded("DIRECTION_0", 0, o)) = {}
         /\ Commanded("DIRECTION_0", 0, o).cancel_merge_pending = FALSE
<1> DEFINE x == Commanded("DIRECTION_0", 0, o)
<1>1. x.ipA = None /\ x.ipB = None /\ x.cancel_merge_pending = FALSE
  BY DEF Commanded, ForgetSources, PortState
<1> QED BY <1>1 DEF SlotSources, SilentSources, SourceA, SourceB

LEMMA InitPromise == Init => Promise!MergeInit
<1> SUFFICES ASSUME Init PROVE Promise!MergeInit
  OBVIOUS
<1>1. \A p \in Ports : /\ SlotSources(out[p]) = {} /\ SilentSources(out[p]) = {}
                       /\ out[p].cancel_merge_pending = FALSE
  BY DEF Init, InitPort, SlotSources, SilentSources, SourceA, SourceB
<1> QED BY <1>1 DEF Promise!MergeInit

LEMMA PromiseStep ==
  TypeOK /\ AllSlotsSafe /\ [Next]_vars => [Promise!MergeNext]_(Promise!mergeVars)
<1> SUFFICES ASSUME TypeOK, AllSlotsSafe, [Next]_vars
             PROVE  Promise!MergeNext \/ UNCHANGED Promise!mergeVars
  OBVIOUS
<1> DEFINE Unfed(p) == /\ SlotSources(out'[p]) = SlotSources(out[p])
                         /\ SilentSources(out'[p]) = SilentSources(out[p])
                         /\ out'[p].cancel_merge_pending = out[p].cancel_merge_pending
<1>1. \A p \in Ports : out[p] \in PortState /\ SlotsSafe(out[p])
  BY DEF TypeOK, AllSlotsSafe
<1>2. (\A p \in Ports : Unfed(p)) => UNCHANGED Promise!mergeVars
  BY DEF Promise!mergeVars
<1>3. ASSUME NEW p \in Ports, \/ out'[p] = out[p]
                              \/ SameSlots(out[p], out'[p])
      PROVE  Unfed(p)
  BY <1>3, SameSlotsSources DEF SameSlots
<1>4. ASSUME NEW u \in Universes, NEW f \in Frame, HandleDmx(u, f)
      PROVE  Promise!Feed(Pair(f), PortsOn(u))
  <2>1. \A p \in Ports : out'[p] = IF p \in PortsOn(u) THEN FeedPort(out[p], f) ELSE out[p]
    BY <1>4 DEF HandleDmx
  <2>2. ASSUME NEW p \in Ports
        PROVE  /\ SlotSources(out'[p]) = (IF p \in PortsOn(u)
                    THEN IF out[p].cancel_merge_pending THEN {Pair(f)}
                         ELSE Kept(out[p]) \cup Newcomer(out[p], Pair(f))
                    ELSE SlotSources(out[p]))
               /\ SilentSources(out'[p]) =
                    (IF p \in PortsOn(u) THEN {} ELSE SilentSources(out[p]))
               /\ out'[p].cancel_merge_pending =
                    (out[p].cancel_merge_pending /\ p \notin PortsOn(u))
    <3>1. CASE p \in PortsOn(u)
      BY <1>1, <2>1, <3>1, FeedSources
    <3>2. CASE p \notin PortsOn(u)
      <4>1. out'[p] = out[p] /\ out[p].cancel_merge_pending \in BOOLEAN
        BY <1>1, <2>1, <3>2 DEF PortState
      <4> QED BY <3>2, <4>1
    <3> QED BY <3>1, <3>2
  <2> QED BY <2>2 DEF Promise!Feed, Promise!SourcesAfter, Promise!Joined, Kept, Newcomer
<1>5. ASSUME NEW h \in Hosts, HandleSync(h)
      PROVE  UNCHANGED Promise!mergeVars
  <2>1. \A p \in Ports : out'[p] = out[p] \/ out'[p] = FlushSyncOutput(out[p])
    BY <1>5 DEF HandleSync
  <2> QED BY <1>1, <1>2, <1>3, <2>1, DataOnly, ConstantFacts
<1>6. ASSUME NEW u \in NzsUniverses, NEW level \in Levels, HandleNzs(u, level)
      PROVE  UNCHANGED Promise!mergeVars
  <2>1. \A p \in Ports : out'[p] = out[p] \/ out'[p] = FeedNzs(out[p], level)
    BY <1>6 DEF HandleNzs, TypeOK
  <2> QED BY <1>1, <1>2, <1>3, <2>1, DataOnly
<1>7. ASSUME NEW cmd \in Commands, HandleAddress(cmd)
      PROVE  Promise!MergeNext \/ UNCHANGED Promise!mergeVars
  <2>1. \A p \in Ports : out'[p] = Commanded(cmd, p, out[p])
    BY <1>7 DEF HandleAddress
  <2>2. CASE cmd = "CANCEL"
    <3>1. PICK flagged \in SUBSET Ports : flagged = {p \in Ports : out[p].merging}
      OBVIOUS
    <3>2. ASSUME NEW p \in Ports
          PROVE  /\ SlotSources(out'[p]) = SlotSources(out[p])
                 /\ SilentSources(out'[p]) = SilentSources(out[p])
                 /\ out'[p].cancel_merge_pending =
                      (out[p].cancel_merge_pending \/ p \in flagged)
      <4>1. /\ out[p] \in PortState /\ out'[p] = Commanded(cmd, p, out[p])
            /\ ~(cmd = "DIRECTION_0" /\ p = 0)
            /\ p \in flagged <=> out[p].merging
        BY <1>1, <2>1, <2>2, <3>1
      <4> QED BY <2>2, <4>1, CommandedSources
    <3>3. Promise!Cancel(flagged)
      BY <3>2, Zenon DEF Promise!Cancel
    <3> QED BY <3>3 DEF Promise!MergeNext
  <2>3. CASE cmd = "DIRECTION_0"
    <3>1. ASSUME NEW p \in Ports
          PROVE  IF p = 0
                 THEN /\ SlotSources(out'[p]) = {} /\ SilentSources(out'[p]) = {}
                      /\ out'[p].cancel_merge_pending = FALSE
                 ELSE Unfed(p)
      <4>1. out[p] \in PortState /\ out'[p] = Commanded(cmd, p, out[p])
        BY <1>1, <2>1
      <4>2. CASE p = 0
        BY <2>3, <4>1, <4>2, ForgottenSources
      <4>3. CASE p # 0
        BY <2>3, <4>1, <4>3, CommandedSources
      <4> QED BY <4>2, <4>3
    <3>2. 0 \in Ports
      BY PortAssumption DEF Ports
    <3>3. Promise!Forget(0)
      BY <3>1, <3>2 DEF Promise!Forget
    <3> QED BY <3>2, <3>3 DEF Promise!MergeNext
  <2>4. CASE cmd \notin {"CANCEL", "DIRECTION_0"}
    <3>1. \A p \in Ports : Unfed(p)
      <4> TAKE p \in Ports
      <4>1. out[p] \in PortState /\ out'[p] = Commanded(cmd, p, out[p])
        BY <1>1, <2>1
      <4> QED BY <2>4, <4>1, CommandedSources
    <3> QED BY <1>2, <3>1
  <2> QED BY <2>2, <2>3, <2>4
<1>8. CASE NoOutputPacket \/ UNCHANGED vars
  BY <1>2, <1>3, <1>8 DEF NoOutputPacket, vars
<1>9. CASE CheckTimeouts
  <2>1. \A p \in Ports : out'[p] = TimedOut(out[p])
    BY <1>9 DEF CheckTimeouts
  <2> QED BY <1>1, <1>2, <1>3, <2>1, DataOnly, ConstantFacts
<1>10. CASE Tick
  <2>1. \A p \in Ports : out'[p] = AgedPort(out[p])
    BY <1>10 DEF Tick
  <2>2. ASSUME NEW p \in Ports
        PROVE  /\ SlotSources(out'[p]) = SlotSources(out[p])
               /\ SilentSources(out[p]) \subseteq SilentSources(out'[p])
               /\ SilentSources(out'[p]) \subseteq SlotSources(out[p])
               /\ out'[p].cancel_merge_pending = out[p].cancel_merge_pending
               /\ SilentSources(out'[p]) \subseteq Sources
    BY <1>1, <2>1, AgedSources, SilentAreSources
  <2>3. Promise!FallSilent
    BY <2>2 DEF Promise!FallSilent
  <2> QED BY <2>3 DEF Promise!MergeNext
<1>11. ASSUME NEW u \in Universes, NEW f \in Frame, HandleDmx(u, f)
       PROVE  Promise!MergeNext
  <2>1. Pair(f) \in Sources /\ PortsOn(u) \in SUBSET Ports
    BY DEF Pair, Sources, Frame, PortsOn
  <2> QED BY <1>4, <1>11, <2>1 DEF Promise!MergeNext
<1> QED BY <1>5, <1>6, <1>7, <1>8, <1>9, <1>10, <1>11 DEF Next

(* handle_dmx, check_merge_timeouts and handle_address together keep the   *)
(* promise made to the controllers, for any number of ports, controllers   *)
(* and Physical values and any timeouts.                                   *)
THEOREM OutputsKeepPromise == Spec => MergePromise
  BY InitPromise, PromiseStep, TypeCorrect, SlotsInvariant, PTL
     DEF Spec, MergePromise, Promise!MergeSpec
-----------------------------------------------------------------------------
(* What the slots remember.                                                *)

SameHeld(o, x) ==
  /\ x.ipA = o.ipA /\ x.physicalA = o.physicalA /\ x.dataA = o.dataA
  /\ x.ipB = o.ipB /\ x.physicalB = o.physicalB /\ x.dataB = o.dataB

HoldsLatest(o, sent) ==
  /\ o.ipA # None => o.dataA = sent[<<o.ipA, o.physicalA>>]
  /\ o.ipB # None => o.dataB = sent[<<o.ipB, o.physicalB>>]

LEMMA SameHeldHolds ==
  ASSUME NEW o, NEW x, NEW sent, SameHeld(o, x), HoldsLatest(o, sent)
  PROVE  HoldsLatest(x, sent)
  BY DEF SameHeld, HoldsLatest

LEMMA DataHeld ==
  ASSUME NEW o \in PortState, NEW level \in Levels
  PROVE  /\ SameHeld(o, StageOutput(o, level))
         /\ SameHeld(o, FlushSyncOutput(o))
         /\ SameHeld(o, MergeSources(o, level))
         /\ \A f \in Frame : SameHeld(o, StartMerge(o, f))
         /\ SameHeld(o, FeedNzs(o, level))
         /\ SameHeld(o, TimedOut(o))
<1> USE DEF SameHeld, PortState
<1>1. \A q \in PortState : SameHeld(q, FlushSyncOutput(q))
  BY CommitType DEF FlushSyncOutput, CommitOutput
<1>2. SameHeld(o, StageOutput(o, level)) /\ SameHeld(o, FeedNzs(o, level))
  BY DEF StageOutput, FeedNzs, CommitOutput
<1>3. ASSUME NEW any \in Levels
      PROVE  SameHeld(o, MergeSources(o, any))
  <2> DEFINE merged == IF o.merge_mode = "HTP" THEN Higher(o.dataA, o.dataB) ELSE any
             staged == [o EXCEPT !.sync_data = merged, !.sync_pending = TRUE]
  <2>1. merged \in Levels
    BY DEF Higher
  <2>2. staged \in PortState /\ SameHeld(o, staged)
    <3> HIDE DEF merged
    <3> QED BY <2>1
  <2>3. SameHeld(staged, FlushSyncOutput(staged))
    BY <1>1, <2>2
  <2>4. MergeSources(o, any) = IF sync_mode THEN staged ELSE FlushSyncOutput(staged)
    BY DEF MergeSources
  <2> HIDE DEF staged
  <2> QED BY <2>2, <2>3, <2>4
<1>4. ASSUME NEW f \in Frame
      PROVE  SameHeld(o, StartMerge(o, f))
  <2>1. MergeSources(o, f.level) \in PortState /\ SameHeld(o, MergeSources(o, f.level))
    BY <1>3, MergeType DEF Frame
  <2> QED BY <2>1 DEF StartMerge
<1>5. SameHeld(o, TimedOut(o))
  <2>1. Failsafe(o) \in PortState /\ SameHeld(o, Failsafe(o))
    BY FailsafeType DEF Failsafe
  <2> QED BY <1>1, <2>1 DEF TimedOut
<1> QED BY <1>1, <1>2, <1>3, <1>4, <1>5

(* A frame is remembered in the slot of its source, and in no other.       *)
LEMMA AcceptLatest ==
  ASSUME NEW o \in PortState, NEW f \in Frame, SlotsSafe(o),
         NEW sent \in [Sources -> Levels], HoldsLatest(o, sent)
  PROVE  HoldsLatest(AcceptFrame(o, f), [sent EXCEPT ![Pair(f)] = f.level])
<1> DEFINE t == CheckMergeTimeouts(o)
           now == [sent EXCEPT ![Pair(f)] = f.level]
           x == AcceptFrame(o, f)
<1>1. /\ t \in PortState /\ t.ipA \in {None, o.ipA} /\ t.ipB \in {None, o.ipB}
      /\ t.physicalA = o.physicalA /\ t.physicalB = o.physicalB
      /\ t.dataA = o.dataA /\ t.dataB = o.dataB
  <2>1. t.dataA = o.dataA /\ t.dataB = o.dataB
    BY DEF CheckMergeTimeouts, DropStaleSources, PortState
  <2> QED BY <2>1, CheckMergeType, CheckSlots
<1>2. f.level \in Levels /\ f.src # None /\ Pair(f) \in Sources /\ Pair(f) = <<f.src, f.physical>>
  BY ConstantFacts DEF Frame, Pair, Sources
<1>3. now[Pair(f)] = f.level /\ \A s \in Sources : s # Pair(f) => now[s] = sent[s]
  BY <1>2
<1>4. /\ o.ipA # None => <<o.ipA, o.physicalA>> \in Sources
      /\ o.ipB # None => <<o.ipB, o.physicalB>> \in Sources
  BY DEF Sources, PortState
<1> HIDE DEF t, now
<1>5. /\ o.ipA # None /\ ~FromA(o, f) => o.dataA = now[<<o.ipA, o.physicalA>>]
      /\ o.ipB # None /\ ~FromB(o, f) => o.dataB = now[<<o.ipB, o.physicalB>>]
  BY <1>2, <1>3, <1>4 DEF HoldsLatest, FromA, FromB
<1>6. /\ RefreshA(t, f) \in PortState /\ RefreshB(t, f) \in PortState
      /\ TakeA(t, f) \in PortState /\ TakeB(t, f) \in PortState
  BY <1>1, RefreshType
<1>7. /\ RefreshA(t, f).ipA = t.ipA /\ RefreshA(t, f).physicalA = t.physicalA
      /\ RefreshA(t, f).dataA = f.level
      /\ RefreshA(t, f).ipB = t.ipB /\ RefreshA(t, f).physicalB = t.physicalB
      /\ RefreshA(t, f).dataB = t.dataB
  BY <1>1 DEF RefreshA, PortState
<1>8. /\ RefreshB(t, f).ipA = t.ipA /\ RefreshB(t, f).physicalA = t.physicalA
      /\ RefreshB(t, f).dataA = t.dataA
      /\ RefreshB(t, f).ipB = t.ipB /\ RefreshB(t, f).physicalB = t.physicalB
      /\ RefreshB(t, f).dataB = f.level
  BY <1>1 DEF RefreshB, PortState
<1>9. /\ TakeA(t, f).ipA = f.src /\ TakeA(t, f).physicalA = f.physical
      /\ TakeA(t, f).dataA = f.level
      /\ TakeA(t, f).ipB = t.ipB /\ TakeA(t, f).physicalB = t.physicalB
      /\ TakeA(t, f).dataB = t.dataB
  BY <1>6, <1>7 DEF TakeA, PortState
<1>10. /\ TakeB(t, f).ipA = t.ipA /\ TakeB(t, f).physicalA = t.physicalA
       /\ TakeB(t, f).dataA = t.dataA
       /\ TakeB(t, f).ipB = f.src /\ TakeB(t, f).physicalB = f.physical
       /\ TakeB(t, f).dataB = f.level
  BY <1>6, <1>8 DEF TakeB, PortState
<1>11. (FromA(o, f) \/ o.ipA = None) /\ ~FromB(o, f) => HoldsLatest(RefreshA(t, f), now)
  BY <1>1, <1>2, <1>3, <1>5, <1>7 DEF HoldsLatest, FromA
<1>12. (FromB(o, f) \/ o.ipB = None) /\ ~FromA(o, f) => HoldsLatest(RefreshB(t, f), now)
  BY <1>1, <1>2, <1>3, <1>5, <1>8 DEF HoldsLatest, FromB
<1>13. ~FromB(o, f) => HoldsLatest(TakeA(t, f), now)
  BY <1>1, <1>2, <1>3, <1>5, <1>9 DEF HoldsLatest
<1>14. ~FromA(o, f) => HoldsLatest(TakeB(t, f), now)
  BY <1>1, <1>2, <1>3, <1>5, <1>10 DEF HoldsLatest
<1>15. ~FromA(o, f) /\ ~FromB(o, f) => HoldsLatest(t, now)
  BY <1>1, <1>5 DEF HoldsLatest
<1>16. /\ o.ipA = None => ~FromA(o, f)
       /\ o.ipB = None => ~FromB(o, f)
       /\ HasTwoSources(o) => ~(FromA(o, f) /\ FromB(o, f))
  BY <1>2 DEF FromA, FromB, HasTwoSources, SlotsSafe
<1>17. \A q \in PortState :
         HoldsLatest(q, now) => /\ HoldsLatest(StageOutput(q, f.level), now)
                                /\ HoldsLatest(MergeSources(q, f.level), now)
                                /\ HoldsLatest(StartMerge(q, f), now)
  BY <1>2, DataHeld, SameHeldHolds
<1>18. x = CASE o.ipA = None /\ o.ipB = None -> StageOutput(TakeA(t, f), f.level)
             [] FromA(o, f) /\ o.ipB = None  -> StageOutput(RefreshA(t, f), f.level)
             [] o.ipA = None /\ FromB(o, f)  -> StageOutput(RefreshB(t, f), f.level)
             [] MergeStartsInB(o, f)         -> StartMerge(TakeB(t, f), f)
             [] MergeStartsInA(o, f)         -> StartMerge(TakeA(t, f), f)
             [] HasTwoSources(o) /\ FromA(o, f) /\ ~FromB(o, f) ->
                  MergeSources(RefreshA(t, f), f.level)
             [] HasTwoSources(o) /\ FromB(o, f) /\ ~FromA(o, f) ->
                  MergeSources(RefreshB(t, f), f.level)
             [] OTHER -> t
  BY DEF AcceptFrame, t
<1> HIDE DEF x
<1>19. HoldsLatest(x, now)
  BY <1>6, <1>11, <1>12, <1>13, <1>14, <1>15, <1>16, <1>17, <1>18
     DEF MergeStartsInA, MergeStartsInB, HasTwoSources
<1> QED BY <1>19 DEF x, now

LEMMA FeedLatest ==
  ASSUME NEW o \in PortState, NEW f \in Frame, SlotsSafe(o),
         NEW sent \in [Sources -> Levels], HoldsLatest(o, sent)
  PROVE  HoldsLatest(FeedPort(o, f), [sent EXCEPT ![Pair(f)] = f.level])
<1> DEFINE seen == [o EXCEPT !.nzs = FALSE, !.last_dmx_source = f.src]
           got == AcceptFrame(seen, f)
           fed == CancelMerge(got, f)
           now == [sent EXCEPT ![Pair(f)] = f.level]
<1>1. seen \in PortState /\ SameSlots(o, seen) /\ SameHeld(o, seen)
  BY DEF PortState, Frame, SameSlots, SameHeld
<1>2. SlotsSafe(seen) /\ HoldsLatest(seen, sent)
  BY <1>1, SameSlotsSafe, SameHeldHolds
<1>3. got \in PortState /\ HoldsLatest(got, now)
  BY <1>1, <1>2, AcceptType, AcceptLatest
<1>4. now[<<f.src, f.physical>>] = f.level
  BY DEF Pair, Sources, Frame
<1> HIDE DEF got, now
<1>5. fed \in PortState /\ HoldsLatest(fed, now)
  <2>1. RefreshA(got, f) \in PortState /\ TakeA(got, f) \in PortState /\ fed \in PortState
    BY <1>3, RefreshType, CancelType
  <2>2. RefreshA(got, f).dataA = f.level
    BY <1>3 DEF RefreshA, PortState
  <2>3. /\ TakeA(got, f).ipA = f.src /\ TakeA(got, f).physicalA = f.physical
        /\ TakeA(got, f).dataA = f.level
    BY <2>1, <2>2 DEF TakeA, PortState
  <2>4. CASE got.cancel_merge_pending
    <3>1. /\ fed.ipA = f.src /\ fed.physicalA = f.physical /\ fed.dataA = f.level
          /\ fed.ipB = None
      BY <2>1, <2>3, <2>4 DEF CancelMerge, PortState
    <3> QED BY <1>4, <2>1, <3>1 DEF HoldsLatest
  <2>5. CASE ~got.cancel_merge_pending
    BY <1>3, <2>5 DEF CancelMerge
  <2> QED BY <2>4, <2>5
<1>6. FeedPort(o, f) = [fed EXCEPT !.dmxAge = 0, !.failsafe_triggered = FALSE]
  BY DEF FeedPort, got
<1> HIDE DEF fed
<1>7. SameHeld(fed, FeedPort(o, f))
  BY <1>5, <1>6 DEF SameHeld, PortState
<1> QED BY <1>5, <1>7, SameHeldHolds DEF now

LatestInv ==
  /\ latest \in [Universes -> [Sources -> Levels]]
  /\ \A p \in Ports : HoldsLatest(out[p], latest[UniverseOf[p]])

LEMMA LatestInit == HistoryInit => LatestInv
<1> SUFFICES ASSUME HistoryInit PROVE LatestInv
  OBVIOUS
<1>1. latest \in [Universes -> [Sources -> Levels]]
  BY ConstantFacts DEF HistoryInit
<1>2. \A p \in Ports : out[p].ipA = None /\ out[p].ipB = None
  BY DEF HistoryInit, Init, InitPort
<1> QED BY <1>1, <1>2 DEF LatestInv, HoldsLatest

LEMMA LatestStep ==
  TypeOK /\ AllSlotsSafe /\ LatestInv /\ [HistoryNext]_<<vars, latest>> => LatestInv'
<1> SUFFICES ASSUME TypeOK, AllSlotsSafe, LatestInv, [HistoryNext]_<<vars, latest>>
             PROVE  LatestInv'
  OBVIOUS
<1>1. ASSUME NEW p \in Ports
      PROVE  /\ out[p] \in PortState /\ SlotsSafe(out[p]) /\ UniverseOf[p] \in Universes
             /\ HoldsLatest(out[p], latest[UniverseOf[p]])
             /\ latest[UniverseOf[p]] \in [Sources -> Levels]
  BY DEF TypeOK, AllSlotsSafe, LatestInv, Universes
<1>2. ASSUME NEW u \in Universes, NEW f \in Frame, HandleDmx(u, f),
             latest' = [latest EXCEPT ![u][<<f.src, f.physical>>] = f.level]
      PROVE  LatestInv'
  <2> DEFINE now == [latest[u] EXCEPT ![Pair(f)] = f.level]
  <2>1. latest[u] \in [Sources -> Levels] /\ Pair(f) \in Sources /\ f.level \in Levels
    BY DEF LatestInv, Pair, Sources, Frame
  <2>2. now \in [Sources -> Levels]
    BY <2>1
  <2>3. latest' = [latest EXCEPT ![u] = now]
    BY <1>2 DEF Pair
  <2> HIDE DEF now
  <2>4. /\ latest' \in [Universes -> [Sources -> Levels]]
        /\ latest'[u] = now
        /\ \A w \in Universes : w # u => latest'[w] = latest[w]
    BY <2>2, <2>3 DEF LatestInv
  <2>5. ASSUME NEW p \in Ports
        PROVE  HoldsLatest(out'[p], latest'[UniverseOf[p]])
    <3>1. out'[p] = IF UniverseOf[p] = u THEN FeedPort(out[p], f) ELSE out[p]
      BY <1>2 DEF HandleDmx, PortsOn
    <3>2. CASE UniverseOf[p] = u
      <4>1. HoldsLatest(FeedPort(out[p], f), now)
        BY <1>1, <3>2, FeedLatest DEF now
      <4> QED BY <2>4, <3>1, <3>2, <4>1
    <3>3. CASE UniverseOf[p] # u
      BY <1>1, <2>4, <3>1, <3>3
    <3> QED BY <3>2, <3>3
  <2>6. (\A p \in Ports : HoldsLatest(out[p], latest[UniverseOf[p]]))'
    BY <2>5
  <2> QED BY <2>4, <2>6 DEF LatestInv
<1>3. ASSUME UNCHANGED latest,
             \A p \in Ports : \/ out'[p] = out[p]
                              \/ SameHeld(out[p], out'[p])
                              \/ out'[p].ipA = None /\ out'[p].ipB = None
      PROVE  LatestInv'
  <2>1. ASSUME NEW p \in Ports
        PROVE  HoldsLatest(out'[p], latest'[UniverseOf[p]])
    <3>1. CASE out'[p].ipA = None /\ out'[p].ipB = None
      BY <3>1 DEF HoldsLatest
    <3>2. CASE out'[p] = out[p] \/ SameHeld(out[p], out'[p])
      BY <1>1, <1>3, <3>2, SameHeldHolds
    <3> QED BY <1>3, <3>1, <3>2
  <2>2. (\A p \in Ports : HoldsLatest(out[p], latest[UniverseOf[p]]))'
    BY <2>1
  <2> QED BY <1>3, <2>2 DEF LatestInv
<1>4. \A p \in Ports : \A level \in Levels :
        /\ SameHeld(out[p], FlushSyncOutput(out[p]))
        /\ SameHeld(out[p], FeedNzs(out[p], level))
        /\ SameHeld(out[p], TimedOut(out[p]))
  BY <1>1, DataHeld
<1>5. ASSUME NEW h \in Hosts, HandleSync(h), UNCHANGED latest
      PROVE  LatestInv'
  BY <1>3, <1>4, <1>5, ConstantFacts DEF HandleSync
<1>6. ASSUME NEW u \in NzsUniverses, NEW level \in Levels, HandleNzs(u, level),
             UNCHANGED latest
      PROVE  LatestInv'
  BY <1>3, <1>4, <1>6 DEF HandleNzs, TypeOK
<1>7. ASSUME NEW cmd \in Commands, HandleAddress(cmd), UNCHANGED latest
      PROVE  LatestInv'
  <2>1. ASSUME NEW p \in Ports
        PROVE  \/ SameHeld(out[p], Commanded(cmd, p, out[p]))
               \/ /\ Commanded(cmd, p, out[p]).ipA = None
                  /\ Commanded(cmd, p, out[p]).ipB = None
    BY <1>1 DEF Commanded, ForgetSources, SameHeld, PortState
  <2> QED BY <1>3, <1>7, <2>1 DEF HandleAddress
<1>8. ASSUME CheckTimeouts, UNCHANGED latest
      PROVE  LatestInv'
  BY <1>3, <1>4, <1>8, ConstantFacts DEF CheckTimeouts
<1>9. ASSUME Tick, UNCHANGED latest
      PROVE  LatestInv'
  <2>1. \A p \in Ports : SameHeld(out[p], AgedPort(out[p]))
    BY <1>1 DEF AgedPort, SameHeld, PortState
  <2> QED BY <1>3, <1>9, <2>1 DEF Tick
<1>10. ASSUME NoOutputPacket \/ UNCHANGED vars, UNCHANGED latest
       PROVE  LatestInv'
  BY <1>3, <1>10 DEF NoOutputPacket, vars
<1> QED BY <1>2, <1>5, <1>6, <1>7, <1>8, <1>9, <1>10 DEF HistoryNext

(* handle_dmx and merge: an occupied merge slot holds the level its source *)
(* sent last, in every interleaving of frames, timeouts, cancellations and *)
(* changes of direction, so no merge mixes in a level since replaced.      *)
THEOREM SlotsHoldTheLatest == HistorySpec => []SlotHoldsLatest
<1>1. LatestInv => SlotHoldsLatest
  BY DEF LatestInv, HoldsLatest, SlotHoldsLatest
<1>2. HistoryInit => Init
  BY DEF HistoryInit
<1>3. [HistoryNext]_<<vars, latest>> => [Next]_vars
  BY DEF HistoryNext, Next
<1>4. HistorySpec => Spec
  BY <1>2, <1>3, PTL DEF HistorySpec, Spec
<1> QED BY <1>1, <1>4, LatestInit, LatestStep, TypeCorrect, SlotsInvariant, PTL DEF HistorySpec
=============================================================================
