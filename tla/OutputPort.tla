----------------------------- MODULE OutputPort -----------------------------
(***************************************************************************)
(* The output side of an Art-Net node: what the receive loop artnet_read   *)
(* does to the DMX output ports.  A port merges at most two ArtDmx         *)
(* sources, buffers frames while the node is synchronised by ArtSync, and  *)
(* falls back to its fail-safe level when ArtDmx stops.                    *)
(*                                                                         *)
(* A DMX frame is abstracted to one level in 0 .. MaxLevel (one slot of    *)
(* the 512, all frames equally long); 0 is blackout and MaxLevel full.     *)
(* Timestamps are abstracted to ages in ticks, saturating just past the    *)
(* timeout they are compared with.                                         *)
(***************************************************************************)
EXTENDS Integers

CONSTANTS
  PortCount,       (* the output ports are 0 .. PortCount-1              *)
  UniverseOf,      (* the universe every port is programmed to           *)
  Hosts,           (* IP addresses of the controllers                    *)
  None,            (* the zero IP address: no source                     *)
  Physicals,       (* values of the ArtDmx Physical field; 0 is one      *)
  MaxLevel,        (* the highest DMX level                              *)
  MergeTimeout,    (* MERGE_TIMEOUT_MS, in ticks                         *)
  FailsafeTimeout, (* DMX_FAILSAFE_TIMEOUT_MS, in ticks                  *)
  SyncTimeout,     (* ARTSYNC_TIMEOUT_MS, in ticks                       *)
  Commands,        (* the ArtAddress commands controllers send           *)
  NzsUniverses,    (* the universes ArtNzs frames are sent to            *)
  ReplyOnChange    (* state.send_apr_on_change, set by the last ArtPoll  *)

Ports == 0 .. PortCount - 1
Levels == 0 .. MaxLevel
Universes == {UniverseOf[p] : p \in Ports}
FailsafeModes == {"HOLD", "ZERO", "FULL", "SCENE"}
AllCommands == {"NONE", "CANCEL", "MERGE_LTP_0", "MERGE_HTP_0", "DIRECTION_0", "CLR_0",
                "FAIL_HOLD", "FAIL_ZERO", "FAIL_FULL", "FAIL_SCENE", "FAIL_RECORD"}

ASSUME PortAssumption ==
  /\ PortCount \in Nat \ {0}
  /\ DOMAIN UniverseOf = Ports
ASSUME SourceAssumption ==
  /\ None \notin Hosts
  /\ 0 \in Physicals
ASSUME LevelAssumption == MaxLevel \in Nat \ {0}
ASSUME TimeoutAssumption ==
  /\ FailsafeTimeout \in Nat \ {0}
  /\ SyncTimeout \in Nat
  /\ MergeTimeout \in Nat
  /\ FailsafeTimeout < SyncTimeout
  /\ SyncTimeout < MergeTimeout
ASSUME ControlAssumption ==
  /\ Commands \subseteq AllCommands
  /\ NzsUniverses \subseteq Universes
  /\ ReplyOnChange \in BOOLEAN

VARIABLES
  out,           (* ports.out: one record per output port                *)
  sync_mode,     (* state.sync_mode                                      *)
  syncAge,       (* age of state.last_sync_time                          *)
  failsafe_mode, (* state.failsafe_mode                                  *)
  announced,     (* merging bit of each port in the last ArtPollReply    *)
  pc             (* where artnet_read is: "check" timeouts or "recv"     *)

vars == <<out, sync_mode, syncAge, failsafe_mode, announced, pc>>

Old == MergeTimeout + 1   \* the age of a source that has timed out
Never == -1               \* the age of last_dmx_time = 0

Sources == Hosts \X Physicals
Frame == [src : Hosts, physical : Physicals, level : Levels]

PortState ==
  [ipA : Hosts \cup {None}, physicalA : Physicals, ageA : 0 .. Old, dataA : Levels,
   ipB : Hosts \cup {None}, physicalB : Physicals, ageB : 0 .. Old, dataB : Levels,
   merging : BOOLEAN, merge_mode : {"HTP", "LTP"}, cancel_merge_pending : BOOLEAN,
   data : Levels, length : {0, 1}, sync_data : Levels, sync_pending : BOOLEAN,
   last_dmx_source : Hosts \cup {None}, dmxAge : {Never} \cup (0 .. FailsafeTimeout),
   failsafe_triggered : BOOLEAN, failsafe_data : Levels, failsafe_length : {0, 1},
   nzs : BOOLEAN]

TypeOK ==
  /\ out \in [Ports -> PortState]
  /\ sync_mode \in BOOLEAN
  /\ syncAge \in 0 .. SyncTimeout
  /\ failsafe_mode \in FailsafeModes
  /\ announced \in [Ports -> BOOLEAN]
  /\ pc \in {"check", "recv"}

-----------------------------------------------------------------------------
(* Committing, buffering and merging the data of one port.                 *)

CommitOutput(o, level) == [o EXCEPT !.data = level, !.length = 1]

StageOutput(o, level) ==
  IF sync_mode
  THEN [o EXCEPT !.sync_data = level, !.sync_pending = TRUE]
  ELSE CommitOutput(o, level)

FlushSyncOutput(o) ==
  IF o.sync_pending
  THEN [CommitOutput(o, o.sync_data) EXCEPT !.sync_pending = FALSE]
  ELSE o

Higher(a, b) == IF a > b THEN a ELSE b

(* Mutant: a merging port ignores the node's synchronous mode.             *)
MutMergeSources(o, latest) ==
  CommitOutput(o, IF o.merge_mode = "HTP" THEN Higher(o.dataA, o.dataB) ELSE latest)

MergeSources(o, latest) ==
  LET merged == IF o.merge_mode = "HTP" THEN Higher(o.dataA, o.dataB) ELSE latest
      staged == [o EXCEPT !.sync_data = merged, !.sync_pending = TRUE]
  IN  IF sync_mode THEN staged ELSE FlushSyncOutput(staged)

HasTwoSources(o) == o.ipA # None /\ o.ipB # None

(* Mutant: a source is dropped one tick early.                             *)
MutDropStaleSources(o) ==
  [o EXCEPT !.ipA = IF o.ageA >= MergeTimeout THEN None ELSE @,
            !.ipB = IF o.ageB >= MergeTimeout THEN None ELSE @]

DropStaleSources(o) ==
  [o EXCEPT !.ipA = IF o.ageA > MergeTimeout THEN None ELSE @,
            !.ipB = IF o.ageB > MergeTimeout THEN None ELSE @]

MergeEnds(o) == o.merging /\ HasTwoSources(o) /\ ~HasTwoSources(DropStaleSources(o))

(* Mutant: the merge ends but the stale source keeps its slot.             *)
MutCheckMergeTimeouts(o) == [o EXCEPT !.merging = @ /\ ~MergeEnds(o)]

CheckMergeTimeouts(o) ==
  [DropStaleSources(o) EXCEPT !.merging = @ /\ ~MergeEnds(o)]

-----------------------------------------------------------------------------
(* handle_dmx for one port.  The cases test the addresses as they were     *)
(* read before check_merge_timeouts (o); the update is made to the port as *)
(* the timeout check left it (t).                                          *)

FromA(o, f) == o.ipA = f.src /\ o.physicalA = f.physical
FromB(o, f) == o.ipB = f.src /\ o.physicalB = f.physical

(* Mutant: a refreshed source keeps the level it sent before.              *)
MutRefreshA(o, f) == [o EXCEPT !.ageA = 0]
RefreshA(o, f) == [o EXCEPT !.ageA = 0, !.dataA = f.level]
RefreshB(o, f) == [o EXCEPT !.ageB = 0, !.dataB = f.level]
TakeA(o, f) == [RefreshA(o, f) EXCEPT !.ipA = f.src, !.physicalA = f.physical]
TakeB(o, f) == [RefreshB(o, f) EXCEPT !.ipB = f.src, !.physicalB = f.physical]
StartMerge(o, f) == [MergeSources(o, f.level) EXCEPT !.merging = TRUE]

MergeStartsInB(o, f) == o.ipA # None /\ o.ipB = None /\ ~FromA(o, f)
MergeStartsInA(o, f) == o.ipA = None /\ o.ipB # None /\ ~FromB(o, f)

AcceptFrame(o, f) ==
  LET t == CheckMergeTimeouts(o)
  IN  CASE o.ipA = None /\ o.ipB = None -> StageOutput(TakeA(t, f), f.level)
        [] FromA(o, f) /\ o.ipB = None  -> StageOutput(RefreshA(t, f), f.level)
        [] o.ipA = None /\ FromB(o, f)  -> StageOutput(RefreshB(t, f), f.level)
        [] MergeStartsInB(o, f)         -> StartMerge(TakeB(t, f), f)
        [] MergeStartsInA(o, f)         -> StartMerge(TakeA(t, f), f)
        [] HasTwoSources(o) /\ FromA(o, f) /\ ~FromB(o, f) ->
             MergeSources(RefreshA(t, f), f.level)
        [] HasTwoSources(o) /\ FromB(o, f) /\ ~FromA(o, f) ->
             MergeSources(RefreshB(t, f), f.level)
        [] OTHER -> t

(* Mutant: the cancelled slot B is not emptied.                            *)
MutCancelMerge(o, f) ==
  IF o.cancel_merge_pending
  THEN [TakeA(o, f) EXCEPT !.cancel_merge_pending = FALSE]
  ELSE o

CancelMerge(o, f) ==
  IF o.cancel_merge_pending
  THEN [TakeA(o, f) EXCEPT !.cancel_merge_pending = FALSE, !.merging = FALSE,
                           !.ipB = None, !.physicalB = 0, !.ageB = Old, !.dataB = 0]
  ELSE o

FeedPort(o, f) ==
  LET seen == [o EXCEPT !.nzs = FALSE, !.last_dmx_source = f.src]
  IN  [CancelMerge(AcceptFrame(seen, f), f) EXCEPT
         !.dmxAge = 0, !.failsafe_triggered = FALSE]

(* Mutant: the start of a merge in slot A is not announced.                *)
MutAnnounces(o, f) == ReplyOnChange /\ (MergeEnds(o) \/ MergeStartsInB(o, f))

(* An ArtPollReply leaves when a merge ends or starts, not when it is      *)
(* cancelled, and carries the status every port has at that moment.        *)
Announces(o, f) ==
  ReplyOnChange /\ (MergeEnds(o) \/ MergeStartsInA(o, f) \/ MergeStartsInB(o, f))

AnnouncedAfter(fed, f) ==
  LET senders == {p \in fed : Announces(out[p], f)}
  IN  IF senders = {} THEN announced
      ELSE LET last == CHOOSE p \in senders : \A q \in senders : q <= p
           IN  [q \in Ports |->
                  IF q \in fed /\ q < last THEN FeedPort(out[q], f).merging
                  ELSE IF q = last THEN AcceptFrame(out[q], f).merging
                  ELSE out[q].merging]

-----------------------------------------------------------------------------
(* The handlers of artnet_read, one action per packet.                     *)

Received == pc = "recv" /\ pc' = "check"

PortsOn(universe) == {p \in Ports : UniverseOf[p] = universe}

HandleDmx(universe, f) ==
  /\ Received
  /\ out' = [p \in Ports |-> IF p \in PortsOn(universe) THEN FeedPort(out[p], f)
                                                        ELSE out[p]]
  /\ announced' = AnnouncedAfter(PortsOn(universe), f)
  /\ UNCHANGED <<sync_mode, syncAge, failsafe_mode>>

(* Whether port o takes part in an ArtSync sent by controller h.           *)
AcceptsSync(o, h) ==
  /\ ~(o.merging /\ HasTwoSources(o) /\ o.ipA # o.ipB)
  /\ o.last_dmx_source \in {None, h}

(* Mutant: an ArtSync no port takes part in still renews the timeout.      *)
MutHandleSync(h) ==
  /\ Received
  /\ out' = [p \in Ports |-> IF AcceptsSync(out[p], h) THEN FlushSyncOutput(out[p])
                                                       ELSE out[p]]
  /\ sync_mode' = (sync_mode \/ \E p \in Ports : AcceptsSync(out[p], h))
  /\ syncAge' = 0
  /\ UNCHANGED <<failsafe_mode, announced>>

HandleSync(h) ==
  LET accepting == {p \in Ports : AcceptsSync(out[p], h)}
  IN  /\ Received
      /\ out' = [p \in Ports |-> IF p \in accepting THEN FlushSyncOutput(out[p])
                                                    ELSE out[p]]
      /\ sync_mode' = (sync_mode \/ accepting # {})
      /\ syncAge' = IF accepting # {} THEN 0 ELSE syncAge
      /\ UNCHANGED <<failsafe_mode, announced>>

FeedNzs(o, level) == [CommitOutput(o, level) EXCEPT !.nzs = TRUE, !.dmxAge = 0]

HandleNzs(universe, level) ==
  LET first == CHOOSE p \in PortsOn(universe) : \A q \in PortsOn(universe) : p <= q
  IN  /\ Received
      /\ out' = [out EXCEPT ![first] = FeedNzs(@, level)]
      /\ UNCHANGED <<sync_mode, syncAge, failsafe_mode, announced>>

(* Mutant: a pending cancellation survives the change of direction.        *)
MutForgetSources(o) ==
  [o EXCEPT !.ipA = None, !.ipB = None, !.physicalA = 0, !.physicalB = 0,
            !.ageA = Old, !.ageB = Old, !.merging = FALSE]

ForgetSources(o) ==
  [o EXCEPT !.ipA = None, !.ipB = None, !.physicalA = 0, !.physicalB = 0,
            !.ageA = Old, !.ageB = Old, !.cancel_merge_pending = FALSE, !.merging = FALSE]

(* The effect of an ArtAddress command on port p (record o); "NONE" stands *)
(* for the commands that leave the output ports alone.                     *)
Commanded(cmd, p, o) ==
  CASE cmd = "CANCEL" -> [o EXCEPT !.cancel_merge_pending = @ \/ o.merging]
    [] cmd = "MERGE_LTP_0" /\ p = 0 -> [o EXCEPT !.merge_mode = "LTP"]
    [] cmd = "MERGE_HTP_0" /\ p = 0 -> [o EXCEPT !.merge_mode = "HTP"]
    [] cmd = "DIRECTION_0" /\ p = 0 -> ForgetSources(o)
    [] cmd = "CLR_0" /\ p = 0 -> [o EXCEPT !.data = 0, !.length = 0]
    [] cmd = "FAIL_RECORD" ->
         [o EXCEPT !.failsafe_data = o.data, !.failsafe_length = o.length]
    [] OTHER -> o

FailsafeModeAfter(cmd) ==
  CASE cmd = "FAIL_HOLD"  -> "HOLD"
    [] cmd = "FAIL_ZERO"  -> "ZERO"
    [] cmd = "FAIL_FULL"  -> "FULL"
    [] cmd = "FAIL_SCENE" -> "SCENE"
    [] OTHER -> failsafe_mode

HandleAddress(cmd) ==
  /\ Received
  /\ out' = [p \in Ports |-> Commanded(cmd, p, out[p])]
  /\ failsafe_mode' = FailsafeModeAfter(cmd)
  /\ announced' = [p \in Ports |-> out'[p].merging]
  /\ UNCHANGED <<sync_mode, syncAge>>

(* recvfrom had nothing, or a packet that touches no output port.          *)
NoOutputPacket ==
  /\ Received
  /\ UNCHANGED <<out, sync_mode, syncAge, failsafe_mode, announced>>

-----------------------------------------------------------------------------
(* check_timeouts, run before every receive, and the passing of time.      *)

(* Mutant: no fail-safe while the node is synchronised.                    *)
MutFailsafeDue(o) ==
  o.dmxAge >= FailsafeTimeout /\ ~o.failsafe_triggered /\ ~sync_mode

(* Mutant: the fail-safe level is applied again at every check.            *)
MutFailsafeAgain(o) == o.dmxAge >= FailsafeTimeout

FailsafeDue(o) == o.dmxAge >= FailsafeTimeout /\ ~o.failsafe_triggered

Failsafe(o) ==
  LET level == CASE failsafe_mode = "ZERO"  -> 0
                 [] failsafe_mode = "FULL"  -> MaxLevel
                 [] failsafe_mode = "SCENE" /\ o.failsafe_length > 0 -> o.failsafe_data
                 [] OTHER -> o.data
      length == CASE failsafe_mode \in {"ZERO", "FULL"} -> 1
                  [] failsafe_mode = "SCENE" /\ o.failsafe_length > 0 -> o.failsafe_length
                  [] OTHER -> o.length
  IN  [o EXCEPT !.data = level, !.length = length, !.failsafe_triggered = TRUE]

SyncExpired == sync_mode /\ syncAge >= SyncTimeout

(* Mutant: a port in fail-safe is left out when synchronous mode ends.     *)
MutTimedOut(o) ==
  IF FailsafeDue(o) THEN Failsafe(o)
  ELSE IF SyncExpired THEN FlushSyncOutput(o) ELSE o

TimedOut(o) ==
  LET safe == IF FailsafeDue(o) THEN Failsafe(o) ELSE o
  IN  IF SyncExpired THEN FlushSyncOutput(safe) ELSE safe

CheckTimeouts ==
  /\ pc = "check"
  /\ pc' = "recv"
  /\ out' = [p \in Ports |-> TimedOut(out[p])]
  /\ sync_mode' = (sync_mode /\ ~SyncExpired)
  /\ UNCHANGED <<syncAge, failsafe_mode, announced>>

(* Mutant: ages grow without bound.                                        *)
MutOlder(age, cap) == age + 1

Older(age, cap) == IF age < cap THEN age + 1 ELSE cap

AgedPort(o) ==
  [o EXCEPT !.ageA = Older(@, Old), !.ageB = Older(@, Old),
            !.dmxAge = IF @ = Never THEN Never ELSE Older(@, FailsafeTimeout)]

Tick ==
  /\ out' = [p \in Ports |-> AgedPort(out[p])]
  /\ syncAge' = Older(syncAge, SyncTimeout)
  /\ UNCHANGED <<sync_mode, failsafe_mode, announced, pc>>

-----------------------------------------------------------------------------
InitPort ==
  [ipA |-> None, physicalA |-> 0, ageA |-> Old, dataA |-> 0,
   ipB |-> None, physicalB |-> 0, ageB |-> Old, dataB |-> 0,
   merging |-> FALSE, merge_mode |-> "HTP", cancel_merge_pending |-> FALSE,
   data |-> 0, length |-> 0, sync_data |-> 0, sync_pending |-> FALSE,
   last_dmx_source |-> None, dmxAge |-> Never,
   failsafe_triggered |-> FALSE, failsafe_data |-> 0, failsafe_length |-> 0,
   nzs |-> FALSE]

Init ==
  /\ out = [p \in Ports |-> InitPort]
  /\ sync_mode = FALSE
  /\ syncAge = SyncTimeout
  /\ failsafe_mode = "HOLD"
  /\ announced = [p \in Ports |-> FALSE]
  /\ pc = "check"

Next ==
  \/ \E u \in Universes, f \in Frame : HandleDmx(u, f)
  \/ \E h \in Hosts : HandleSync(h)
  \/ \E u \in NzsUniverses, level \in Levels : HandleNzs(u, level)
  \/ \E cmd \in Commands : HandleAddress(cmd)
  \/ NoOutputPacket
  \/ CheckTimeouts
  \/ Tick

Spec == Init /\ [][Next]_vars

-----------------------------------------------------------------------------
(* Safety.                                                                 *)

(* The two merge slots of a port never hold the same source: a controller  *)
(* that keeps sending is never merged with itself, whatever timeouts,      *)
(* cancellations and address comparisons against stale copies intervene.   *)
SourcesDistinct ==
  \A p \in Ports :
    HasTwoSources(out[p]) =>
      <<out[p].ipA, out[p].physicalA>> # <<out[p].ipB, out[p].physicalB>>

(* Two sources in the slots are always flagged as merging, so handle_sync  *)
(* can tell a merging port and ArtPollReply reports it.                    *)
DualSourceFlagged ==
  \A p \in Ports : HasTwoSources(out[p]) => out[p].merging

(* A frame waits in sync_data only while the node is synchronised: leaving *)
(* synchronous mode strands no buffered frame.                             *)
StagedOnlyInSyncMode ==
  \A p \in Ports : out[p].sync_pending => sync_mode

LiveSlots(o) == HasTwoSources(o) /\ o.ageA <= MergeTimeout /\ o.ageB <= MergeTimeout

(* Two live sources keep their slots against any third one; only           *)
(* AcCancelMerge and a change of direction evict them.                     *)
LiveSourcesKept ==
  [][\A p \in Ports :
       LiveSlots(out[p]) /\ ~out[p].cancel_merge_pending =>
         \/ /\ out'[p].ipA = out[p].ipA /\ out'[p].physicalA = out[p].physicalA
            /\ out'[p].ipB = out[p].ipB /\ out'[p].physicalB = out[p].physicalB
         \/ out'[p].ipA = None /\ out'[p].ipB = None]_vars

(* receive.c, handle_poll: "if we are told to send updates when node       *)
(* conditions change": a port that merges has been announced as merging,   *)
(* whatever ended its last merge.                                          *)
MergesAnnounced == ReplyOnChange => \A p \in Ports : out[p].merging => announced[p]

(* While the node is synchronised ArtDmx never reaches a port's output by  *)
(* itself, merged or not: the output moves only when a buffered frame is   *)
(* flushed, by ArtNzs, by the fail-safe level or by the clear command.     *)
SyncHoldsOutput ==
  [][\A p \in Ports :
       sync_mode /\ out'[p].data # out[p].data =>
         \/ out[p].sync_pending /\ ~out'[p].sync_pending
         \/ out'[p].nzs
         \/ out'[p].failsafe_triggered /\ ~out[p].failsafe_triggered
         \/ out'[p].length = 0]_vars

(* The fail-safe level is applied once: with nothing buffered, a port in   *)
(* fail-safe keeps its output until data or a clear command arrives, even  *)
(* when the fail-safe mode or the recorded scene is changed meanwhile.     *)
FailsafeHeld ==
  [][\A p \in Ports :
       /\ out[p].failsafe_triggered /\ ~out[p].sync_pending
       /\ out'[p].dmxAge >= FailsafeTimeout
       => out'[p].data = out[p].data \/ out'[p].length = 0]_vars

(* An ArtSync that keeps the node synchronised on account of another port, *)
(* while it passes over the frame that waits on port p.                    *)
SyncPassesOver(p) ==
  /\ out[p].sync_pending /\ out'[p].sync_pending
  /\ \E h \in Hosts :
       /\ HandleSync(h)
       /\ ~AcceptsSync(out[p], h)
       /\ \E q \in Ports \ {p} : AcceptsSync(out[q], h)

(* A buffered frame is output in the end: by an ArtSync of its controller, *)
(* by the next frame in non-synchronous mode, or by the ArtSync timeout,   *)
(* on every port and whether it merges or not.  Only an ArtSync that       *)
(* passes over the port and counts for another one, again and again, keeps *)
(* it waiting: handle_sync renews last_sync_time for the whole node.  An   *)
(* ArtSync no port takes part in does not.                                 *)
StagedReachesOutput ==
  \A p \in Ports :
    []<>(~out[p].sync_pending) \/ []<><<SyncPassesOver(p)>>_vars

(* Every loss of ArtDmx is noticed.  A port whose last frame is an ArtDmx  *)
(* still in time is out of fail-safe, whatever it went through before; and *)
(* a port out of fail-safe that hears nothing for the timeout goes there,  *)
(* unless frames come back first.  ArtNzs is no part of the promise: it    *)
(* renews last_dmx_time and leaves a port that is in fail-safe there, so   *)
(* that nobody notices when it stops (handle_nzs).                         *)
LossIsNoticed ==
  /\ [](\A p \in Ports :
         ~out[p].nzs /\ out[p].dmxAge \in 0 .. FailsafeTimeout - 1
           => ~out[p].failsafe_triggered)
  /\ \A p \in Ports :
       []<>(out[p].failsafe_triggered \/ out[p].dmxAge < FailsafeTimeout)

=============================================================================
