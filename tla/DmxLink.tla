------------------------------ MODULE DmxLink -------------------------------
(***************************************************************************)
(* From an input port of one node to an output port of another: the        *)
(* application of the first plays DMX into its port, artnet_send_dmx sends *)
(* it with the sequence number of the port, a keepalive repeats the last   *)
(* frame when nothing else is sent, and the second node outputs what       *)
(* arrives.  The output port is the one of module OutputPort.              *)
(*                                                                         *)
(* The network loses and reorders frames.  A frame is lost when it is sent *)
(* or else waits in `net' until the receiver reads it.                     *)
(***************************************************************************)
EXTENDS Integers, FiniteSets

CONSTANTS
  MaxLevel,        (* the highest DMX level                                *)
  SeqMax,          (* the last sequence number, 255 in the code            *)
  Keepalive,       (* DMX_KEEPALIVE_INTERVAL_MS, in ticks                  *)
  FailsafeTimeout, (* DMX_FAILSAFE_TIMEOUT_MS, in ticks                    *)
  SyncTimeout, MergeTimeout,
  None,
  MaxCalls,        (* bound: calls and packets to the sending node         *)
  MaxInFlight      (* bound: frames on their way                           *)

ASSUME SequenceAssumption == SeqMax \in Nat /\ SeqMax > 1
ASSUME KeepaliveAssumption == Keepalive \in Nat /\ Keepalive > FailsafeTimeout

VARIABLES
  port,    (* the input port of the sender                                 *)
  net,     (* the frames on their way                                      *)
  calls,
  out, sync_mode, syncAge, failsafe_mode, announced, pc  (* the receiver   *)

Receiver == INSTANCE OutputPort WITH
  PortCount <- 1, UniverseOf <- [p \in {0} |-> 0], Hosts <- {"sender"}, Physicals <- {0},
  Commands <- {"FAIL_ZERO"}, NzsUniverses <- {0}, ReplyOnChange <- FALSE

receiver == <<out, sync_mode, syncAge, failsafe_mode, announced, pc>>
vars == <<port, net, calls, receiver>>

Universes == {0, 1}  \* the output port is on universe 0
Never == -1          \* the age of last_dmx_send_time = 0
Levels == 0 .. MaxLevel

-----------------------------------------------------------------------------
(* The sending node.                                                       *)

(* Mutant: the number wraps to 0, which tells receivers not to check it.   *)
MutNextSeq(seq) == (seq + 1) % (SeqMax + 1)
NextSeq(seq) == IF seq = SeqMax THEN 1 ELSE seq + 1

(* Besides what it carries, a frame in `net' has the number of sends after *)
(* it, as far as there are sequence numbers.                               *)
Older(f, n) == [f EXCEPT !.behind = IF @ + n < SeqMax THEN @ + n ELSE SeqMax]
Overtaken(n) == {Older(f, n) : f \in net}

(* A frame goes to the nodes listed for the universe of the port, and on   *)
(* the way to the receiver it is lost, or not.                             *)
Arrives == port.addr = 0 /\ Cardinality(net) < MaxInFlight
Sent(kind, level) == [kind |-> kind, seq |-> port.seq, level |-> level, behind |-> 1]

(* Mutant: the time is not stored.                                         *)
MutStored(level) == [port EXCEPT !.seq = NextSeq(@), !.last = level]
Stored(level) == [port EXCEPT !.seq = NextSeq(@), !.last = level, !.age = 0]

SendDmx(level, arrives) ==
  /\ ~port.disabled
  /\ arrives => Arrives
  /\ port' = Stored(level)
  /\ net' = Overtaken(1) \cup {f \in {Sent("dmx", level)} : arrives}
  /\ UNCHANGED receiver

artnet_send_dmx(level) == \E arrives \in BOOLEAN : SendDmx(level, arrives)

(* When the send to one of the subscribers fails, the number is not taken  *)
(* on, although the frame may have reached another one.                    *)
artnet_tx_nzs(level) ==
  /\ ~port.disabled
  /\ \E arrives, fails \in BOOLEAN :
       /\ arrives => Arrives
       /\ port' = IF fails THEN port ELSE [port EXCEPT !.seq = NextSeq(@)]
       /\ net' = (IF fails THEN net ELSE Overtaken(1))
                   \cup {f \in {Sent("nzs", level)} : arrives}
  /\ UNCHANGED receiver

(* A new address starts the numbers again.                                 *)
artnet_set_port_addr(u) ==
  /\ port' = IF port.enabled /\ port.addr = u THEN port
             ELSE [port EXCEPT !.enabled = TRUE, !.addr = u, !.seq = 1]
  /\ net' = IF port' = port THEN net ELSE Overtaken(SeqMax)
  /\ UNCHANGED receiver

_artnet_handle_input(disabled) ==
  /\ port' = [port EXCEPT !.disabled = disabled]
  /\ UNCHANGED <<net, receiver>>

KeepaliveDue == port.enabled /\ port.age = Keepalive /\ port.last # None

(* check_timeouts of the sender; on a disabled port artnet_send_dmx        *)
(* refuses.                                                                *)
SendKeepalive(arrives) ==
  /\ KeepaliveDue
  /\ SendDmx(port.last, arrives)
  /\ UNCHANGED calls

Calls ==
  /\ calls < MaxCalls /\ calls' = calls + 1
  /\ \/ \E level \in Levels : artnet_send_dmx(level) \/ artnet_tx_nzs(level)
     \/ \E u \in Universes : artnet_set_port_addr(u)
     \/ \E disabled \in BOOLEAN : _artnet_handle_input(disabled)

-----------------------------------------------------------------------------
(* The receiving node; it does not look at the sequence number.            *)

Deliver(f) ==
  /\ f \in net
  /\ net' = net \ {f}
  /\ IF f.kind = "dmx"
     THEN Receiver!HandleDmx(0, [src |-> "sender", physical |-> 0, level |-> f.level])
     ELSE Receiver!HandleNzs(0, f.level)
  /\ UNCHANGED <<port, calls>>

ReceiverOther ==
  /\ \/ Receiver!NoOutputPacket
     \/ Receiver!HandleAddress("FAIL_ZERO")
  /\ UNCHANGED <<port, net, calls>>

ReceiverChecks == Receiver!CheckTimeouts /\ UNCHANGED <<port, net, calls>>

Tick ==
  /\ Receiver!Tick
  /\ port' = [port EXCEPT !.age = IF @ = Never \/ @ = Keepalive THEN @ ELSE @ + 1]
  /\ UNCHANGED <<net, calls>>

-----------------------------------------------------------------------------
Init ==
  /\ port = [addr |-> 0, enabled |-> FALSE, disabled |-> FALSE, seq |-> 1, last |-> None,
             age |-> Never]
  /\ net = {} /\ calls = 0
  /\ Receiver!Init

Next ==
  \/ Calls
  \/ \E arrives \in BOOLEAN : SendKeepalive(arrives)
  \/ \E f \in net : Deliver(f)
  \/ ReceiverOther \/ ReceiverChecks \/ Tick

Spec == Init /\ [][Next]_vars

(* Both nodes call artnet_read over and over: what is due is sent and what *)
(* waits is read.  A network that lets something through does not lose     *)
(* every repetition of a frame.                                            *)
FairSpec ==
  /\ Spec
  /\ WF_vars(Tick) /\ WF_vars(ReceiverChecks)
  /\ WF_vars(\E arrives \in BOOLEAN : SendKeepalive(arrives))
  /\ SF_vars(SendKeepalive(TRUE))
  /\ \A level \in Levels : SF_vars(\E f \in net : f.level = level /\ Deliver(f))

-----------------------------------------------------------------------------
(* No frame carries the number 0, and no ArtDmx frame still on its way     *)
(* carries the number of the next one, unless as many frames as there are  *)
(* numbers were sent after it or the port has a new address: receivers     *)
(* that order frames by their numbers can do so.                           *)
SequenceSound ==
  /\ port.seq # 0 /\ \A f \in net : f.seq # 0
  /\ \A f \in net : f.kind = "dmx" /\ f.behind < SeqMax => f.seq # port.seq

(* The last frame the application plays into an enabled port is output     *)
(* again and again by the receiver, even if it was lost, an older frame    *)
(* overtook it, or the receiver went to fail-safe between two keepalives.  *)
Settles ==
  \A level \in Levels :
    <>[](port.addr = 0 /\ port.enabled /\ ~port.disabled /\ port.last = level)
      => []<>(out[0].data = level)
=============================================================================
