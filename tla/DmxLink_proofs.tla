--------------------------- MODULE DmxLink_proofs ---------------------------
(***************************************************************************)
(* A theorem about DmxLink, for any levels, sequence numbers and timeouts. *)
(***************************************************************************)
EXTENDS DmxLink, TLAPS

(* The number that comes k sends after the number s.                       *)
After(s, k) == IF s + k <= SeqMax THEN s + k ELSE s + k - SeqMax

Frames == [kind : {"dmx", "nzs"}, seq : 1 .. SeqMax, level : Levels \cup {None},
           behind : 1 .. SeqMax]
InputPort == [addr : Universes, enabled : BOOLEAN, disabled : BOOLEAN, seq : 1 .. SeqMax,
              last : Levels \cup {None}, age : {Never} \cup 0 .. Keepalive]

(* From the number of an ArtDmx on its way to that of the port it is as    *)
(* many steps as frames were sent since, until the numbers repeat.         *)
FrameOK(f, seq) == f.kind = "dmx" /\ f.behind < SeqMax => seq = After(f.seq, f.behind)

NumberInv ==
  /\ port \in InputPort /\ net \subseteq Frames
  /\ \A f \in net : FrameOK(f, port.seq)

LEMMA NumberFacts == SeqMax \in Nat /\ SeqMax > 1 /\ Keepalive \in Nat
BY SequenceAssumption, KeepaliveAssumption

LEMMA NumberInit == Init => NumberInv
BY NumberFacts DEF Init, NumberInv, InputPort, Universes

LEMMA NextIsNumber ==
  ASSUME NEW s \in 1 .. SeqMax
  PROVE  NextSeq(s) \in 1 .. SeqMax /\ NextSeq(s) = After(s, 1)
BY NumberFacts DEF NextSeq, After

LEMMA OneLater ==
  ASSUME NEW s \in 1 .. SeqMax, NEW k \in 1 .. SeqMax, k + 1 < SeqMax
  PROVE  NextSeq(After(s, k)) = After(s, k + 1)
BY NumberFacts DEF NextSeq, After

LEMMA OlderFrame ==
  ASSUME NEW f \in Frames, NEW n \in 1 .. SeqMax
  PROVE  /\ Older(f, n) \in Frames
         /\ Older(f, n).kind = f.kind /\ Older(f, n).seq = f.seq
         /\ Older(f, n).behind = IF f.behind + n < SeqMax THEN f.behind + n ELSE SeqMax
<1> DEFINE b == IF f.behind + n < SeqMax THEN f.behind + n ELSE SeqMax
<1>1. b \in 1 .. SeqMax
  BY NumberFacts DEF Frames
<1>2. Older(f, n) = [f EXCEPT !.behind = b]
  BY DEF Older
<1> HIDE DEF b
<1>3. Older(f, n) \in Frames /\ Older(f, n).kind = f.kind /\ Older(f, n).seq = f.seq
      /\ Older(f, n).behind = b
  BY <1>1, <1>2 DEF Frames
<1> QED BY <1>3 DEF b

(* A send ages the frames before it by one, and the port moves on by one.  *)
LEMMA OvertakenFrames ==
  ASSUME NumberInv
  PROVE  /\ Overtaken(1) \subseteq Frames
         /\ \A g \in Overtaken(1) : FrameOK(g, NextSeq(port.seq))
<1>1. 1 \in 1 .. SeqMax /\ port.seq \in 1 .. SeqMax
  BY NumberFacts DEF NumberInv, InputPort
<1> SUFFICES ASSUME NEW f \in net
             PROVE  Older(f, 1) \in Frames /\ FrameOK(Older(f, 1), NextSeq(port.seq))
  BY DEF Overtaken
<1>2. f \in Frames /\ FrameOK(f, port.seq)
  BY DEF NumberInv
<1>3. /\ Older(f, 1) \in Frames
      /\ Older(f, 1).kind = f.kind /\ Older(f, 1).seq = f.seq
      /\ Older(f, 1).behind = IF f.behind + 1 < SeqMax THEN f.behind + 1 ELSE SeqMax
  BY <1>1, <1>2, OlderFrame
<1>4. f.seq \in 1 .. SeqMax /\ f.behind \in 1 .. SeqMax
  BY <1>2 DEF Frames
<1>5. ASSUME f.kind = "dmx", Older(f, 1).behind < SeqMax
      PROVE  NextSeq(port.seq) = After(f.seq, Older(f, 1).behind)
  <2>1. f.behind + 1 < SeqMax /\ f.behind < SeqMax /\ Older(f, 1).behind = f.behind + 1
    BY <1>3, <1>4, <1>5, NumberFacts
  <2>2. port.seq = After(f.seq, f.behind)
    BY <1>2, <1>5, <2>1 DEF FrameOK
  <2>3. NextSeq(After(f.seq, f.behind)) = After(f.seq, f.behind + 1)
    BY <1>4, <2>1, OneLater
  <2> QED BY <2>1, <2>2, <2>3
<1>6. FrameOK(Older(f, 1), NextSeq(port.seq))
  BY <1>3, <1>5 DEF FrameOK
<1> QED BY <1>3, <1>6

LEMMA SentFrame ==
  ASSUME NumberInv, NEW kind \in {"dmx", "nzs"}, NEW level \in Levels \cup {None}
  PROVE  /\ Sent(kind, level) \in Frames
         /\ FrameOK(Sent(kind, level), NextSeq(port.seq))
<1>1. port.seq \in 1 .. SeqMax /\ 1 \in 1 .. SeqMax
  BY NumberFacts DEF NumberInv, InputPort
<1>2. Sent(kind, level) \in Frames
  BY <1>1 DEF Sent, Frames
<1>3. NextSeq(port.seq) = After(port.seq, 1)
  BY <1>1, NextIsNumber
<1>4. Sent(kind, level).seq = port.seq /\ Sent(kind, level).behind = 1
  BY DEF Sent
<1> QED BY <1>2, <1>3, <1>4 DEF FrameOK

LEMMA SendDmxNumbers ==
  ASSUME NumberInv, NEW level \in Levels \cup {None}, NEW arrives, SendDmx(level, arrives)
  PROVE  NumberInv'
<1>1. port \in InputPort /\ port.seq \in 1 .. SeqMax /\ 0 \in 0 .. Keepalive
  BY NumberFacts DEF NumberInv, InputPort
<1>2. NextSeq(port.seq) \in 1 .. SeqMax
  BY <1>1, NextIsNumber
<1>3. port' \in InputPort /\ port'.seq = NextSeq(port.seq)
  BY <1>1, <1>2 DEF SendDmx, Stored, InputPort
<1>4. net' \subseteq Overtaken(1) \cup {Sent("dmx", level)}
  BY DEF SendDmx
<1> QED BY <1>3, <1>4, OvertakenFrames, SentFrame DEF NumberInv

LEMMA SendNzsNumbers ==
  ASSUME NumberInv, NEW level \in Levels, artnet_tx_nzs(level)
  PROVE  NumberInv'
<1>1. port \in InputPort /\ port.seq \in 1 .. SeqMax
  BY NumberFacts DEF NumberInv, InputPort
<1>2. NextSeq(port.seq) \in 1 .. SeqMax
  BY <1>1, NextIsNumber
<1>3. Sent("nzs", level) \in Frames /\ Sent("nzs", level).kind = "nzs"
  BY SentFrame DEF Sent
<1>4. \A seq : FrameOK(Sent("nzs", level), seq)
  BY <1>3 DEF FrameOK
<1>5. PICK arrives, fails \in BOOLEAN :
        /\ port' = IF fails THEN port ELSE [port EXCEPT !.seq = NextSeq(@)]
        /\ net' = (IF fails THEN net ELSE Overtaken(1))
                    \cup {f \in {Sent("nzs", level)} : arrives}
  BY DEF artnet_tx_nzs
<1>6. CASE fails
  <2>1. port' = port /\ net' \subseteq net \cup {Sent("nzs", level)}
    BY <1>5, <1>6
  <2> QED BY <1>3, <1>4, <2>1 DEF NumberInv
<1>7. CASE ~fails
  <2>1. port' = [port EXCEPT !.seq = NextSeq(@)]
        /\ net' \subseteq Overtaken(1) \cup {Sent("nzs", level)}
    BY <1>5, <1>7
  <2>2. port' \in InputPort /\ port'.seq = NextSeq(port.seq)
    BY <1>1, <1>2, <2>1 DEF InputPort
  <2> QED BY <1>3, <1>4, <2>1, <2>2, OvertakenFrames DEF NumberInv
<1> QED BY <1>6, <1>7

LEMMA MoveNumbers ==
  ASSUME NumberInv, NEW u \in Universes, artnet_set_port_addr(u)
  PROVE  NumberInv'
<1>1. CASE port' = port
  BY <1>1 DEF NumberInv, artnet_set_port_addr
<1>2. CASE port' # port
  <2>1. port' = [port EXCEPT !.enabled = TRUE, !.addr = u, !.seq = 1]
        /\ net' = Overtaken(SeqMax)
    BY <1>2 DEF artnet_set_port_addr
  <2>2. port \in InputPort /\ net \subseteq Frames /\ 1 \in 1 .. SeqMax
        /\ SeqMax \in 1 .. SeqMax
    BY NumberFacts DEF NumberInv
  <2>3. port' \in InputPort
    BY <2>1, <2>2 DEF InputPort
  <2>4. ASSUME NEW f \in net
        PROVE  Older(f, SeqMax) \in Frames /\ Older(f, SeqMax).behind = SeqMax
    <3>1. f \in Frames /\ f.behind \in 1 .. SeqMax
      BY <2>2 DEF Frames
    <3>2. ~(f.behind + SeqMax < SeqMax)
      BY <3>1, NumberFacts
    <3> QED BY <2>2, <3>1, <3>2, OlderFrame
  <2>5. \A g \in net' : g \in Frames /\ g.behind = SeqMax
    BY <2>1, <2>4 DEF Overtaken
  <2>6. \A g \in net' : FrameOK(g, port'.seq)
    BY <2>5, NumberFacts DEF FrameOK
  <2> QED BY <2>3, <2>5, <2>6 DEF NumberInv
<1> QED BY <1>1, <1>2

LEMMA OtherNumbers ==
  ASSUME NumberInv, port'.seq = port.seq, port' \in InputPort, net' \subseteq net
  PROVE  NumberInv'
BY DEF NumberInv

LEMMA CallsNumbers ==
  ASSUME NumberInv, Calls
  PROVE  NumberInv'
<1>1. CASE \E level \in Levels : artnet_send_dmx(level)
  BY <1>1, SendDmxNumbers DEF artnet_send_dmx
<1>2. CASE \E level \in Levels : artnet_tx_nzs(level)
  BY <1>2, SendNzsNumbers
<1>3. CASE \E u \in Universes : artnet_set_port_addr(u)
  BY <1>3, MoveNumbers
<1>4. CASE \E disabled \in BOOLEAN : _artnet_handle_input(disabled)
  <2>1. PICK disabled \in BOOLEAN : _artnet_handle_input(disabled)
    BY <1>4
  <2>2. port' \in InputPort /\ port'.seq = port.seq /\ net' = net
    BY <2>1 DEF _artnet_handle_input, NumberInv, InputPort
  <2> QED BY <2>2, OtherNumbers
<1> QED BY <1>1, <1>2, <1>3, <1>4 DEF Calls

LEMMA TickNumbers ==
  ASSUME NumberInv, Tick
  PROVE  NumberInv'
<1> DEFINE age == IF port.age = Never \/ port.age = Keepalive THEN port.age ELSE port.age + 1
<1>1. port \in InputPort /\ port.age \in {Never} \cup 0 .. Keepalive
  BY DEF NumberInv, InputPort
<1>2. age \in {Never} \cup 0 .. Keepalive
  BY <1>1, NumberFacts DEF Never
<1>3. port' = [port EXCEPT !.age = age] /\ net' = net
  BY DEF Tick
<1> HIDE DEF age
<1>4. port' \in InputPort /\ port'.seq = port.seq
  BY <1>1, <1>2, <1>3 DEF InputPort
<1> QED BY <1>3, <1>4, OtherNumbers

LEMMA NumberStep == NumberInv /\ [Next]_vars => NumberInv'
<1> SUFFICES ASSUME NumberInv, [Next]_vars PROVE NumberInv'
  OBVIOUS
<1>1. CASE Calls
  BY <1>1, CallsNumbers
<1>2. CASE \E arrives \in BOOLEAN : SendKeepalive(arrives)
  <2>1. port.last \in Levels \cup {None}
    BY DEF NumberInv, InputPort
  <2> QED BY <1>2, <2>1, SendDmxNumbers DEF SendKeepalive
<1>3. CASE \E f \in net : Deliver(f)
  <2>1. port' = port /\ net' \subseteq net
    BY <1>3 DEF Deliver
  <2> QED BY <2>1, OtherNumbers DEF NumberInv
<1>4. CASE ReceiverOther \/ ReceiverChecks \/ UNCHANGED vars
  <2>1. port' = port /\ net' = net
    BY <1>4 DEF ReceiverOther, ReceiverChecks, vars
  <2> QED BY <2>1, OtherNumbers DEF NumberInv
<1>5. CASE Tick
  BY <1>5, TickNumbers
<1> QED BY <1>1, <1>2, <1>3, <1>4, <1>5 DEF Next

(* However sends fail, frames overtake one another and the port moves, no  *)
(* ArtDmx on its way has the number artnet_send_dmx gives the next one,    *)
(* until the numbers repeat.                                               *)
THEOREM NumbersOrderFrames == Spec => []SequenceSound
<1>1. NumberInv => SequenceSound
  <2> SUFFICES ASSUME NumberInv PROVE SequenceSound
    OBVIOUS
  <2>1. port.seq \in 1 .. SeqMax /\ \A f \in net : f.seq \in 1 .. SeqMax
    BY DEF NumberInv, InputPort, Frames
  <2>2. ASSUME NEW f \in net, f.kind = "dmx", f.behind < SeqMax
        PROVE  f.seq # port.seq
    <3>1. f.seq \in 1 .. SeqMax /\ f.behind \in 1 .. SeqMax
      BY DEF NumberInv, Frames
    <3>2. port.seq = After(f.seq, f.behind)
      BY <2>2 DEF NumberInv, FrameOK
    <3>3. After(f.seq, f.behind) # f.seq
      BY <3>1, <2>2, NumberFacts DEF After
    <3> QED BY <3>2, <3>3
  <2>3. port.seq # 0 /\ \A f \in net : f.seq # 0
    BY <2>1, NumberFacts
  <2> QED BY <2>2, <2>3 DEF SequenceSound
<1> QED BY <1>1, NumberInit, NumberStep, PTL DEF Spec
=============================================================================
