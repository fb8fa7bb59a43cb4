---------------------------- MODULE Responder_proofs ----------------------------
(***************************************************************************)
(* Theorems about Responder, for any controllers, packets and ports.       *)
(***************************************************************************)
EXTENDS Responder, FiniteSetTheorems, TLAPS

-----------------------------------------------------------------------------
(* Who gets an answer.                                                     *)

(* The addresses the node keeps are of hosts that may claim all kinds of   *)
(* answers sent there.                                                     *)
AddressesOK ==
  /\ claims \in [Followed -> SUBSET Hosts]
  /\ \A kind \in Followed :
       IF kind = "rdm" THEN rdm_reply_addr \in claims[kind] \cup {NoHost}
                       ELSE reply_addr \in claims[kind] \cup {NoHost}

(* Packet p has left for an address the node has at that moment.           *)
Addressed(p) ==
  \/ p.type \in {"reply", "directoryreply", "filefnreply", "diagdata"}
     /\ p.to = reply_addr /\ reply_addr # NoHost
  \/ p.type \in {"rdm", "rdmsub"} /\ p.to = rdm_reply_addr /\ rdm_reply_addr # NoHost
  \/ p.to = Broadcast
  \/ p.type \in {"ipreply", "firmwarereply", "nzs"}

AnswersInv == AddressesOK /\ \A p \in sent : Addressed(p)

LEMMA AnswersFollow == AnswersInv => AnswersGoToRequesters
<1> SUFFICES ASSUME AnswersInv, NEW p \in sent, Kind(p) \in Followed, p.to # Broadcast
             PROVE  p.to \in claims[Kind(p)]
  BY DEF AnswersGoToRequesters
<1>1. Addressed(p)
  BY DEF AnswersInv
<1>2. CASE p.type \in {"rdm", "rdmsub"}
  BY <1>1, <1>2 DEF AnswersInv, AddressesOK, Addressed, Kind
<1>3. CASE p.type \in {"reply", "directoryreply", "filefnreply", "diagdata"}
  BY <1>1, <1>3 DEF AnswersInv, AddressesOK, Addressed, Kind
<1>4. CASE p.type \in {"ipreply", "firmwarereply", "nzs"}
  BY <1>4, FollowedAssumption DEF Kind
<1> QED BY <1>1, <1>2, <1>3, <1>4 DEF Addressed

(* What the transmitting functions make.                                   *)
LEMMA Transmitted ==
  ASSUME NEW to
  PROVE  /\ \A p \in artnet_tx_poll_reply(to) : p.type = "reply" /\ p.to = to
         /\ \A p \in artnet_tx_ipprog_reply(to) : p.type = "ipreply" /\ p.to = to
         /\ \A p \in artnet_tx_directory_reply(to) : p.type = "directoryreply" /\ p.to = to
         /\ \A n : \A p \in tx_directory_entries(to, n) : p.type = "directoryreply" /\ p.to = to
         /\ \A m, n : \A p \in artnet_tx_file_fn_reply(to, m, n) : p.type = "filefnreply" /\ p.to = to
         /\ \A n : \A p \in artnet_tx_rdm(to, n) : p.type = "rdm" /\ p.to = to
         /\ \A m, n : \A p \in artnet_tx_rdmsub(to, m, n) : p.type = "rdmsub" /\ p.to = to
         /\ \A m, n : \A p \in artnet_tx_diagdata(to, m, n) : p.type = "diagdata" /\ p.to = to
         /\ \A c : \A p \in artnet_tx_firmware_reply(to, c) : p.type = "firmwarereply" /\ p.to = to
BY DEF artnet_tx_poll_reply, artnet_tx_ipprog_reply, artnet_tx_directory_reply,
       tx_directory_entries, artnet_tx_file_fn_reply, artnet_tx_rdm, artnet_tx_rdmsub,
       artnet_tx_diagdata, artnet_tx_firmware_reply, SendIf, Packet

LEMMA VlcTransmitted ==
  ASSUME NEW data
  PROVE  \A p \in VlcPackets(Hosts, data) : p.type = "nzs" /\ p.to \in Hosts
BY DEF VlcPackets, NzsPackets, Packet

LEMMA RepliesAddressed == \A p \in Replies : Addressed(p)
BY Transmitted DEF Replies, ReplyTarget, Addressed

LEMMA SameAddresses ==
  ASSUME AddressesOK, UNCHANGED <<requesters, claims>>
  PROVE  AddressesOK'
BY DEF AddressesOK, requesters

LEMMA SilenceKeeps ==
  ASSUME AddressesOK', sent' = {}
  PROVE  AnswersInv'
BY DEF AnswersInv

(* What a handler does to the addresses: a request puts its sender in one  *)
(* of them, and nothing else changes them.                                 *)
Readdressed(p, from, consumed) ==
  \/ /\ IsRequest(p, consumed) /\ p.type \notin {"rdm", "rdmsub"}
     /\ reply_addr' = from /\ rdm_reply_addr' = rdm_reply_addr
  \/ /\ IsRequest(p, consumed) /\ p.type \in {"rdm", "rdmsub"}
     /\ rdm_reply_addr' = from /\ reply_addr' = reply_addr
  \/ ~IsRequest(p, consumed) /\ UNCHANGED requesters

LEMMA ClaimsFollow ==
  ASSUME AddressesOK, NEW from \in Hosts, NEW p \in Incoming, NEW consumed \in BOOLEAN,
         Readdressed(p, from, consumed),
         claims' = IF IsRequest(p, consumed) THEN ClaimsAfter(p, from) ELSE claims
  PROVE  AddressesOK'
<1>1. CASE ~IsRequest(p, consumed)
  BY <1>1, SameAddresses DEF Readdressed
<1>2. CASE IsRequest(p, consumed)
  <2>1. claims' = ClaimsAfter(p, from)
    BY <1>2
  <2>2. claims' \in [Followed -> SUBSET Hosts]
    BY <2>1 DEF ClaimsAfter, AddressesOK
  <2>3. \A kind \in Followed : kind \in AsksFor(p) => claims'[kind] = {from}
    BY <2>1 DEF ClaimsAfter
  <2>4. \A kind \in Followed :
          kind \notin AsksFor(p) =>
            claims'[kind] = IF (kind = "rdm") = (p.type \in {"rdm", "rdmsub"})
                            THEN claims[kind] \cup {from} ELSE claims[kind]
    BY <2>1 DEF ClaimsAfter
  <2>5. p.type \in {"rdm", "rdmsub"} => AsksFor(p) = {"rdm"}
    BY DEF AsksFor
  <2>6. p.type \notin {"rdm", "rdmsub"} => "rdm" \notin AsksFor(p)
    BY DEF AsksFor
  <2>7. CASE p.type \in {"rdm", "rdmsub"}
    <3>1. rdm_reply_addr' = from /\ reply_addr' = reply_addr
      BY <1>2, <2>7 DEF Readdressed
    <3> QED BY <2>2, <2>3, <2>4, <2>5, <2>7, <3>1 DEF AddressesOK
  <2>8. CASE p.type \notin {"rdm", "rdmsub"}
    <3>1. reply_addr' = from /\ rdm_reply_addr' = rdm_reply_addr
      BY <1>2, <2>8 DEF Readdressed
    <3>2. ASSUME NEW kind \in Followed, kind # "rdm"
          PROVE  reply_addr' \in claims'[kind]
      <4>1. CASE kind \in AsksFor(p)
        BY <2>3, <3>1, <4>1
      <4>2. CASE kind \notin AsksFor(p)
        <5>1. (kind = "rdm") = FALSE /\ (p.type \in {"rdm", "rdmsub"}) = FALSE
          BY <2>8, <3>2
        <5>2. claims'[kind] = claims[kind] \cup {from}
          BY <2>4, <4>2, <5>1
        <5> QED BY <3>1, <5>2
      <4> QED BY <4>1, <4>2
    <3>3. "rdm" \in Followed => claims'["rdm"] = claims["rdm"]
      BY <2>4, <2>6, <2>8
    <3>4. "rdm" \in Followed => rdm_reply_addr \in claims["rdm"] \cup {NoHost}
      BY DEF AddressesOK
    <3> QED BY <2>2, <3>1, <3>2, <3>3, <3>4 DEF AddressesOK
  <2> QED BY <2>7, <2>8
<1> QED BY <1>1, <1>2

(* Each handler readdresses as its packet demands and sends accordingly.   *)
LEMMA HandleAnswers ==
  ASSUME NEW from \in Hosts, NEW p \in Incoming, NEW consumed \in BOOLEAN,
         handle(p, from, consumed)
  PROVE  Readdressed(p, from, consumed) /\ \A x \in sent' : Addressed(x)'
<1> DEFINE Goal == Readdressed(p, from, consumed) /\ \A x \in sent' : Addressed(x)'
<1>h. from # NoHost
  BY HostAssumption
<1>1. CASE p \notin Sound /\ Refused
  BY <1>1 DEF Readdressed, IsRequest, Refused
<1>2. CASE p.type = UnknownType /\ Refused
  BY <1>2 DEF Readdressed, IsRequest, Refused, UnknownType
<1>3. CASE (p.type \in PassedOn \/ (consumed /\ p.type \in Consumable)) /\ Ignored
  BY <1>3 DEF Readdressed, IsRequest, Ignored, PassedOn, Consumable
<1>4. ASSUME p \in Sound, consumed => p.type \notin Consumable
      PROVE  /\ p.type = "poll" => ~consumed
             /\ p.type \in {"address", "input"} => ~consumed
             /\ p.type = "filetnmaster" => ~consumed
  BY <1>4 DEF Consumable
<1>5. CASE p \in Sound /\ ~consumed /\ p.type = "poll" /\ handle_poll(p.body, from)
  <2>1. node_type # "raw" /\ AsksForReply(from) /\ sent' = {}
    BY <1>5 DEF handle_poll
  <2> QED BY <1>5, <2>1 DEF Readdressed, IsRequest, AsksForReply
<1>6. CASE p.type = "poll" /\ node_type = "raw" /\ Ignored
  BY <1>6 DEF Readdressed, IsRequest, Ignored
<1>7. CASE p \in Sound /\ ~consumed /\ p.type \in {"address", "input"} /\ Programmed(p, from)
  <2>1. /\ node_type \in {"node", "msrv"} /\ p.body.bindIndex = 1
        /\ AsksForReply(from) /\ sent' = artnet_tx_poll_reply(from)
    BY <1>7 DEF Programmed
  <2>2. Readdressed(p, from, consumed)
    BY <1>7, <2>1 DEF Readdressed, IsRequest, AsksForReply
  <2> QED BY <1>h, <2>1, <2>2, Transmitted DEF Addressed, AsksForReply
<1>8. CASE p \in Sound /\ p.type = "ipprog" /\ handle_ipprog(p, from, consumed)
  <2>1. AsksForReply(from)
    BY <1>8 DEF handle_ipprog
  <2>2. sent' \subseteq artnet_tx_ipprog_reply(from) \cup artnet_tx_poll_reply(from)
    BY <1>8 DEF handle_ipprog
  <2>3. Readdressed(p, from, consumed)
    BY <1>8, <2>1 DEF Readdressed, IsRequest, AsksForReply
  <2> QED BY <1>h, <2>1, <2>2, <2>3, Transmitted DEF Addressed, AsksForReply
<1>9. CASE p \in Sound /\ p.type = "directory" /\ handle_directory(from, consumed)
  <2>1. AsksForReply(from) /\ sent' \subseteq artnet_tx_directory_reply(from)
    BY <1>9 DEF handle_directory
  <2>2. Readdressed(p, from, consumed)
    BY <1>9, <2>1 DEF Readdressed, IsRequest, AsksForReply
  <2> QED BY <1>h, <2>1, <2>2, Transmitted DEF Addressed, AsksForReply
<1>10. CASE p \in Sound /\ p.type = "filefnmaster" /\ handle_file_fn_master(from)
  BY <1>10 DEF Readdressed, IsRequest, AsksForReply, handle_file_fn_master
<1>11. CASE p \in Sound /\ p.type \in {"rdm", "rdmsub"} /\ handle_rdm(from)
  BY <1>11 DEF Readdressed, IsRequest, handle_rdm
<1>12. CASE p.type = "filetnmaster" /\ handle_file_tn_master(p, from)
  <2>1. PICK code : sent' = artnet_tx_firmware_reply(from, code)
    BY <1>12 DEF handle_file_tn_master
  <2>2. Readdressed(p, from, consumed)
    BY <1>12 DEF Readdressed, IsRequest, handle_file_tn_master
  <2> QED BY <2>1, <2>2, Transmitted DEF Addressed
<1>13. CASE p.type = "dmx" /\ handle_dmx
  <2>1. sent' \subseteq Replies /\ UNCHANGED requesters
    BY <1>13 DEF handle_dmx
  <2>2. Readdressed(p, from, consumed)
    BY <1>13, <2>1 DEF Readdressed, IsRequest
  <2> QED BY <2>1, <2>2, RepliesAddressed DEF Addressed, requesters
<1> HIDE DEF Goal
<1> QED BY <1>1, <1>2, <1>3, <1>4, <1>5, <1>6, <1>7, <1>8, <1>9, <1>10, <1>11, <1>12, <1>13
     DEF handle, Goal

(* The calls of the application.                                           *)
LEMMA CallsAnswer ==
  ASSUME AddressesOK, Application
  PROVE  AnswersInv'
<1>1. ASSUME NEW packets, Answers(packets), \A p \in packets : Addressed(p)
      PROVE  AnswersInv'
  BY <1>1, SameAddresses DEF Answers, AnswersInv, Addressed, requesters
<1>2. \A to \in ReplyTarget : to = reply_addr /\ reply_addr # NoHost
  BY DEF ReplyTarget
<1>3. \A to \in RdmTarget : to = rdm_reply_addr /\ rdm_reply_addr # NoHost
  BY DEF RdmTarget
<1>4. CASE artnet_send_poll_reply
  BY <1>1, <1>4, RepliesAddressed DEF artnet_send_poll_reply
<1>5. CASE artnet_send_directory_reply
  <2> DEFINE packets == UNION {tx_directory_entries(to, 2049) : to \in ReplyTarget}
  <2>1. \A p \in packets : Addressed(p)
    BY <1>2, Transmitted DEF Addressed
  <2>2. Answers(packets)
    BY <1>5 DEF artnet_send_directory_reply
  <2> HIDE DEF packets
  <2> QED BY <1>1, <2>1, <2>2
<1>6. CASE artnet_send_file_fn_reply
  <2> DEFINE packets == UNION {artnet_tx_file_fn_reply(to, 1024, 1025) : to \in ReplyTarget}
  <2>1. \A p \in packets : Addressed(p)
    BY <1>2, Transmitted DEF Addressed
  <2>2. Answers(packets)
    BY <1>6 DEF artnet_send_file_fn_reply
  <2> HIDE DEF packets
  <2> QED BY <1>1, <2>1, <2>2
<1>7. CASE artnet_send_rdm
  <2> DEFINE packets == UNION {artnet_tx_rdm(to, 513) : to \in RdmTarget}
  <2>1. \A p \in packets : Addressed(p)
    BY <1>3, Transmitted DEF Addressed
  <2>2. Answers(packets)
    BY <1>7 DEF artnet_send_rdm
  <2> HIDE DEF packets
  <2> QED BY <1>1, <2>1, <2>2
<1>8. CASE artnet_send_rdmsub
  <2>1. PICK count \in {0, 1} :
          Answers(UNION {artnet_tx_rdmsub(to, count, 0) : to \in RdmTarget})
    BY <1>8 DEF artnet_send_rdmsub
  <2> DEFINE packets == UNION {artnet_tx_rdmsub(to, count, 0) : to \in RdmTarget}
  <2>2. \A p \in packets : Addressed(p)
    BY <1>3, Transmitted DEF Addressed
  <2>3. Answers(packets)
    BY <2>1
  <2> HIDE DEF packets
  <2> QED BY <1>1, <2>2, <2>3
<1>9. CASE artnet_send_diagnostic
  <2>1. PICK priority \in DiagPriorities :
          Answers(UNION {artnet_tx_diagdata(to, priority, 512) :
                           to \in IF diag.unicast THEN ReplyTarget ELSE {Broadcast}})
    BY <1>9 DEF artnet_send_diagnostic
  <2> DEFINE targets == IF diag.unicast THEN ReplyTarget ELSE {Broadcast}
             packets == UNION {artnet_tx_diagdata(to, priority, 512) : to \in targets}
  <2>2. \A to \in targets : (to = reply_addr /\ reply_addr # NoHost) \/ to = Broadcast
    BY <1>2
  <2>3. Answers(packets)
    BY <2>1
  <2> HIDE DEF targets
  <2>4. \A p \in packets : Addressed(p)
    BY <2>2, Transmitted DEF Addressed
  <2> HIDE DEF packets
  <2> QED BY <1>1, <2>3, <2>4
<1>10. CASE artnet_send_vlc
  BY <1>1, <1>10, VlcTransmitted DEF artnet_send_vlc, Addressed
<1> QED BY <1>4, <1>5, <1>6, <1>7, <1>8, <1>9, <1>10 DEF Application

LEMMA AnswersStep == AnswersInv /\ [Next]_vars => AnswersInv'
<1> SUFFICES ASSUME AnswersInv, [Next]_vars
             PROVE  AnswersInv'
  OBVIOUS
<1>1. AddressesOK
  BY DEF AnswersInv
<1>2. CASE artnet_start \/ artnet_stop
  BY <1>1, <1>2, SameAddresses, SilenceKeeps DEF artnet_start, artnet_stop, Turned
<1>3. CASE Receive
  <2>1. CASE Ignored /\ UNCHANGED claims
    BY <1>1, <2>1, SameAddresses, SilenceKeeps DEF Ignored
  <2>2. CASE ~(Ignored /\ UNCHANGED claims)
    <3>1. PICK from \in Hosts, p \in Incoming : \E consumed \in MayConsume(p) :
            /\ handle(p, from, consumed)
            /\ claims' = IF IsRequest(p, consumed) THEN ClaimsAfter(p, from) ELSE claims
      BY <1>3, <2>2 DEF Receive
    <3>2. PICK consumed \in BOOLEAN :
            /\ handle(p, from, consumed)
            /\ claims' = IF IsRequest(p, consumed) THEN ClaimsAfter(p, from) ELSE claims
      BY <3>1 DEF MayConsume
    <3>3. Readdressed(p, from, consumed) /\ \A x \in sent' : Addressed(x)'
      BY <3>2, HandleAnswers
    <3>4. AddressesOK'
      BY <1>1, <3>2, <3>3, ClaimsFollow
    <3> QED BY <3>3, <3>4 DEF AnswersInv
  <2> QED BY <2>1, <2>2
<1>4. CASE check_timeouts
  <2>1. AddressesOK' /\ UNCHANGED requesters
    BY <1>1, <1>4, SameAddresses DEF check_timeouts
  <2>2. sent' = {} \/ sent' = Replies
    BY <1>4 DEF check_timeouts
  <2> QED BY <2>1, <2>2, RepliesAddressed DEF AnswersInv, Addressed, requesters
<1>5. CASE Application
  BY <1>1, <1>5, CallsAnswer
<1>6. CASE Tick
  BY <1>1, <1>6, SameAddresses, SilenceKeeps DEF Tick
<1>7. CASE UNCHANGED vars
  BY <1>7 DEF AnswersInv, AddressesOK, Addressed, vars, requesters
<1> QED BY <1>2, <1>3, <1>4, <1>5, <1>6, <1>7 DEF Next

(* However requests of all kinds, delayed answers and other packets        *)
(* interleave, an answer goes to the host that asked for its kind last, or *)
(* to one that has made another request since.                             *)
THEOREM OnlyRequestsRedirect == Spec => []AnswersGoToRequesters
<1>1. Init => AnswersInv
  BY DEF Init, AnswersInv, AddressesOK
<1> QED BY <1>1, AnswersStep, AnswersFollow, PTL DEF Spec
-----------------------------------------------------------------------------
(* Who is told the diagnostics.                                            *)

Wanting == {h \in Hosts : lowest[h] < 256}

(* The strengthening of the last part of DiagnosticsShared: while the      *)
(* array of controllers has room it holds exactly those who want           *)
(* diagnostics, so one alone in it is the only one who wants them.         *)
DiagOK ==
  /\ lowest \in [Hosts -> 0 .. 256]
  /\ diag.priority \in 0 .. 255
  /\ diag.controllers \subseteq Wanting
  /\ Cardinality(diag.controllers) < MaxDiagControllers => Wanting \subseteq diag.controllers
  /\ diag.unicast => Cardinality(diag.controllers) <= 1
  /\ IF diag.enabled THEN \E h \in Hosts : lowest[h] <= diag.priority
                     ELSE diag.priority = 255
  /\ \A h \in Wanting : diag.enabled /\ diag.priority <= lowest[h]

(* A diagnostic is sent to all, or to the one host that wants it, and from *)
(* a priority some host asked for.                                         *)
Shared(p) ==
  p.type = "diagdata" =>
    /\ p.to # Broadcast => Cardinality(Wanting) = 1
    /\ \E h \in Hosts : p.body.priority >= lowest[h]

DiagInv == DiagOK /\ \A p \in sent : Shared(p)

LEMMA DiagnosticsFollow == DiagInv /\ AnswersGoToRequesters => DiagnosticsShared
<1> SUFFICES ASSUME DiagInv, AnswersGoToRequesters PROVE DiagnosticsShared
  OBVIOUS
<1>1. \A p \in sent : p.type = "diagdata" /\ p.to # Broadcast => p.to \in claims["diagdata"]
  BY FollowedAssumption DEF AnswersGoToRequesters, Kind
<1> QED BY <1>1 DEF DiagInv, DiagOK, Shared, Wanting, DiagnosticsShared

(* What is no diagnostic leaves the invariant alone.                       *)
LEMMA OtherPackets ==
  ASSUME DiagOK', \A p \in sent' : p.type # "diagdata"
  PROVE  DiagInv'
BY DEF DiagInv, Shared

LEMMA SameWishes ==
  ASSUME DiagOK, UNCHANGED <<diag, lowest>>
  PROVE  DiagOK'
BY DEF DiagOK, Wanting

LEMMA RepliesAreReplies == \A p \in Replies : p.type = "reply"
BY Transmitted DEF Replies

LEMMA SmallerFacts ==
  ASSUME NEW a \in Int, NEW b \in Int
  PROVE  /\ Smaller(a, b) \in {a, b}
         /\ Smaller(a, b) <= a /\ Smaller(a, b) <= b
BY DEF Smaller

(* A controller more that wants diagnostics: diag and lowest after it.     *)
LEMMA WantedByOneMore ==
  ASSUME DiagOK, NEW from \in Hosts, NEW q, q.priority \in 0 .. 255,
         diag' = DiagAfter(q, from),
         lowest' = [lowest EXCEPT ![from] = Smaller(@, q.priority)]
  PROVE  DiagOK'
<1> DEFINE was == diag.controllers
           are == diag'.controllers
<1>1. /\ lowest \in [Hosts -> 0 .. 256] /\ diag.priority \in 0 .. 255
      /\ was \subseteq Wanting
      /\ Cardinality(was) < MaxDiagControllers => Wanting \subseteq was
      /\ \A h \in Wanting : diag.enabled /\ diag.priority <= lowest[h]
  BY DEF DiagOK
<1>2. /\ diag'.enabled = TRUE
      /\ are = IF Cardinality(was) < MaxDiagControllers THEN was \cup {from} ELSE was
      /\ diag'.unicast = (Cardinality(are) <= 1 /\ q.unicast)
      /\ diag'.priority = Smaller(diag.priority, q.priority)
  BY DEF DiagAfter
<1> DEFINE wanted == Smaller(lowest[from], q.priority)
           least == Smaller(diag.priority, q.priority)
<1>p. /\ wanted \in 0 .. 256 /\ wanted \in {lowest[from], q.priority}
      /\ wanted <= lowest[from] /\ wanted <= q.priority
      /\ least \in 0 .. 255 /\ least \in {diag.priority, q.priority}
      /\ least <= diag.priority /\ least <= q.priority
  <2>1. lowest[from] \in 0 .. 256 /\ q.priority \in 0 .. 255 /\ diag.priority \in 0 .. 255
    BY <1>1
  <2>i. lowest[from] \in Int /\ q.priority \in Int /\ diag.priority \in Int
    BY <2>1
  <2>2. /\ wanted \in {lowest[from], q.priority}
        /\ wanted <= lowest[from] /\ wanted <= q.priority
    BY <2>i, SmallerFacts
  <2>3. /\ least \in {diag.priority, q.priority}
        /\ least <= diag.priority /\ least <= q.priority
    BY <2>i, SmallerFacts
  <2> HIDE DEF wanted, least
  <2> QED BY <2>1, <2>2, <2>3
<1>3. lowest' = [lowest EXCEPT ![from] = wanted] /\ diag'.priority = least
  BY <1>2
<1> HIDE DEF wanted, least
<1>4. Wanting' = Wanting \cup {from}
  BY <1>1, <1>3, <1>p DEF Wanting
<1>5. IsFiniteSet(was) /\ Cardinality(was) \in Nat /\ MaxDiagControllers \in Nat
  <2>1. was \in SUBSET Hosts
    BY <1>1 DEF Wanting
  <2> QED BY <2>1, HostAssumption, DiagAssumption, FS_Subset, FS_CardinalityType
<1> HIDE DEF was, are
<1>6. are \subseteq Wanting'
  BY <1>1, <1>2, <1>4
<1>7. Cardinality(are) < MaxDiagControllers => Wanting' \subseteq are
  BY <1>1, <1>2, <1>4, <1>5
<1>8. lowest' \in [Hosts -> 0 .. 256] /\ diag'.priority \in 0 .. 255
  BY <1>1, <1>2, <1>3, <1>p
<1>9. \E h \in Hosts : lowest'[h] <= diag'.priority
  <2>1. CASE least = q.priority
    <3>1. lowest'[from] = wanted
      BY <1>1, <1>3
    <3> QED BY <2>1, <3>1, <1>3, <1>p
  <2>2. CASE least = diag.priority /\ least # q.priority
    <3>1. PICK h \in Hosts : lowest[h] <= diag.priority
      BY <2>2, <1>1, <1>p DEF DiagOK
    <3>2. CASE h = from
      <4>1. lowest'[h] = wanted /\ wanted <= lowest[h]
        BY <3>2, <1>1, <1>3, <1>p
      <4>2. lowest[h] \in 0 .. 256 /\ diag.priority \in 0 .. 255
        BY <1>1
      <4>3. wanted <= diag.priority
        BY <3>1, <4>1, <4>2, <1>p
      <4> QED BY <2>2, <4>1, <4>3, <1>3
    <3>3. CASE h # from
      BY <2>2, <3>1, <3>3, <1>1, <1>3
    <3> QED BY <3>2, <3>3
  <2> QED BY <2>1, <2>2, <1>p
<1>10. \A h \in Wanting' : diag'.priority <= lowest'[h]
  <2>1. lowest'[from] = wanted
    BY <1>1, <1>3
  <2>2. least <= wanted
    <3>1. CASE wanted = q.priority
      BY <3>1, <1>p
    <3>2. CASE wanted = lowest[from] /\ wanted # q.priority
      <4>1. from \in Wanting
        BY <3>2, <1>1, <1>p DEF Wanting
      <4> QED BY <3>2, <4>1, <1>1, <1>p
    <3> QED BY <3>1, <3>2, <1>p
  <2>3. ASSUME NEW h \in Wanting, h # from
        PROVE  least <= lowest'[h]
    <3>1. lowest'[h] = lowest[h] /\ lowest[h] \in 0 .. 256
      BY <2>3, <1>1, <1>3 DEF Wanting
    <3>2. diag.priority <= lowest[h] /\ diag.priority \in 0 .. 255
      BY <2>3, <1>1
    <3>3. least \in Int /\ diag.priority \in Int /\ lowest[h] \in Int /\ least <= diag.priority
      BY <3>1, <3>2, <1>p
    <3> QED BY <3>1, <3>2, <3>3
  <2> QED BY <2>1, <2>2, <2>3, <1>3, <1>4
<1> QED BY <1>2, <1>6, <1>7, <1>8, <1>9, <1>10 DEF DiagOK, are

(* A poll counts its sender in, if it asks for diagnostics.                *)
LEMMA PollWishes ==
  ASSUME DiagOK, NEW from \in Hosts, NEW q, q.priority \in 0 .. 255, handle_poll(q, from)
  PROVE  DiagOK'
<1>1. \/ diag' = DiagAfter(q, from) /\ lowest' = [lowest EXCEPT ![from] = Smaller(@, q.priority)]
      \/ UNCHANGED <<diag, lowest>>
  BY DEF handle_poll
<1> QED BY <1>1, WantedByOneMore, SameWishes

LEMMA HandleShares ==
  ASSUME DiagOK, NEW from \in Hosts, NEW p \in Incoming, NEW consumed \in BOOLEAN,
         handle(p, from, consumed)
  PROVE  DiagInv'
<1>1. CASE Ignored \/ Refused
  BY <1>1, SameWishes, OtherPackets DEF Ignored, Refused, polled
<1>2. CASE p.type = "poll" /\ handle_poll(p.body, from)
  <2>1. p.body.priority \in 0 .. 255
    BY <1>2, IncomingAssumption
  <2>2. sent' = {}
    BY <1>2 DEF handle_poll
  <2> QED BY <1>2, <2>1, <2>2, PollWishes, OtherPackets
<1>3. CASE Programmed(p, from)
  BY <1>3, SameWishes, OtherPackets, Transmitted DEF Programmed, polled
<1>4. CASE handle_ipprog(p, from, consumed)
  <2>1. sent' \subseteq artnet_tx_ipprog_reply(from) \cup artnet_tx_poll_reply(from)
    BY <1>4 DEF handle_ipprog
  <2>2. \A x \in sent' : x.type # "diagdata"
    BY <2>1, Transmitted
  <2> QED BY <1>4, <2>2, SameWishes, OtherPackets DEF handle_ipprog, polled
<1>5. CASE handle_directory(from, consumed)
  BY <1>5, SameWishes, OtherPackets, Transmitted DEF handle_directory, polled
<1>6. CASE handle_file_fn_master(from)
  BY <1>6, SameWishes, OtherPackets DEF handle_file_fn_master, polled
<1>7. CASE handle_rdm(from)
  BY <1>7, SameWishes, OtherPackets DEF handle_rdm, polled
<1>8. CASE handle_file_tn_master(p, from)
  <2>1. PICK code : sent' = artnet_tx_firmware_reply(from, code)
    BY <1>8 DEF handle_file_tn_master
  <2>2. \A x \in sent' : x.type # "diagdata"
    BY <2>1, Transmitted
  <2> QED BY <1>8, <2>2, SameWishes, OtherPackets DEF handle_file_tn_master, polled
<1>9. CASE handle_dmx
  <2>1. sent' \subseteq Replies
    BY <1>9 DEF handle_dmx
  <2>2. \A x \in sent' : x.type # "diagdata"
    BY <2>1, RepliesAreReplies
  <2> QED BY <1>9, <2>2, SameWishes, OtherPackets DEF handle_dmx, polled
<1> QED BY <1>1, <1>2, <1>3, <1>4, <1>5, <1>6, <1>7, <1>8, <1>9 DEF handle

(* A diagnostic of the application.                                        *)
LEMMA DiagnosticShared ==
  ASSUME DiagOK, artnet_send_diagnostic
  PROVE  DiagInv'
<1>1. PICK priority \in DiagPriorities :
        /\ priority >= diag.priority
        /\ Answers(UNION {artnet_tx_diagdata(to, priority, 512) :
                            to \in IF diag.unicast THEN ReplyTarget ELSE {Broadcast}})
  BY DEF artnet_send_diagnostic
<1>2. DiagOK' /\ UNCHANGED <<diag, lowest>>
  BY <1>1, SameWishes DEF Answers, polled
<1>3. ASSUME NEW p \in sent'
      PROVE  /\ p.body.priority = priority
             /\ p.to # Broadcast => diag.unicast
  <2>1. PICK to \in (IF diag.unicast THEN ReplyTarget ELSE {Broadcast}) :
          p \in artnet_tx_diagdata(to, priority, 512)
    BY <1>1, <1>3 DEF Answers
  <2>2. p.to = to /\ p.body.priority = priority
    BY <2>1 DEF artnet_tx_diagdata, Packet
  <2> QED BY <2>1, <2>2
<1>4. PICK g \in Hosts : lowest[g] <= diag.priority
  BY DEF DiagOK, artnet_send_diagnostic
<1>5. lowest[g] \in Int /\ diag.priority \in Int /\ priority \in Int
  BY <1>1, <1>4 DEF DiagOK, DiagPriorities
<1>6. priority >= lowest[g]
  BY <1>1, <1>4, <1>5
<1>7. g \in Wanting
  <2>1. lowest[g] \in 0 .. 256 /\ diag.priority \in 0 .. 255
    BY <1>4 DEF DiagOK
  <2>2. lowest[g] < 256
    BY <1>4, <2>1
  <2> QED BY <2>2 DEF Wanting
<1>8. diag.unicast => Cardinality(Wanting) = 1
  <2>1. SUFFICES ASSUME diag.unicast PROVE Cardinality(Wanting) = 1
    OBVIOUS
  <2>2. IsFiniteSet(Wanting)
    BY HostAssumption, FS_Subset DEF Wanting
  <2>3. /\ diag.controllers \subseteq Wanting
        /\ Cardinality(diag.controllers) <= 1
        /\ Cardinality(diag.controllers) < MaxDiagControllers => Wanting \subseteq diag.controllers
    BY <2>1 DEF DiagOK
  <2>4. Cardinality(diag.controllers) \in Nat /\ IsFiniteSet(diag.controllers)
    BY <2>2, <2>3, FS_Subset, FS_CardinalityType
  <2>5. diag.controllers = Wanting
    BY <2>3, <2>4, DiagAssumption
  <2>6. Cardinality(Wanting) # 0
    BY <1>7, <2>2, FS_EmptySet
  <2> QED BY <2>3, <2>4, <2>5, <2>6
<1>9. \A p \in sent' : Shared(p)'
  BY <1>2, <1>3, <1>4, <1>6, <1>8 DEF Shared, Wanting
<1> QED BY <1>2, <1>9 DEF DiagInv

LEMMA CallsShare ==
  ASSUME DiagOK, Application
  PROVE  DiagInv'
<1>1. ASSUME NEW packets, Answers(packets), \A p \in packets : p.type # "diagdata"
      PROVE  DiagInv'
  BY <1>1, SameWishes, OtherPackets DEF Answers, polled
<1>2. CASE artnet_send_poll_reply
  BY <1>1, <1>2, RepliesAreReplies DEF artnet_send_poll_reply
<1>3. CASE artnet_send_directory_reply
  <2> DEFINE packets == UNION {tx_directory_entries(to, 2049) : to \in ReplyTarget}
  <2>1. \A p \in packets : p.type # "diagdata"
    BY Transmitted
  <2>2. Answers(packets)
    BY <1>3 DEF artnet_send_directory_reply
  <2> HIDE DEF packets
  <2> QED BY <1>1, <2>1, <2>2
<1>4. CASE artnet_send_file_fn_reply
  <2> DEFINE packets == UNION {artnet_tx_file_fn_reply(to, 1024, 1025) : to \in ReplyTarget}
  <2>1. \A p \in packets : p.type # "diagdata"
    BY Transmitted
  <2>2. Answers(packets)
    BY <1>4 DEF artnet_send_file_fn_reply
  <2> HIDE DEF packets
  <2> QED BY <1>1, <2>1, <2>2
<1>5. CASE artnet_send_rdm
  <2> DEFINE packets == UNION {artnet_tx_rdm(to, 513) : to \in RdmTarget}
  <2>1. \A p \in packets : p.type # "diagdata"
    BY Transmitted
  <2>2. Answers(packets)
    BY <1>5 DEF artnet_send_rdm
  <2> HIDE DEF packets
  <2> QED BY <1>1, <2>1, <2>2
<1>6. CASE artnet_send_rdmsub
  BY <1>1, <1>6, Transmitted DEF artnet_send_rdmsub
<1>7. CASE artnet_send_vlc
  BY <1>1, <1>7, VlcTransmitted DEF artnet_send_vlc
<1> QED BY <1>2, <1>3, <1>4, <1>5, <1>6, <1>7, DiagnosticShared DEF Application

LEMMA DiagStep == DiagInv /\ [Next]_vars => DiagInv'
<1> SUFFICES ASSUME DiagInv, [Next]_vars
             PROVE  DiagInv'
  OBVIOUS
<1>1. DiagOK
  BY DEF DiagInv
<1>2. CASE artnet_start \/ artnet_stop
  BY <1>1, <1>2, SameWishes, OtherPackets DEF artnet_start, artnet_stop, Turned, polled
<1>3. CASE Receive
  <2>1. CASE Ignored
    BY <1>1, <2>1, SameWishes, OtherPackets DEF Ignored, polled
  <2>2. CASE ~Ignored
    <3>1. PICK from \in Hosts, p \in Incoming : \E consumed \in MayConsume(p) :
            handle(p, from, consumed)
      BY <1>3, <2>2 DEF Receive
    <3>2. PICK consumed \in BOOLEAN : handle(p, from, consumed)
      BY <3>1 DEF MayConsume
    <3> QED BY <1>1, <3>2, HandleShares
  <2> QED BY <2>1, <2>2
<1>4. CASE check_timeouts
  <2>1. \A p \in sent' : p.type # "diagdata"
    BY <1>4, RepliesAreReplies DEF check_timeouts
  <2> QED BY <1>1, <1>4, <2>1, SameWishes, OtherPackets DEF check_timeouts
<1>5. CASE Application
  BY <1>1, <1>5, CallsShare
<1>6. CASE Tick
  BY <1>1, <1>6, SameWishes, OtherPackets DEF Tick
<1>7. CASE UNCHANGED vars
  BY <1>7 DEF DiagInv, DiagOK, Shared, Wanting, vars, polled
<1> QED BY <1>2, <1>3, <1>4, <1>5, <1>6, <1>7 DEF Next

(* Diagnostics are broadcast as soon as two hosts want them, and pass the  *)
(* threshold from the lowest priority on that any of them asked for; one   *)
(* host alone gets them until another host's request takes his place.      *)
THEOREM DiagnosticsAsWanted == Spec => []DiagnosticsShared
<1>1. Init => DiagInv
  <2> SUFFICES ASSUME Init PROVE DiagInv
    OBVIOUS
  <2>1. diag = [enabled |-> FALSE, unicast |-> FALSE, priority |-> 255, controllers |-> {}]
        /\ lowest = [h \in Hosts |-> 256] /\ sent = {}
    BY DEF Init
  <2>2. Wanting = {}
    BY <2>1 DEF Wanting
  <2> QED BY <2>1, <2>2 DEF DiagInv, DiagOK
<1> QED BY <1>1, DiagStep, DiagnosticsFollow, OnlyRequestsRedirect, PTL DEF Spec
=============================================================================
