------------------------------- MODULE Responder -------------------------------
(***************************************************************************)
(* A node that is asked things: it takes packets from the network, tests   *)
(* and dispatches them, remembers who asked, and answers, some answers     *)
(* after a random delay and some whenever its application gets to it.      *)
(*                                                                         *)
(* All answers but those about RDM go to reply_addr, which every request   *)
(* overwrites.  What the packets do to the ports, the node list, the       *)
(* tables of devices and the firmware is in the modules of these.          *)
(***************************************************************************)
EXTENDS Transmit, FiniteSets

CONSTANTS
  Hosts,             (* the other machines on the network                  *)
  Self,              (* the node's own address                             *)
  NoHost,            (* the address 0                                      *)
  NodeTypes,         (* the node types tried                               *)
  PortAddrs,         (* the addresses of the node's ports                  *)
  Incoming,          (* the packets the other machines send                *)
  Followed,          (* the kinds of answers whose requesters are followed *)
  MaxDiagControllers,(* length of diag_controller_ips                      *)
  MaxDelay,          (* bound: ticks in the delay of an ArtPollReply       *)
  MaxPostponed       (* bound: polls taken while a reply is still pending  *)

ASSUME HostAssumption == NoHost \notin Hosts /\ Self \notin Hosts /\ IsFiniteSet(Hosts)
ASSUME DiagAssumption == MaxDiagControllers \in Nat /\ MaxDiagControllers >= 2
ASSUME FollowedAssumption ==
  /\ "diagdata" \in Followed
  /\ Followed \subseteq {"reply", "directoryreply", "filefnreply", "diagdata", "rdm"}
ASSUME IncomingAssumption == \A p \in Incoming : p.type = "poll" => p.body.priority \in 0 .. 255

VARIABLES
  node_type, mode, reply_addr, rdm_reply_addr,
  wishes,    (* send_apr_on_change and vlc_disabled                        *)
  diag,      (* diag_enabled, diag_unicast, diag_priority and the          *)
             (* controllers counted                                        *)
  apr,       (* apr_pending, and the ticks left to apr_pending_time        *)
  report_code,
  checked,   (* check_timeouts has run since the last packet               *)
  sent,      (* what the last step put on the network                      *)
  postponed, (* polls taken since the pending reply was first asked for    *)
  claims,    (* history: who asked for an answer of a kind last, and who   *)
             (* made another request since                                 *)
  lowest     (* history: the lowest priority each host asked for, or 256   *)

requesters == <<reply_addr, rdm_reply_addr>>
polled == <<wishes, diag, apr, postponed, lowest>>
vars == <<node_type, mode, requesters, claims, polled, report_code, checked, sent>>

ReplyTarget == {reply_addr} \ {NoHost}
RdmTarget == {rdm_reply_addr} \ {NoHost}

Replies == UNION {artnet_tx_poll_reply(to) : to \in ReplyTarget}

(* The requests whose handlers set reply_addr.                             *)
AsksForReply(from) == reply_addr' = from /\ UNCHANGED rdm_reply_addr

-----------------------------------------------------------------------------
(* ArtPoll.                                                                *)

TargetMatches(q) ==
  \/ ~q.target
  \/ q.bottom = 0 /\ q.top = 0
  \/ \E a \in PortAddrs : a \in q.bottom .. q.top

(* Mutant: the last controller to ask decides.                             *)
MutDiagAfter(q, from) ==
  [enabled |-> TRUE, controllers |-> diag.controllers \cup {from},
   unicast |-> q.unicast, priority |-> Smaller(diag.priority, q.priority)]
(* Once two controllers want diagnostics they are broadcast, and the       *)
(* lowest priority asked for stays the threshold.                          *)
DiagAfter(q, from) ==
  LET controllers == IF Cardinality(diag.controllers) < MaxDiagControllers
                     THEN diag.controllers \cup {from}
                     ELSE diag.controllers
  IN [enabled |-> TRUE, controllers |-> controllers,
      unicast |-> Cardinality(controllers) <= 1 /\ q.unicast,
      priority |-> Smaller(diag.priority, q.priority)]

(* Mutant: a poll that comes while a reply is pending loses the reply.     *)
MutScheduled == apr' = [pending |-> ~apr.pending, wait |-> MaxDelay]
(* The delay is drawn again by every poll.                                 *)
Scheduled == \E wait \in 0 .. MaxDelay : apr' = [pending |-> TRUE, wait |-> wait]

(* A raw node does not answer.  The address and the two wishes are taken   *)
(* before the target is looked at, the rest after it.                      *)
handle_poll(q, from) ==
  /\ node_type # "raw"
  /\ AsksForReply(from)
  /\ wishes' = [on_change |-> q.on_change, vlc_disabled |-> q.vlc_disabled]
  /\ IF TargetMatches(q)
     THEN /\ Scheduled
          /\ postponed' = IF apr.pending THEN postponed + 1 ELSE 0
          /\ postponed' <= MaxPostponed
          /\ diag' = IF q.diag THEN DiagAfter(q, from) ELSE diag
          /\ lowest' = IF q.diag THEN [lowest EXCEPT ![from] = Smaller(@, q.priority)] ELSE lowest
     ELSE UNCHANGED <<apr, postponed, diag, lowest>>
  /\ sent' = {}
  /\ UNCHANGED report_code

-----------------------------------------------------------------------------
(* The other requests.                                                     *)

(* A new name is reported, the long one last.                              *)
ReportAfter(p) ==
  CASE p.type = "address" /\ p.body.longName -> "long_name_ok"
    [] p.type = "address" /\ p.body.shortName /\ ~p.body.longName -> "short_name_ok"
    [] OTHER -> report_code

(* Only nodes are programmed, and only by a packet for their bind index;   *)
(* what it programs is in NodeConfig.                                      *)
Programmed(p, from) ==
  /\ node_type \in {"node", "msrv"} /\ p.body.bindIndex = 1
  /\ AsksForReply(from)
  /\ sent' = artnet_tx_poll_reply(from)
  /\ report_code' = ReportAfter(p)
  /\ UNCHANGED polled

(* The requester is remembered even when the application takes over.  A    *)
(* packet may enable programming and then ask to program nothing.          *)
handle_ipprog(p, from, consumed) ==
  LET enabled == p.body.enabled /\ ~consumed
  IN /\ AsksForReply(from)
     /\ report_code' = IF enabled /\ p.body.programs THEN "debug" ELSE report_code
     /\ sent' = IF consumed THEN {}
                ELSE artnet_tx_ipprog_reply(from)
                     \cup (IF enabled THEN artnet_tx_poll_reply(from) ELSE {})
     /\ UNCHANGED polled

handle_directory(from, consumed) ==
  /\ AsksForReply(from)
  /\ sent' = IF consumed THEN {} ELSE artnet_tx_directory_reply(from)
  /\ UNCHANGED <<polled, report_code>>

(* Mutant: the requester is not remembered.                                *)
Muthandle_file_fn_master(from) ==
  sent' = {} /\ UNCHANGED <<requesters, polled, report_code>>
(* The application answers.                                                *)
handle_file_fn_master(from) ==
  AsksForReply(from) /\ sent' = {} /\ UNCHANGED <<polled, report_code>>

(* ArtRdm and ArtRdmSub; the application answers.                          *)
handle_rdm(from) ==
  /\ rdm_reply_addr' = from
  /\ sent' = {}
  /\ UNCHANGED <<reply_addr, polled, report_code>>

(* A block of a file is acknowledged, with a failure if it is empty, odd   *)
(* or longer than the file, or if the application refuses it.              *)
handle_file_tn_master(p, from) ==
  LET payload == Smaller(p.length - Format["filetnmaster"].header, 1024)
      sound == payload > 0 /\ payload % 2 = 0 /\ payload \div 2 <= p.body.words
  IN /\ \E code \in {"fail"} \cup (IF sound THEN {"allgood"} ELSE {}) :
          sent' = artnet_tx_firmware_reply(from, code)
     /\ UNCHANGED <<requesters, polled, report_code>>

(* A change of the merging status is announced to whoever wishes so.       *)
handle_dmx ==
  /\ sent' \in {{}, IF wishes.on_change THEN Replies ELSE {}}
  /\ UNCHANGED <<requesters, polled, report_code>>

(* What is handed to the application and leaves no trace in the node.      *)
PassedOn == {"diagdata", "datarequest", "datareply", "command", "timecode", "timesync",
             "trigger", "directoryreply", "filefnreply", "media", "mediapatch",
             "mediacontrol", "mediacontrolreply", "toddata", "ipreply"}

Ignored == sent' = {} /\ UNCHANGED <<requesters, polled, report_code>>
Refused == sent' = {} /\ report_code' = "parse_fail" /\ UNCHANGED <<requesters, polled>>

(* The packets that pass both tests of a received packet.                  *)
Sound == {p \in Incoming : Accepted(p)}

(* The hook of a handler may consume the packet: nothing is done then, or  *)
(* only the requester is remembered.                                       *)
Consumable == {"poll", "address", "input", "filetnmaster"}
MayConsume(p) ==
  IF p.type \in Consumable \cup {"ipprog", "directory"} THEN BOOLEAN ELSE {FALSE}

handle(p, from, consumed) ==
  \/ p \notin Sound /\ Refused
  \/ p.type = UnknownType /\ Refused
  \/ p \in Sound /\ (p.type \in PassedOn \/ (consumed /\ p.type \in Consumable)) /\ Ignored
  \/ /\ p \in Sound
     /\ consumed => p.type \notin Consumable
     /\ \/ p.type = "poll" /\ (handle_poll(p.body, from) \/ (node_type = "raw" /\ Ignored))
        \/ p.type \in {"address", "input"} /\ Programmed(p, from)
        \/ p.type = "ipprog" /\ handle_ipprog(p, from, consumed)
        \/ p.type = "directory" /\ handle_directory(from, consumed)
        \/ p.type = "filefnmaster" /\ handle_file_fn_master(from)
        \/ p.type \in {"rdm", "rdmsub"} /\ handle_rdm(from)
        \/ p.type = "filetnmaster" /\ handle_file_tn_master(p, from)
        \/ p.type = "dmx" /\ handle_dmx

(* The packets that are requests to this node, and the kinds of answers    *)
(* they ask for (a poll for other ports asks for none).                    *)
IsRequest(p, consumed) ==
  /\ p \in Sound
  /\ \/ p.type = "poll" /\ ~consumed /\ node_type # "raw"
     \/ /\ p.type \in {"address", "input"} /\ ~consumed
        /\ node_type \in {"node", "msrv"} /\ p.body.bindIndex = 1
     \/ p.type \in {"ipprog", "directory", "filefnmaster", "rdm", "rdmsub"}

AsksFor(p) ==
  CASE p.type = "poll" /\ TargetMatches(p.body) ->
         IF p.body.diag THEN {"reply", "diagdata"} ELSE {"reply"}
    [] p.type \in {"address", "input", "ipprog"} -> {"reply"}
    [] p.type = "directory" -> {"directoryreply"}
    [] p.type = "filefnmaster" -> {"filefnreply"}
    [] p.type \in {"rdm", "rdmsub"} -> {"rdm"}
    [] OTHER -> {}

(* RDM and everything else have an address each.                           *)
ClaimsAfter(p, from) ==
  [kind \in Followed |->
     IF kind \in AsksFor(p) THEN {from}
     ELSE IF (kind = "rdm") = (p.type \in {"rdm", "rdmsub"}) THEN claims[kind] \cup {from}
     ELSE claims[kind]]

(* check_timeouts runs between two packets; a packet of the node's own, or *)
(* one sent over the loopback, is dropped as it is received.               *)
Receive ==
  /\ mode = "on" /\ checked
  /\ checked' = FALSE
  /\ \/ Ignored /\ UNCHANGED claims
     \/ \E from \in Hosts, p \in Incoming : \E consumed \in MayConsume(p) :
          /\ handle(p, from, consumed)
          /\ claims' = IF IsRequest(p, consumed) THEN ClaimsAfter(p, from) ELSE claims
  /\ UNCHANGED <<node_type, mode>>

check_timeouts ==
  /\ mode = "on"
  /\ checked' = TRUE
  /\ IF apr.pending /\ apr.wait = 0
     THEN /\ apr' = [apr EXCEPT !.pending = FALSE]
          /\ postponed' = 0
          /\ sent' = Replies
     ELSE sent' = {} /\ UNCHANGED <<apr, postponed>>
  /\ UNCHANGED <<node_type, mode, requesters, claims, wishes, diag, lowest, report_code>>

-----------------------------------------------------------------------------
(* The application's own calls, at any time, from a callback too.          *)

Answers(packets) ==
  /\ mode = "on" /\ packets # {}
  /\ sent' = packets
  /\ UNCHANGED <<node_type, mode, requesters, claims, polled, report_code, checked>>

artnet_send_poll_reply == Answers(Replies)
artnet_send_directory_reply ==
  Answers(UNION {tx_directory_entries(to, 2049) : to \in ReplyTarget})
artnet_send_file_fn_reply ==
  Answers(UNION {artnet_tx_file_fn_reply(to, 1024, 1025) : to \in ReplyTarget})
artnet_send_rdm == Answers(UNION {artnet_tx_rdm(to, 513) : to \in RdmTarget})
artnet_send_rdmsub ==
  \E count \in {0, 1} : Answers(UNION {artnet_tx_rdmsub(to, count, 0) : to \in RdmTarget})

(* Sent to those who asked for it, from the priority they asked for.       *)
artnet_send_diagnostic ==
  /\ diag.enabled
  /\ \E priority \in DiagPriorities :
       /\ priority >= diag.priority
       /\ Answers(UNION {artnet_tx_diagdata(to, priority, 512) :
                           to \in IF diag.unicast THEN ReplyTarget ELSE {Broadcast}})

(* A controller's VLC data goes out of its input port.                     *)
artnet_send_vlc ==
  /\ node_type = "srv" /\ ~wishes.vlc_disabled
  /\ Answers(VlcPackets(Hosts, [len |-> 22, vlc |-> TRUE]))

Turned(from, to) ==
  /\ mode = from /\ mode' = to
  /\ sent' = {}
  /\ UNCHANGED <<node_type, requesters, claims, polled, report_code>>
artnet_start == Turned("standby", "on") /\ checked' = FALSE
artnet_stop == Turned("on", "standby") /\ UNCHANGED checked

Tick ==
  /\ apr.pending /\ apr.wait > 0
  /\ apr' = [apr EXCEPT !.wait = @ - 1]
  /\ sent' = {}
  /\ UNCHANGED <<node_type, mode, requesters, claims, wishes, diag, postponed, lowest,
                 report_code, checked>>

-----------------------------------------------------------------------------
Init ==
  /\ node_type \in NodeTypes
  /\ mode = "standby"
  /\ reply_addr = NoHost /\ rdm_reply_addr = NoHost
  /\ wishes = [on_change |-> FALSE, vlc_disabled |-> FALSE]
  /\ diag = [enabled |-> FALSE, unicast |-> FALSE, priority |-> 255, controllers |-> {}]
  /\ apr = [pending |-> FALSE, wait |-> 0]
  /\ report_code = "power_ok"
  /\ checked = FALSE
  /\ sent = {}
  /\ postponed = 0
  /\ claims = [kind \in Followed |-> {}]
  /\ lowest = [h \in Hosts |-> 256]

Application ==
  \/ artnet_send_poll_reply \/ artnet_send_directory_reply \/ artnet_send_file_fn_reply
  \/ artnet_send_rdm \/ artnet_send_rdmsub \/ artnet_send_diagnostic \/ artnet_send_vlc

Next == artnet_start \/ artnet_stop \/ Receive \/ check_timeouts \/ Application \/ Tick

(* The application calls artnet_read in a loop, and time goes on.          *)
Spec == Init /\ [][Next]_vars /\ WF_vars(check_timeouts) /\ WF_vars(Tick)

-----------------------------------------------------------------------------
Kind(p) == IF p.type = "rdmsub" THEN "rdm" ELSE p.type

(* An answer goes to the host that asked for its kind last, however long   *)
(* it waits for its time or for the application, whatever packets arrive   *)
(* meanwhile that are no requests to this node, and however RDM and other  *)
(* requests mix.  Only another request can redirect it, to the host that   *)
(* made it: reply_addr serves all kinds, although the comments of          *)
(* handle_directory and handle_file_fn_master want their answers unicast   *)
(* to "this request source".                                               *)
AnswersGoToRequesters ==
  \A p \in sent :
    Kind(p) \in Followed /\ p.to # Broadcast => p.to \in claims[Kind(p)]

(* A diagnostic is broadcast as soon as two hosts have asked for them.     *)
(* One that goes to a single host goes to the only one that wants them, or *)
(* to a host that made another request since he said so, which takes his   *)
(* place in reply_addr.  The threshold of the node lets through what any   *)
(* of them asked for and nothing that none did.                            *)
DiagnosticsShared ==
  /\ \A p \in sent : p.type = "diagdata" =>
       /\ p.to # Broadcast =>
            /\ Cardinality({h \in Hosts : lowest[h] < 256}) = 1
            /\ p.to \in claims["diagdata"]
       /\ \E h \in Hosts : p.body.priority >= lowest[h]
  /\ \A h \in Hosts : lowest[h] < 256 => diag.enabled /\ diag.priority <= lowest[h]

(* A poll that concerns the node is answered although its reply waits for  *)
(* a random time: the host it is owed to gets one, unless another host's   *)
(* request takes the place of his or the node is stopped.                  *)
PollIsAnswered ==
  \A h \in Hosts :
    (mode = "on" /\ apr.pending /\ reply_addr = h)
      ~> (mode # "on" \/ reply_addr # h \/ \E p \in sent : p.type = "reply" /\ p.to = h)
=============================================================================
