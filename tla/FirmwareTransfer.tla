-------------------------- MODULE FirmwareTransfer --------------------------
(***************************************************************************)
(* Uploading firmware with ArtFirmwareMaster and ArtFirmwareReply: the     *)
(* controllers send one block, wait for its reply and send the next; the   *)
(* node assembles the blocks and hands the image to the application.       *)
(*                                                                         *)
(* Sizes are in units of which BlockSize make a full packet (1024 bytes),  *)
(* block numbers travel modulo Wrap (256).  The data of a block is a tag   *)
(* that names its controller, the upload and its place in the image.  The  *)
(* UDP network is a set of packets in flight; Faults says what it and  *)
(* the hosts may do besides one upload after another.                      *)
(* A lost packet is one that stays in flight and is never received.        *)
(***************************************************************************)
EXTENDS Integers

CONSTANTS
  Controllers,     (* IP addresses of the uploading controllers           *)
  None,            (* the zero IP address                                 *)
  Sizes,           (* the image sizes uploaded, in units                  *)
  BlockSize,       (* ARTNET_FIRMWARE_SIZE words                          *)
  Wrap,            (* UINT8_MAX + 1                                       *)
  Uploads,         (* bound: how many uploads a controller starts         *)
  FirmwareTimeout, (* FIRMWARE_TIMEOUT_MS, in ticks                       *)
  Faults           (* what may go wrong, a subset of AllFaults            *)

AllFaults == {"duplicate", "send_fails", "no_memory", "forget"}

ASSUME ControllerAssumption == None \notin Controllers
ASSUME SizeAssumption ==
  /\ Sizes \subseteq Nat \ {0}
  /\ BlockSize \in Nat \ {0}
  /\ Wrap \in Nat \ {0}
ASSUME BoundAssumption == Uploads \in Nat /\ FirmwareTimeout \in Nat
ASSUME FaultAssumption == Faults \subseteq AllFaults

VARIABLES
  tx,        (* ent->firmware of each controller's entry for the node     *)
  upload,    (* how many uploads each controller has started              *)
  told,      (* the last code each controller's callback was given        *)
  rx,        (* n->firmware of the node                                   *)
  installed, (* the images given to the node's firmware callback          *)
  packets,   (* ArtFirmwareMaster packets in flight                       *)
  replies    (* ArtFirmwareReply packets in flight                        *)

vars == <<tx, upload, told, rx, installed, packets, replies>>

Lower(a, b) == IF a < b THEN a ELSE b

Idle == [total |-> 0, current |-> 0, block |-> 0]
NoUpload == [peer |-> None, total |-> 0, current |-> 0, block |-> 0, age |-> 0, data |-> <<>>]

(* The number of blocks of an image and the one the receiver computes.     *)
Blocks(total) == (total + BlockSize - 1) \div BlockSize
TotalBlocks(total) == total \div BlockSize + 1

-----------------------------------------------------------------------------
(* The controller.                                                         *)

(* The packet that carries the next block of transfer t of controller c.   *)
NextPacket(c, t, number) ==
  LET data_len == Lower(t.total - t.current, BlockSize)
  IN  [from |-> c,
       type |-> IF t.current = 0 THEN "FIRST"
                ELSE IF data_len = BlockSize THEN "CONT" ELSE "LAST",
       blockId |-> t.block, total |-> t.total,
       data |-> <<c, number, t.current \div BlockSize>>]

(* Mutant: the 8-bit block number is not wrapped.                          *)
MutAfterSending(t) ==
  [t EXCEPT !.current = @ + Lower(t.total - @, BlockSize), !.block = @ + 1]

AfterSending(t) ==
  [t EXCEPT !.current = @ + Lower(t.total - @, BlockSize), !.block = (@ + 1) % Wrap]

(* Transmit the next block of t; when the send fails nothing is counted.   *)
TxFirmwarePacket(c, t, number) ==
  \/ /\ tx' = [tx EXCEPT ![c] = AfterSending(t)]
     /\ packets' = packets \cup {NextPacket(c, t, number)}
  \/ /\ "send_fails" \in Faults
     /\ tx' = [tx EXCEPT ![c] = t]
     /\ UNCHANGED packets

(* Bound: the application starts no upload before the callback of the last *)
(* one; artnet_send_firmware itself does not look at what it overwrites.   *)
SendFirmware(c, size) ==
  /\ upload[c] < Uploads
  /\ tx[c].total = 0
  /\ upload' = [upload EXCEPT ![c] = @ + 1]
  /\ told' = [told EXCEPT ![c] = "none"]
  /\ TxFirmwarePacket(c, [Idle EXCEPT !.total = size], upload[c] + 1)
  /\ UNCHANGED <<rx, installed, replies>>

(* A packet is consumed, or stays in flight to be delivered again.         *)
Taken(set, p, rest) ==
  \/ rest = set \ {p}
  \/ "duplicate" \in Faults /\ rest = set

HandleFirmwareReply(r) ==
  LET c == r.to
      t == tx[c]
      Ends(code) == /\ told' = [told EXCEPT ![c] = code]
                    /\ tx' = [tx EXCEPT ![c] = Idle]
                    /\ UNCHANGED packets
      Ignored == UNCHANGED <<tx, told, packets>>
  IN  /\ r \in replies
      /\ Taken(replies, r, replies')
      /\ \/ t.total = 0 /\ Ignored
         \/ t.total # 0 /\ r.code = "FAIL" /\ Ends("FAIL")
         \/ t.total # 0 /\ r.code = "ALLGOOD" /\ t.total = t.current /\ Ends("ALLGOOD")
         \/ t.total # 0 /\ r.code = "ALLGOOD" /\ t.total # t.current /\ Ignored
         \/ t.total # 0 /\ r.code = "BLOCKGOOD" /\ t.total = t.current /\ Ignored
         \/ /\ t.total # 0 /\ r.code = "BLOCKGOOD" /\ t.total # t.current
            /\ TxFirmwarePacket(c, t, upload[c])
            /\ UNCHANGED told
      /\ UNCHANGED <<upload, rx, installed>>

(* check_timeouts of the controller drops the entry of a node that has not *)
(* answered ArtPoll, with the transfer in it.                              *)
ForgetNode(c) ==
  /\ "forget" \in Faults
  /\ tx' = [tx EXCEPT ![c] = Idle]
  /\ UNCHANGED <<upload, told, rx, installed, packets, replies>>

-----------------------------------------------------------------------------
(* The node.                                                               *)

(* Mutant: the first block after the wrap is taken for block 0.            *)
MutBlockOf(p) ==
  IF rx.block > Wrap /\ rx.block % Wrap = p.blockId THEN rx.block ELSE p.blockId

(* The 8-bit block number, with the blocks before it counted in.           *)
BlockOf(p) ==
  IF rx.block >= Wrap /\ rx.block % Wrap = p.blockId THEN rx.block ELSE p.blockId

Stored(p, block) ==
  [b \in DOMAIN rx.data \cup {block} |-> IF b = block THEN p.data ELSE rx.data[b]]

FromPeer(p) == rx.peer = p.from /\ p.total = rx.total

AcceptsFirst == rx.peer = None

(* Mutant: a continuation block is accepted from any controller.           *)
MutAcceptsCont(p) ==
  /\ p.total = rx.total
  /\ BlockOf(p) < TotalBlocks(p.total) - 1
  /\ BlockOf(p) * BlockSize + BlockSize <= rx.total

(* Mutant: the block number is trusted.                                    *)
MutAcceptsAnyBlock(p) == FromPeer(p)

AcceptsCont(p) ==
  /\ FromPeer(p)
  /\ BlockOf(p) < TotalBlocks(p.total) - 1
  /\ BlockOf(p) * BlockSize + BlockSize <= rx.total

LastLength == IF rx.total % BlockSize = 0 THEN BlockSize ELSE rx.total % BlockSize

AcceptsLast(p) ==
  /\ FromPeer(p)
  /\ BlockOf(p) = TotalBlocks(p.total) - 1
  /\ BlockOf(p) * BlockSize + LastLength <= rx.total

Replies(p, code) == replies' = replies \cup {[to |-> p.from, code |-> code]}

(* Mutants: a refusal answers like a completed upload, or not at all.      *)
MutRefuse(p) == Replies(p, "ALLGOOD") /\ UNCHANGED <<rx, installed>>
MutRefuseSilently(p) == UNCHANGED <<rx, installed, replies>>

Refuse(p) == Replies(p, "FAIL") /\ UNCHANGED <<rx, installed>>

Image(r) == [peer |-> r.peer, total |-> r.total, data |-> r.data]
Deliver(r) == installed' = installed \cup {Image(r)}

(* reset_firmware_upload: the block counter stays until the next upload.   *)
Reset == [NoUpload EXCEPT !.block = rx.block]

(* When the image cannot be allocated the peer is set and no reply sent;   *)
(* last_time is the zero of the last reset, long timed out.                *)
HandleFirst(p) ==
  LET length == Lower(p.total, BlockSize)
      begun == [peer |-> p.from, total |-> p.total, current |-> length, block |-> 1,
                age |-> 0, data |-> [b \in {0} |-> p.data]]
  IN  /\ p.type = "FIRST"
      /\ \/ /\ AcceptsFirst
            /\ rx' = begun
            /\ \/ length = p.total /\ Deliver(begun) /\ Replies(p, "ALLGOOD")
               \/ length # p.total /\ UNCHANGED installed /\ Replies(p, "BLOCKGOOD")
         \/ /\ "no_memory" \in Faults /\ AcceptsFirst
            /\ rx' = [rx EXCEPT !.peer = p.from, !.age = FirmwareTimeout]
            /\ UNCHANGED <<installed, replies>>
         \/ ~AcceptsFirst /\ Refuse(p)

HandleCont(p) ==
  /\ p.type = "CONT"
  /\ \/ /\ AcceptsCont(p)
        /\ rx' = [rx EXCEPT !.data = Stored(p, BlockOf(p)), !.block = @ + 1,
                            !.current = @ + BlockSize]
        /\ UNCHANGED installed
        /\ Replies(p, "BLOCKGOOD")
     \/ ~AcceptsCont(p) /\ Refuse(p)

HandleLast(p) ==
  /\ p.type = "LAST"
  /\ \/ /\ AcceptsLast(p)
        /\ Deliver([rx EXCEPT !.data = Stored(p, BlockOf(p))])
        /\ rx' = Reset
        /\ Replies(p, "ALLGOOD")
     \/ ~AcceptsLast(p) /\ Refuse(p)

HandleFirmware(p) ==
  /\ p \in packets
  /\ Taken(packets, p, packets')
  /\ HandleFirst(p) \/ HandleCont(p) \/ HandleLast(p)
  /\ UNCHANGED <<tx, upload, told>>

(* Time is counted from the first block on, later blocks do not renew it.  *)
UploadTimesOut ==
  /\ rx.peer # None
  /\ rx.age >= FirmwareTimeout
  /\ rx' = Reset
  /\ UNCHANGED <<tx, upload, told, installed, packets, replies>>

Tick ==
  /\ rx.peer # None /\ rx.age < FirmwareTimeout
  /\ rx' = [rx EXCEPT !.age = @ + 1]
  /\ UNCHANGED <<tx, upload, told, installed, packets, replies>>

-----------------------------------------------------------------------------
Init ==
  /\ tx = [c \in Controllers |-> Idle]
  /\ upload = [c \in Controllers |-> 0]
  /\ told = [c \in Controllers |-> "none"]
  /\ rx = NoUpload
  /\ installed = {}
  /\ packets = {}
  /\ replies = {}

Next ==
  \/ \E c \in Controllers, size \in Sizes : SendFirmware(c, size)
  \/ \E c \in Controllers : ForgetNode(c)
  \/ \E p \in packets : HandleFirmware(p)
  \/ \E r \in replies : HandleFirmwareReply(r)
  \/ UploadTimesOut
  \/ Tick

Spec == Init /\ [][Next]_vars

(* Both ends keep calling artnet_read, so a packet in flight is received.  *)
FairSpec ==
  /\ Spec
  /\ WF_vars(\E p \in packets : HandleFirmware(p))
  /\ WF_vars(\E r \in replies : HandleFirmwareReply(r))
-----------------------------------------------------------------------------
Tags == Controllers \X (1 .. Uploads) \X Nat

Images == {Image(rx)} \cup installed

TypeOK ==
  /\ \A c \in Controllers :
       /\ tx[c].total \in Sizes \cup {0} /\ tx[c].current \in 0 .. tx[c].total
       /\ tx[c].block \in 0 .. Wrap - 1
       /\ upload[c] \in 0 .. Uploads
       /\ told[c] \in {"none", "ALLGOOD", "FAIL"}
  /\ rx.peer \in Controllers \cup {None} /\ rx.total \in Sizes \cup {0}
  /\ rx.current \in Nat /\ rx.block \in Nat /\ rx.age \in 0 .. FirmwareTimeout
  /\ \A r \in Images : \A b \in DOMAIN r.data : b \in Nat /\ r.data[b] \in Tags
  /\ \A r \in replies : r.to \in Controllers /\ r.code \in {"BLOCKGOOD", "ALLGOOD", "FAIL"}

(* The node never writes outside the image it allocated, whatever block    *)
(* numbers, duplicates and wrapped counters the network delivers.          *)
WritesInsideImage ==
  \A r \in Images : DOMAIN r.data \subseteq 0 .. Blocks(r.total) - 1

(* The image being assembled holds blocks of one controller only, however  *)
(* the packets of several controllers interleave.                          *)
OneControllerPerImage ==
  \A r \in Images : \A b \in DOMAIN r.data : r.data[b][1] = r.peer

Whole(image, number) ==
  \A b \in 0 .. Blocks(image.total) - 1 :
    b \in DOMAIN image.data /\ image.data[b] = <<image.peer, number, b>>

(* private.h, firmware_callback_t: "triggered when a firmware receive has  *)
(* been completed successfully": an image given to the application is one  *)
(* whole upload, every block in its place.                                 *)
InstalledIntact ==
  \A image \in installed : \E number \in 1 .. Uploads : Whole(image, number)

(* A controller's callback is told ALLGOOD only when the upload it started *)
(* last was given whole to the node's application.                         *)
SuccessIsReal ==
  \A c \in Controllers :
    told[c] = "ALLGOOD" =>
      \E image \in installed : image.peer = c /\ Whole(image, upload[c])

(* artnet_send_firmware: "the callback that is invoked when the transfer   *)
(* is complete": on a network that loses nothing every upload ends, with   *)
(* success or failure.                                                     *)
EveryUploadEnds == \A c \in Controllers : tx[c].total # 0 ~> tx[c].total = 0
=============================================================================
