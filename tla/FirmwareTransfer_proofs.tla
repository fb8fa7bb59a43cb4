---------------------- MODULE FirmwareTransfer_proofs ----------------------
(***************************************************************************)
(* Theorems about FirmwareTransfer, for any controllers, image sizes,      *)
(* block size and width of the block number.                               *)
(***************************************************************************)
EXTENDS FirmwareTransfer, TLAPS

-----------------------------------------------------------------------------
(* Blocks and their numbers.                                               *)

LEMMA Products ==
  ASSUME NEW k \in Nat
  PROVE  /\ k * BlockSize \in Nat /\ k * BlockSize >= k
         /\ (k + 1) * BlockSize = k * BlockSize + BlockSize
BY SizeAssumption

LEMMA PlaceOfBlock ==
  ASSUME NEW k \in Nat
  PROVE  (k * BlockSize) \div BlockSize = k
BY SizeAssumption

LEMMA Quotients ==
  ASSUME NEW t \in Nat
  PROVE  /\ t \div BlockSize \in Nat
         /\ (t \div BlockSize) * BlockSize <= t
         /\ t < (t \div BlockSize) * BlockSize + BlockSize
BY SizeAssumption

LEMMA Larger ==
  ASSUME NEW a \in Nat, NEW b \in Nat, a * BlockSize < b * BlockSize
  PROVE  a < b
BY SizeAssumption

(* Block b of an image is one of its blocks when it begins inside it.      *)
LEMMA BlockIsInside ==
  ASSUME NEW b \in Nat, NEW total \in Nat, b * BlockSize < total
  PROVE  b \in 0 .. Blocks(total) - 1
<1>1. Blocks(total) \in Nat /\ total + BlockSize - 1 < Blocks(total) * BlockSize + BlockSize
  BY Quotients, SizeAssumption DEF Blocks
<1>2. b * BlockSize \in Nat /\ Blocks(total) * BlockSize \in Nat
  BY <1>1, Products
<1>3. b * BlockSize < Blocks(total) * BlockSize
  BY <1>1, <1>2, SizeAssumption
<1> QED BY <1>1, <1>3, Larger

(* An image that ends with block b has b + 1 blocks.                       *)
LEMMA BlocksUpTo ==
  ASSUME NEW b \in Nat, NEW total \in Nat, b * BlockSize < total,
         total <= b * BlockSize + BlockSize
  PROVE  Blocks(total) = b + 1
BY SizeAssumption DEF Blocks

LEMMA Remainder ==
  ASSUME NEW q \in Nat, NEW r \in 0 .. Wrap - 1
  PROVE  (Wrap * q + r) % Wrap = r
BY SizeAssumption

LEMMA Divided ==
  ASSUME NEW k \in Nat
  PROVE  \E q \in Nat, r \in 0 .. Wrap - 1 : k = Wrap * q + r
<1> DEFINE q == k \div Wrap
<1>1. q \in Nat /\ Wrap * q <= k /\ k < Wrap * q + Wrap
  BY SizeAssumption
<1> HIDE DEF q
<1>2. Wrap * q \in Nat
  BY <1>1, SizeAssumption
<1>3. k - Wrap * q \in 0 .. Wrap - 1 /\ k = Wrap * q + (k - Wrap * q)
  BY <1>1, <1>2, SizeAssumption
<1> QED BY <1>1, <1>3

LEMMA SmallNumber ==
  ASSUME NEW k \in Nat, k < Wrap
  PROVE  k % Wrap = k
<1>1. Wrap * 0 + k = k /\ k \in 0 .. Wrap - 1
  BY SizeAssumption
<1> QED BY <1>1, Remainder

LEMMA NumberInRange ==
  ASSUME NEW k \in Nat
  PROVE  k % Wrap \in 0 .. Wrap - 1
BY SizeAssumption

(* Counting modulo Wrap counts the blocks modulo Wrap.                     *)
LEMMA NextNumber ==
  ASSUME NEW k \in Nat
  PROVE  ((k % Wrap) + 1) % Wrap = (k + 1) % Wrap
<1>1. PICK q \in Nat, r \in 0 .. Wrap - 1 : k = Wrap * q + r
  BY Divided
<1>2. k % Wrap = r
  BY <1>1, Remainder
<1>3. CASE r + 1 < Wrap
  <2>1. r + 1 \in 0 .. Wrap - 1 /\ k + 1 = Wrap * q + (r + 1)
    BY <1>1, <1>3, SizeAssumption
  <2>2. (k + 1) % Wrap = r + 1
    BY <2>1, Remainder
  <2>3. (r + 1) % Wrap = r + 1
    BY <2>1, <1>3, SmallNumber
  <2> QED BY <2>2, <2>3, <1>2
<1>4. CASE r + 1 = Wrap
  <2>1. k + 1 = Wrap * (q + 1) + 0 /\ Wrap = Wrap * 1 + 0 /\ 0 \in 0 .. Wrap - 1
    BY <1>1, <1>4, SizeAssumption
  <2>2. (k + 1) % Wrap = 0 /\ Wrap % Wrap = 0
    BY <2>1, Remainder
  <2> QED BY <2>2, <1>2, <1>4
<1> QED BY <1>3, <1>4, SizeAssumption

-----------------------------------------------------------------------------
(* Types, and what the node writes, whatever goes wrong.                   *)

Transfers == [total : Sizes \cup {0}, current : Nat, block : 0 .. Wrap - 1]
Stores == UNION {[D -> Tags] : D \in SUBSET Nat}
Receiver == [peer : Controllers \cup {None}, total : Sizes \cup {0}, current : Nat,
             block : Nat, age : 0 .. FirmwareTimeout, data : Stores]

TransferOK(t) == t \in Transfers /\ t.current <= t.total

PacketOK(p) ==
  /\ p.from \in Controllers /\ p.total \in Sizes /\ p.blockId \in Nat
  /\ p.data \in Tags /\ p.data[1] = p.from

ImageOK(r) ==
  /\ r.total \in Sizes \cup {0} /\ r.data \in Stores
  /\ DOMAIN r.data \subseteq 0 .. Blocks(r.total) - 1
  /\ \A b \in DOMAIN r.data : r.data[b][1] = r.peer

ReplyOK(r) == r.to \in Controllers /\ r.code \in {"BLOCKGOOD", "ALLGOOD", "FAIL"}

(* The controllers: an upload under way has a number, and what is sent     *)
(* carries its sender's tag.                                               *)
SendersOK ==
  /\ tx \in [Controllers -> Transfers]
  /\ upload \in [Controllers -> 0 .. Uploads]
  /\ told \in [Controllers -> {"none", "ALLGOOD", "FAIL"}]
  /\ \A c \in Controllers :
       /\ tx[c].current <= tx[c].total
       /\ tx[c].total # 0 => upload[c] \in 1 .. Uploads
  /\ \A p \in packets : PacketOK(p)

(* The node: without a peer it holds no block.                             *)
ReceiverOK ==
  /\ rx \in Receiver /\ ImageOK(rx)
  /\ rx.peer = None => DOMAIN rx.data = {}
  /\ \A image \in installed : ImageOK(image)
  /\ \A r \in replies : ReplyOK(r)

TransferInv == SendersOK /\ ReceiverOK

LEMMA SizesAreNumbers ==
  /\ \A s \in Sizes \cup {0} : s \in Nat
  /\ \A s \in Sizes : s >= 1
BY SizeAssumption

LEMMA StoreElements ==
  ASSUME NEW d \in Stores
  PROVE  /\ DOMAIN d \subseteq Nat
         /\ \A b \in DOMAIN d : d[b] \in Tags
BY DEF Stores

LEMMA StoreOf ==
  ASSUME NEW D \in SUBSET Nat, NEW d \in [D -> Tags]
  PROVE  d \in Stores
BY DEF Stores

LEMMA InvHolds == TransferInv => TypeOK /\ WritesInsideImage /\ OneControllerPerImage
<1> SUFFICES ASSUME TransferInv
             PROVE  TypeOK /\ WritesInsideImage /\ OneControllerPerImage
  OBVIOUS
<1> USE DEF TransferInv
<1>1. \A r \in Images : ImageOK(r)
  BY DEF ReceiverOK, Images, Image, ImageOK
<1>2. \A r \in Images : \A b \in DOMAIN r.data : b \in Nat /\ r.data[b] \in Tags
  BY <1>1, StoreElements DEF ImageOK
<1>3. \A c \in Controllers :
        /\ tx[c].total \in Sizes \cup {0} /\ tx[c].current \in 0 .. tx[c].total
        /\ tx[c].block \in 0 .. Wrap - 1
        /\ upload[c] \in 0 .. Uploads
        /\ told[c] \in {"none", "ALLGOOD", "FAIL"}
  <2> SUFFICES ASSUME NEW c \in Controllers
               PROVE  /\ tx[c].total \in Sizes \cup {0} /\ tx[c].current \in 0 .. tx[c].total
                      /\ tx[c].block \in 0 .. Wrap - 1
                      /\ upload[c] \in 0 .. Uploads
                      /\ told[c] \in {"none", "ALLGOOD", "FAIL"}
    OBVIOUS
  <2>1. tx[c] \in Transfers /\ tx[c].current <= tx[c].total
    BY DEF SendersOK
  <2>2. tx[c].total \in Nat /\ tx[c].current \in Nat
    BY <2>1, SizesAreNumbers DEF Transfers
  <2>3. tx[c].current \in 0 .. tx[c].total
    BY <2>1, <2>2
  <2>4. tx[c].total \in Sizes \cup {0} /\ tx[c].block \in 0 .. Wrap - 1
    BY <2>1 DEF Transfers
  <2> QED BY <2>3, <2>4 DEF SendersOK
<1>4. /\ rx.peer \in Controllers \cup {None} /\ rx.total \in Sizes \cup {0}
      /\ rx.current \in Nat /\ rx.block \in Nat /\ rx.age \in 0 .. FirmwareTimeout
  BY DEF ReceiverOK, Receiver
<1>5. TypeOK
  BY <1>2, <1>3, <1>4 DEF TypeOK, ReceiverOK, ReplyOK
<1>6. WritesInsideImage /\ OneControllerPerImage
  BY <1>1 DEF WritesInsideImage, OneControllerPerImage, ImageOK
<1> QED BY <1>5, <1>6

(* Nothing is stored before the first block.                               *)
LEMMA EmptyReceiver ==
  ASSUME NEW n \in Nat
  PROVE  /\ [NoUpload EXCEPT !.block = n] \in Receiver
         /\ ImageOK([NoUpload EXCEPT !.block = n])
         /\ DOMAIN [NoUpload EXCEPT !.block = n].data = {}
         /\ [NoUpload EXCEPT !.block = n].peer = None
<1>1. <<>> \in [{} -> Tags] /\ DOMAIN <<>> = {}
  OBVIOUS
<1>2. <<>> \in Stores
  BY <1>1, StoreOf
<1>3. [NoUpload EXCEPT !.block = n]
      = [peer |-> None, total |-> 0, current |-> 0, block |-> n, age |-> 0, data |-> <<>>]
  BY DEF NoUpload
<1>4. 0 \in 0 .. FirmwareTimeout
  BY BoundAssumption
<1> QED BY <1>1, <1>2, <1>3, <1>4 DEF Receiver, ImageOK

LEMMA TransferInit == Init => TransferInv
<1> SUFFICES ASSUME Init
             PROVE  TransferInv
  OBVIOUS
<1>1. SendersOK
  BY SizeAssumption, BoundAssumption DEF Init, SendersOK, Idle, Transfers
<1>2. [NoUpload EXCEPT !.block = 0] = NoUpload
  BY DEF NoUpload
<1>3. ReceiverOK
  BY <1>2, EmptyReceiver DEF Init, ReceiverOK
<1> QED BY <1>1, <1>3 DEF TransferInv

(* One more block is sent, or its send fails.                              *)
LEMMA SendingKeepsTypes ==
  ASSUME NEW c \in Controllers, NEW t, TransferOK(t), t.total # 0, NEW n \in 1 .. Uploads
  PROVE  /\ TransferOK(AfterSending(t)) /\ AfterSending(t).total = t.total
         /\ PacketOK(NextPacket(c, t, n))
<1>1. /\ t.total \in Sizes /\ t.current \in Nat /\ t.block \in 0 .. Wrap - 1
      /\ t.current <= t.total /\ t = [total |-> t.total, current |-> t.current, block |-> t.block]
  BY DEF TransferOK, Transfers
<1>0. t.total \in Nat /\ t.block \in Nat
  BY <1>1, SizesAreNumbers, SizeAssumption
<1>2. /\ t.current + Lower(t.total - t.current, BlockSize) \in Nat
      /\ t.current + Lower(t.total - t.current, BlockSize) <= t.total
  BY <1>1, <1>0, SizeAssumption DEF Lower
<1>3. (t.block + 1) % Wrap \in 0 .. Wrap - 1
  <2>1. t.block + 1 \in Nat
    BY <1>0
  <2> QED BY <2>1, NumberInRange
<1>4. AfterSending(t).total = t.total
      /\ AfterSending(t).current = t.current + Lower(t.total - t.current, BlockSize)
  BY DEF AfterSending, TransferOK, Transfers
<1>5. AfterSending(t) \in Transfers
  BY <1>2, <1>3 DEF AfterSending, TransferOK, Transfers
<1>6. t.current \div BlockSize \in Nat
  BY <1>1, Quotients
<1>7. PacketOK(NextPacket(c, t, n))
  BY <1>0, <1>1, <1>6 DEF NextPacket, PacketOK, Tags
<1> QED BY <1>2, <1>4, <1>5, <1>7 DEF TransferOK

LEMMA TxKeepsTypes ==
  ASSUME SendersOK, NEW c \in Controllers, NEW t, TransferOK(t), t.total # 0,
         NEW n \in 1 .. Uploads, TxFirmwarePacket(c, t, n)
  PROVE  /\ tx' \in [Controllers -> Transfers]
         /\ tx'[c].current <= tx'[c].total
         /\ \A d \in Controllers \ {c} : tx'[d] = tx[d]
         /\ \A p \in packets' : PacketOK(p)
<1>1. /\ TransferOK(AfterSending(t)) /\ AfterSending(t).total = t.total
      /\ PacketOK(NextPacket(c, t, n))
  BY SendingKeepsTypes
<1>2. PICK next : TransferOK(next) /\ tx' = [tx EXCEPT ![c] = next]
  BY <1>1 DEF TxFirmwarePacket
<1>3. packets' \subseteq packets \cup {NextPacket(c, t, n)}
  BY DEF TxFirmwarePacket
<1>4. /\ tx' \in [Controllers -> Transfers] /\ tx'[c].current <= tx'[c].total
      /\ \A d \in Controllers \ {c} : tx'[d] = tx[d]
  BY <1>2 DEF SendersOK, TransferOK
<1> QED BY <1>1, <1>3, <1>4 DEF SendersOK

LEMMA SendFirmwareKeepsTypes ==
  ASSUME SendersOK, NEW c \in Controllers, NEW size \in Sizes, SendFirmware(c, size)
  PROVE  SendersOK'
<1> DEFINE t == [Idle EXCEPT !.total = size]
<1>1. t = [total |-> size, current |-> 0, block |-> 0]
  BY DEF Idle
<1>2. size \in Nat /\ size # 0 /\ 0 \in 0 .. Wrap - 1
  BY SizesAreNumbers, SizeAssumption
<1>3. TransferOK(t) /\ t.total # 0
  BY <1>1, <1>2 DEF TransferOK, Transfers
<1>4. upload[c] \in 0 .. Uploads /\ upload[c] < Uploads
  BY DEF SendersOK, SendFirmware
<1>5. upload[c] + 1 \in 1 .. Uploads
  BY <1>4, BoundAssumption
<1>6. TxFirmwarePacket(c, t, upload[c] + 1)
  BY DEF SendFirmware
<1> HIDE DEF t
<1>7. /\ tx' \in [Controllers -> Transfers] /\ tx'[c].current <= tx'[c].total
      /\ \A d \in Controllers \ {c} : tx'[d] = tx[d]
      /\ \A p \in packets' : PacketOK(p)
  BY <1>3, <1>5, <1>6, TxKeepsTypes
<1>8. /\ upload' \in [Controllers -> 0 .. Uploads] /\ upload'[c] \in 1 .. Uploads
      /\ \A d \in Controllers \ {c} : upload'[d] = upload[d]
  BY <1>5 DEF SendFirmware, SendersOK
<1>9. told' \in [Controllers -> {"none", "ALLGOOD", "FAIL"}]
  BY DEF SendFirmware, SendersOK
<1> QED BY <1>7, <1>8, <1>9 DEF SendersOK

(* A transfer that ends, or is forgotten with the node's entry.            *)
LEMMA EndKeepsTypes ==
  ASSUME SendersOK, NEW c \in Controllers, tx' = [tx EXCEPT ![c] = Idle],
         UNCHANGED <<upload, packets>>,
         told' \in [Controllers -> {"none", "ALLGOOD", "FAIL"}]
  PROVE  SendersOK'
<1>1. Idle \in Transfers /\ Idle.current = 0 /\ Idle.total = 0
  BY SizeAssumption DEF Idle, Transfers
<1> HIDE DEF Idle
<1>2. /\ tx' \in [Controllers -> Transfers] /\ tx'[c] = Idle
      /\ \A d \in Controllers \ {c} : tx'[d] = tx[d]
  BY <1>1 DEF SendersOK
<1> QED BY <1>1, <1>2 DEF SendersOK

LEMMA ReplyKeepsTypes ==
  ASSUME TransferInv, NEW r \in replies, HandleFirmwareReply(r)
  PROVE  TransferInv'
<1> USE DEF TransferInv
<1> DEFINE c == r.to
<1>1. c \in Controllers /\ tx[c] \in Transfers /\ upload[c] \in 0 .. Uploads
  BY DEF ReceiverOK, ReplyOK, SendersOK
<1>2. replies' \subseteq replies /\ UNCHANGED <<upload, rx, installed>>
  BY DEF HandleFirmwareReply, Taken
<1>3. ReceiverOK'
  BY <1>2 DEF ReceiverOK
<1>4. ASSUME UNCHANGED <<tx, told, packets>>
      PROVE  SendersOK'
  BY <1>2, <1>4 DEF SendersOK
<1>5. ASSUME NEW code \in {"ALLGOOD", "FAIL"}, tx' = [tx EXCEPT ![c] = Idle],
             UNCHANGED packets, told' = [told EXCEPT ![c] = code]
      PROVE  SendersOK'
  <2>1. told' \in [Controllers -> {"none", "ALLGOOD", "FAIL"}]
    BY <1>5 DEF SendersOK
  <2> QED BY <1>1, <1>2, <1>5, <2>1, EndKeepsTypes
<1>6. ASSUME tx[c].total # 0, TxFirmwarePacket(c, tx[c], upload[c]), UNCHANGED told
      PROVE  SendersOK'
  <2>1. TransferOK(tx[c]) /\ upload[c] \in 1 .. Uploads
    BY <1>1, <1>6 DEF SendersOK, TransferOK
  <2> HIDE DEF c
  <2>2. /\ tx' \in [Controllers -> Transfers] /\ tx'[c].current <= tx'[c].total
        /\ \A d \in Controllers \ {c} : tx'[d] = tx[d]
        /\ \A p \in packets' : PacketOK(p)
    BY <1>1, <1>6, <2>1, TxKeepsTypes
  <2> QED BY <1>2, <1>6, <2>1, <2>2 DEF SendersOK
<1> QED BY <1>3, <1>4, <1>5, <1>6 DEF HandleFirmwareReply

(* Replies name a controller and one of the three codes.                   *)
LEMMA RepliesOK ==
  ASSUME ReceiverOK, NEW p, PacketOK(p), NEW code \in {"BLOCKGOOD", "ALLGOOD", "FAIL"},
         Replies(p, code)
  PROVE  \A r \in replies' : ReplyOK(r)
BY DEF Replies, ReceiverOK, ReplyOK, PacketOK

LEMMA RefuseKeepsTypes ==
  ASSUME ReceiverOK, NEW p, PacketOK(p), Refuse(p)
  PROVE  ReceiverOK'
<1>1. \A r \in replies' : ReplyOK(r)
  BY RepliesOK DEF Refuse
<1> QED BY <1>1 DEF Refuse, ReceiverOK

(* A block of the peer that begins inside the image is stored inside it.   *)
LEMMA StoredOK ==
  ASSUME ReceiverOK, NEW p, PacketOK(p), FromPeer(p), NEW block \in Nat,
         block * BlockSize < rx.total
  PROVE  /\ Stored(p, block) \in Stores
         /\ DOMAIN Stored(p, block) \subseteq 0 .. Blocks(rx.total) - 1
         /\ \A b \in DOMAIN Stored(p, block) : Stored(p, block)[b][1] = rx.peer
<1>1. /\ rx.data \in Stores /\ rx.total \in Nat
      /\ DOMAIN rx.data \subseteq 0 .. Blocks(rx.total) - 1
      /\ \A b \in DOMAIN rx.data : rx.data[b][1] = rx.peer
  BY SizesAreNumbers DEF ReceiverOK, ImageOK
<1>2. block \in 0 .. Blocks(rx.total) - 1
  BY <1>1, BlockIsInside
<1>3. DOMAIN rx.data \cup {block} \in SUBSET Nat
  BY <1>1, StoreElements
<1>4. /\ DOMAIN Stored(p, block) = DOMAIN rx.data \cup {block}
      /\ \A b \in DOMAIN rx.data \cup {block} :
           Stored(p, block)[b] = IF b = block THEN p.data ELSE rx.data[b]
  BY DEF Stored
<1>5. Stored(p, block) \in [DOMAIN rx.data \cup {block} -> Tags]
  BY <1>1, StoreElements DEF Stored, PacketOK
<1>6. Stored(p, block) \in Stores
  BY <1>3, <1>5, StoreOf
<1> QED BY <1>1, <1>2, <1>4, <1>6 DEF PacketOK, FromPeer

LEMMA FirstKeepsTypes ==
  ASSUME ReceiverOK, NEW p, PacketOK(p), HandleFirst(p)
  PROVE  ReceiverOK'
<1> DEFINE length == Lower(p.total, BlockSize)
           begun == [peer |-> p.from, total |-> p.total, current |-> length, block |-> 1,
                     age |-> 0, data |-> [b \in {0} |-> p.data]]
<1>1. p.total \in Nat /\ p.total >= 1 /\ p.total \in Sizes
  BY SizesAreNumbers DEF PacketOK
<1>2. begun \in Receiver /\ ImageOK(begun)
  <2>1. length \in Nat /\ 0 \in 0 .. FirmwareTimeout
    BY <1>1, SizeAssumption, BoundAssumption DEF Lower
  <2>2. [b \in {0} |-> p.data] \in [{0} -> Tags]
    BY DEF PacketOK
  <2>3. [b \in {0} |-> p.data] \in Stores
    BY <2>2, StoreOf
  <2>4. 0 * BlockSize = 0
    BY SizeAssumption
  <2>5. 0 \in 0 .. Blocks(p.total) - 1
    BY <1>1, <2>4, BlockIsInside
  <2> HIDE DEF length
  <2>6. begun \in Receiver
    BY <2>1, <2>3 DEF Receiver, PacketOK
  <2> QED BY <2>3, <2>5, <2>6, <1>1 DEF ImageOK, PacketOK
<1>3. ImageOK(Image(begun))
  BY <1>2 DEF ImageOK, Image
<1>4. begun.peer # None
  BY ControllerAssumption DEF PacketOK
<1>5. ASSUME AcceptsFirst, rx' = begun, installed' \subseteq installed \cup {Image(begun)},
             NEW code \in {"BLOCKGOOD", "ALLGOOD", "FAIL"}, Replies(p, code)
      PROVE  ReceiverOK'
  <2>1. \A r \in replies' : ReplyOK(r)
    BY <1>5, RepliesOK
  <2> HIDE DEF begun
  <2> QED BY <2>1, <1>2, <1>3, <1>4, <1>5 DEF ReceiverOK
<1>6. ASSUME AcceptsFirst, rx' = [rx EXCEPT !.peer = p.from, !.age = FirmwareTimeout],
             UNCHANGED <<installed, replies>>
      PROVE  ReceiverOK'
  <2>1. rx \in Receiver /\ DOMAIN rx.data = {} /\ ImageOK(rx)
    BY <1>6 DEF ReceiverOK, AcceptsFirst
  <2>2. FirmwareTimeout \in 0 .. FirmwareTimeout /\ p.from \in Controllers \cup {None}
    BY BoundAssumption DEF PacketOK
  <2>3. rx' \in Receiver
    BY <1>6, <2>1, <2>2 DEF Receiver
  <2>4. rx'.total = rx.total /\ rx'.data = rx.data
    BY <1>6, <2>1 DEF Receiver
  <2>5. ImageOK(rx')
    BY <2>1, <2>4 DEF ImageOK
  <2> QED BY <1>6, <2>1, <2>3, <2>4, <2>5 DEF ReceiverOK
<1>7. CASE ~ AcceptsFirst /\ Refuse(p)
  BY <1>7, RefuseKeepsTypes
<1>8. ASSUME Deliver(begun)
      PROVE  installed' \subseteq installed \cup {Image(begun)}
  BY <1>8 DEF Deliver
<1> QED
  <2> HIDE DEF begun
  <2> SUFFICES ASSUME AcceptsFirst, rx' = begun,
                      \/ Deliver(begun) /\ Replies(p, "ALLGOOD")
                      \/ UNCHANGED installed /\ Replies(p, "BLOCKGOOD")
               PROVE  ReceiverOK'
    BY <1>6, <1>7 DEF HandleFirst, begun
  <2> QED BY <1>5, <1>8

LEMMA BlockOfIsNumber ==
  ASSUME ReceiverOK, NEW p, PacketOK(p)
  PROVE  BlockOf(p) \in Nat
BY DEF ReceiverOK, Receiver, PacketOK, BlockOf

LEMMA ContKeepsTypes ==
  ASSUME ReceiverOK, NEW p, PacketOK(p), HandleCont(p)
  PROVE  ReceiverOK'
<1> DEFINE block == BlockOf(p)
           store == Stored(p, block)
<1>1. CASE AcceptsCont(p) /\ Replies(p, "BLOCKGOOD") /\ UNCHANGED installed
        /\ rx' = [rx EXCEPT !.data = store, !.block = @ + 1, !.current = @ + BlockSize]
  <2>1. block \in Nat /\ rx.total \in Nat /\ block * BlockSize + BlockSize <= rx.total
    BY <1>1, BlockOfIsNumber, SizesAreNumbers DEF AcceptsCont, ReceiverOK, Receiver
  <2> HIDE DEF block
  <2>2. block * BlockSize < rx.total
    BY <2>1, Products, SizeAssumption
  <2>3. FromPeer(p)
    BY <1>1 DEF AcceptsCont
  <2>4. /\ store \in Stores
        /\ DOMAIN store \subseteq 0 .. Blocks(rx.total) - 1
        /\ \A b \in DOMAIN store : store[b][1] = rx.peer
    BY <2>1, <2>2, <2>3, StoredOK
  <2> HIDE DEF store
  <2>5. rx \in Receiver /\ rx.block + 1 \in Nat /\ rx.current + BlockSize \in Nat
    BY SizeAssumption DEF ReceiverOK, Receiver
  <2>6. rx' \in Receiver
    BY <1>1, <2>4, <2>5 DEF Receiver
  <2>7. rx'.data = store /\ rx'.total = rx.total /\ rx'.peer = rx.peer
    BY <1>1, <2>5 DEF Receiver
  <2>8. ImageOK(rx') /\ rx'.peer # None
    BY <2>3, <2>4, <2>7, ControllerAssumption
       DEF ImageOK, ReceiverOK, Receiver, FromPeer, PacketOK
  <2>9. \A r \in replies' : ReplyOK(r)
    BY <1>1, RepliesOK
  <2> QED BY <1>1, <2>6, <2>8, <2>9 DEF ReceiverOK
<1>2. CASE Refuse(p)
  BY <1>2, RefuseKeepsTypes
<1> QED BY <1>1, <1>2 DEF HandleCont

LEMMA LastKeepsTypes ==
  ASSUME ReceiverOK, NEW p, PacketOK(p), HandleLast(p)
  PROVE  ReceiverOK'
<1> DEFINE block == BlockOf(p)
           store == Stored(p, block)
           last == [rx EXCEPT !.data = store]
<1>1. CASE AcceptsLast(p) /\ Replies(p, "ALLGOOD") /\ rx' = Reset /\ Deliver(last)
  <2>1. block \in Nat /\ rx.total \in Nat /\ block * BlockSize + LastLength <= rx.total
    BY <1>1, BlockOfIsNumber, SizesAreNumbers DEF AcceptsLast, ReceiverOK, Receiver
  <2>2. LastLength \in Nat /\ LastLength >= 1
    BY <2>1, SizeAssumption DEF LastLength
  <2> HIDE DEF block
  <2>3. block * BlockSize < rx.total
    <3>1. block * BlockSize \in Nat
      BY <2>1, Products
    <3> QED BY <3>1, <2>1, <2>2
  <2>4. FromPeer(p)
    BY <1>1 DEF AcceptsLast
  <2>5. /\ store \in Stores
        /\ DOMAIN store \subseteq 0 .. Blocks(rx.total) - 1
        /\ \A b \in DOMAIN store : store[b][1] = rx.peer
    BY <2>1, <2>3, <2>4, StoredOK
  <2> HIDE DEF store
  <2>6. Image(last) = [peer |-> rx.peer, total |-> rx.total, data |-> store]
    BY DEF ReceiverOK, Receiver, Image
  <2>7. ImageOK(Image(last))
    BY <2>5, <2>6 DEF ImageOK, ReceiverOK, Receiver
  <2>8. \A image \in installed' : ImageOK(image)
    BY <1>1, <2>7 DEF Deliver, ReceiverOK
  <2>9. rx.block \in Nat
    BY DEF ReceiverOK, Receiver
  <2>10. rx' \in Receiver /\ ImageOK(rx') /\ DOMAIN rx'.data = {}
    BY <1>1, <2>9, EmptyReceiver DEF Reset
  <2>11. \A r \in replies' : ReplyOK(r)
    BY <1>1, RepliesOK
  <2> QED BY <2>8, <2>10, <2>11 DEF ReceiverOK
<1>2. CASE Refuse(p)
  BY <1>2, RefuseKeepsTypes
<1> QED BY <1>1, <1>2 DEF HandleLast

LEMMA FirmwareKeepsTypes ==
  ASSUME TransferInv, NEW p \in packets, HandleFirmware(p)
  PROVE  TransferInv'
<1>1. SendersOK /\ ReceiverOK /\ PacketOK(p)
  BY DEF TransferInv, SendersOK
<1>2. packets' \subseteq packets /\ UNCHANGED <<tx, upload, told>>
  BY DEF HandleFirmware, Taken
<1>3. SendersOK'
  BY <1>1, <1>2 DEF SendersOK
<1>4. ReceiverOK'
  BY <1>1, FirstKeepsTypes, ContKeepsTypes, LastKeepsTypes DEF HandleFirmware
<1> QED BY <1>3, <1>4 DEF TransferInv

LEMMA TimeKeepsTypes ==
  ASSUME TransferInv, UploadTimesOut \/ Tick
  PROVE  TransferInv'
<1>1. SendersOK'
  BY DEF TransferInv, SendersOK, UploadTimesOut, Tick
<1>2. ReceiverOK
  BY DEF TransferInv
<1>3. CASE UploadTimesOut
  <2>1. rx.block \in Nat
    BY <1>2 DEF ReceiverOK, Receiver
  <2>2. rx' \in Receiver /\ ImageOK(rx') /\ DOMAIN rx'.data = {}
    BY <1>3, <2>1, EmptyReceiver DEF UploadTimesOut, Reset
  <2> QED BY <1>1, <1>2, <1>3, <2>2 DEF TransferInv, ReceiverOK, UploadTimesOut
<1>4. CASE Tick
  <2>1. rx \in Receiver /\ rx.age + 1 \in 0 .. FirmwareTimeout
    BY <1>2, <1>4, BoundAssumption DEF ReceiverOK, Receiver, Tick
  <2>2. rx' \in Receiver
    BY <1>4, <2>1 DEF Receiver, Tick
  <2>3. rx'.data = rx.data /\ rx'.total = rx.total /\ rx'.peer = rx.peer
    BY <1>4, <2>1 DEF Receiver, Tick
  <2>4. ImageOK(rx')
    BY <1>2, <2>3 DEF ImageOK, ReceiverOK
  <2> QED BY <1>1, <1>2, <1>4, <2>2, <2>3, <2>4 DEF TransferInv, ReceiverOK, Tick
<1> QED BY <1>3, <1>4

LEMMA TransferStep == TransferInv /\ [Next]_vars => TransferInv'
<1> SUFFICES ASSUME TransferInv, [Next]_vars
             PROVE  TransferInv'
  OBVIOUS
<1>1. ASSUME NEW c \in Controllers, NEW size \in Sizes, SendFirmware(c, size)
      PROVE  TransferInv'
  <2>1. SendersOK'
    BY <1>1, SendFirmwareKeepsTypes DEF TransferInv
  <2>2. ReceiverOK'
    BY <1>1 DEF TransferInv, ReceiverOK, SendFirmware
  <2> QED BY <2>1, <2>2 DEF TransferInv
<1>2. ASSUME NEW c \in Controllers, ForgetNode(c)
      PROVE  TransferInv'
  <2>1. told' \in [Controllers -> {"none", "ALLGOOD", "FAIL"}]
    BY <1>2 DEF TransferInv, SendersOK, ForgetNode
  <2>2. SendersOK'
    BY <1>2, <2>1, EndKeepsTypes DEF TransferInv, ForgetNode
  <2>3. ReceiverOK'
    BY <1>2 DEF TransferInv, ReceiverOK, ForgetNode
  <2> QED BY <2>2, <2>3 DEF TransferInv
<1>3. CASE UNCHANGED vars
  BY <1>3 DEF TransferInv, SendersOK, ReceiverOK, vars
<1> QED
  BY <1>1, <1>2, <1>3, FirmwareKeepsTypes, ReplyKeepsTypes, TimeKeepsTypes DEF Next

LEMMA TransferSafe == Spec => []TransferInv
BY TransferInit, TransferStep, PTL DEF Spec

(* private.h, firmware_transfer_t: the fields of a transfer stay in their  *)
(* ranges, its byte count never passing its length.                        *)
THEOREM TransferTypes == Spec => []TypeOK
BY TransferSafe, InvHolds, PTL

(* handle_firmware: the offset is checked before each copy into the image, *)
(* and the check is enough for every block number received.                *)
THEOREM NothingOutsideTheImage == Spec => []WritesInsideImage
BY TransferSafe, InvHolds, PTL

(* handle_firmware: the peer's address is checked before each copy, so the *)
(* blocks of one image come from one controller.                           *)
THEOREM ImagesAreNotMixed == Spec => []OneControllerPerImage
BY TransferSafe, InvHolds, PTL

-----------------------------------------------------------------------------
(* What an upload comes to, while packets are delivered once and the       *)
(* controllers keep their node entries; sends and allocations may fail.    *)

Reliable == Faults \subseteq {"send_fails", "no_memory"}

PacketsFrom(c) == {p \in packets : p.from = c}
RepliesTo(c) == {r \in replies : r.to = c}

(* The packet of block b of the upload of controller c.                    *)
PacketOf(c, b) ==
  NextPacket(c, [total |-> tx[c].total, current |-> b * BlockSize, block |-> b % Wrap],
             upload[c])

(* Controller c has sent the first k blocks of its upload.                 *)
HasSent(c, k) ==
  /\ tx[c].current = Lower(tx[c].total, k * BlockSize)
  /\ tx[c].block = k % Wrap
  /\ (k - 1) * BlockSize < tx[c].total

(* The node holds the first k blocks of it, if it still is c's turn.       *)
Assembled(c, k) ==
  /\ rx.total = tx[c].total /\ rx.block = k
  /\ rx.data = [b \in 0 .. k - 1 |-> <<c, upload[c], b>>]

Holds(c, k) == rx.peer = c => Assembled(c, k)

Delivered(c) == \E image \in installed : image.peer = c /\ Whole(image, upload[c])

(* An upload is a conversation: block k is under way, or its answer is, or *)
(* nothing is, the upload being over or stalled.                           *)
Quiet(c) == PacketsFrom(c) = {} /\ RepliesTo(c) = {}

Sending(c, k) ==
  /\ PacketsFrom(c) = {PacketOf(c, k - 1)} /\ RepliesTo(c) = {}
  /\ k = 1 \/ Holds(c, k - 1)

Answered(c, k) ==
  /\ PacketsFrom(c) = {}
  /\ \/ RepliesTo(c) = {[to |-> c, code |-> "FAIL"]}
     \/ RepliesTo(c) = {[to |-> c, code |-> "ALLGOOD"]} /\ Delivered(c)
     \/ RepliesTo(c) = {[to |-> c, code |-> "BLOCKGOOD"]} /\ Holds(c, k)

Exchange(c) ==
  Quiet(c) \/ \E k \in Nat \ {0} : HasSent(c, k) /\ (Sending(c, k) \/ Answered(c, k))

ConversationInv ==
  TransferInv /\ (\A c \in Controllers : Exchange(c)) /\ InstalledIntact /\ SuccessIsReal

LEMMA ConversationInit == Init => ConversationInv
<1> SUFFICES ASSUME Init
             PROVE  ConversationInv
  OBVIOUS
<1>1. \A c \in Controllers : Exchange(c)
  BY DEF Init, Exchange, Quiet, PacketsFrom, RepliesTo
<1>2. InstalledIntact /\ SuccessIsReal
  BY DEF Init, InstalledIntact, SuccessIsReal
<1> QED BY <1>1, <1>2, TransferInit DEF ConversationInv

(* What a step of another controller, or of time, leaves alone.            *)
LEMMA OthersKeep ==
  ASSUME NEW c \in Controllers, Exchange(c),
         tx'[c] = tx[c], upload'[c] = upload[c], installed \subseteq installed',
         PacketsFrom(c)' = PacketsFrom(c), RepliesTo(c)' = RepliesTo(c),
         rx'.peer = c => /\ rx'.peer = rx.peer /\ rx'.total = rx.total
                         /\ rx'.block = rx.block /\ rx'.data = rx.data
  PROVE  Exchange(c)'
<1>1. \A k : HasSent(c, k)' = HasSent(c, k) /\ PacketOf(c, k)' = PacketOf(c, k)
  BY DEF HasSent, PacketOf
<1>2. \A k : Holds(c, k) => Holds(c, k)'
  BY DEF Holds, Assembled
<1>3. Delivered(c) => Delivered(c)'
  BY DEF Delivered, Whole
<1>4. \A k : (Sending(c, k) => Sending(c, k)') /\ (Answered(c, k) => Answered(c, k)')
  BY <1>1, <1>2, <1>3 DEF Sending, Answered
<1> QED BY <1>1, <1>4 DEF Exchange, Quiet

LEMMA PacketFields ==
  ASSUME NEW c, NEW t, NEW n, NEW b \in Nat, t.current = b * BlockSize, t.total \in Nat
  PROVE  /\ NextPacket(c, t, n).from = c /\ NextPacket(c, t, n).total = t.total
         /\ NextPacket(c, t, n).blockId = t.block
         /\ NextPacket(c, t, n).data = <<c, n, b>>
         /\ NextPacket(c, t, n).type = "FIRST" <=> b = 0
         /\ NextPacket(c, t, n).type = "LAST" => t.total < b * BlockSize + BlockSize
<1>1. b * BlockSize \in Nat /\ (b * BlockSize = 0 <=> b = 0)
  <2>1. b * BlockSize \in Nat /\ b * BlockSize >= b /\ 0 * BlockSize = 0
    BY Products, SizeAssumption
  <2> QED BY <2>1
<1>2. (b * BlockSize) \div BlockSize = b
  BY PlaceOfBlock
<1>3. Lower(t.total - t.current, BlockSize) # BlockSize => t.total < b * BlockSize + BlockSize
  BY <1>1, SizeAssumption DEF Lower
<1> QED BY <1>1, <1>2, <1>3 DEF NextPacket

(* The next block goes out: the conversation moves to it, or stalls.       *)
LEMMA NextBlockSent ==
  ASSUME NEW c \in Controllers, NEW t, NEW k \in Nat, NEW n,
         TransferInv, TransferOK(t), t.total # 0,
         t.current = k * BlockSize, t.block = k % Wrap, k * BlockSize < t.total,
         TxFirmwarePacket(c, t, n), upload'[c] = n,
         PacketsFrom(c) = {}, RepliesTo(c)' = {},
         k = 0 \/ Holds(c, k)'
  PROVE  Exchange(c)'
<1>1. CASE tx' = [tx EXCEPT ![c] = AfterSending(t)]
           /\ packets' = packets \cup {NextPacket(c, t, n)}
  <2>1. t.total \in Nat /\ t.current \in Nat /\ t \in Transfers
    BY SizesAreNumbers DEF TransferOK, Transfers
  <2>2. tx'[c] = AfterSending(t)
    BY <1>1 DEF TransferInv, SendersOK
  <2>3. /\ tx'[c].total = t.total
        /\ tx'[c].current = t.current + Lower(t.total - t.current, BlockSize)
        /\ tx'[c].block = (t.block + 1) % Wrap
    BY <2>1, <2>2 DEF AfterSending, Transfers
  <2>4. (k + 1) * BlockSize = k * BlockSize + BlockSize /\ k * BlockSize \in Nat
    BY Products
  <2>5. tx'[c].current = Lower(tx'[c].total, (k + 1) * BlockSize)
    BY <2>1, <2>3, <2>4, SizeAssumption DEF Lower
  <2>6. tx'[c].block = (k + 1) % Wrap
    BY <2>3, NextNumber
  <2>7. HasSent(c, k + 1)'
    BY <2>3, <2>5, <2>6 DEF HasSent
  <2>8. PacketOf(c, k)' = NextPacket(c, t, n)
    BY <2>3 DEF PacketOf, NextPacket
  <2>9. NextPacket(c, t, n).from = c
    BY DEF NextPacket
  <2>10. PacketsFrom(c)' = {PacketOf(c, k)'}
    BY <1>1, <2>8, <2>9 DEF PacketsFrom
  <2>11. Sending(c, k + 1)'
    BY <2>10 DEF Sending
  <2>12. k + 1 \in Nat \ {0}
    OBVIOUS
  <2> QED BY <2>7, <2>11, <2>12 DEF Exchange
<1>2. CASE UNCHANGED packets
  BY <1>2 DEF Exchange, Quiet, PacketsFrom
<1> QED BY <1>1, <1>2 DEF TxFirmwarePacket

LEMMA SendFirmwareKeepsConversation ==
  ASSUME ConversationInv, NEW c \in Controllers, NEW size \in Sizes, SendFirmware(c, size)
  PROVE  (\A d \in Controllers : Exchange(d)') /\ InstalledIntact' /\ SuccessIsReal'
<1> DEFINE t == [Idle EXCEPT !.total = size]
<1>1. t = [total |-> size, current |-> 0, block |-> 0] /\ tx[c].total = 0
  BY DEF Idle, SendFirmware
<1>2. size \in Nat /\ size # 0 /\ 0 \in 0 .. Wrap - 1
  BY SizesAreNumbers, SizeAssumption
<1>3. /\ UNCHANGED <<rx, installed, replies>>
      /\ upload' = [upload EXCEPT ![c] = @ + 1] /\ told' = [told EXCEPT ![c] = "none"]
      /\ TxFirmwarePacket(c, t, upload[c] + 1)
  BY DEF SendFirmware
<1>4. Quiet(c)
  <2>1. \A k \in Nat \ {0} : ~ HasSent(c, k)
    <3> SUFFICES ASSUME NEW k \in Nat \ {0}, HasSent(c, k)
                 PROVE  FALSE
      OBVIOUS
    <3>1. k - 1 \in Nat
      OBVIOUS
    <3>2. (k - 1) * BlockSize \in Nat
      BY <3>1, Products
    <3> QED BY <3>2, <1>1 DEF HasSent
  <2> QED BY <2>1 DEF ConversationInv, Exchange
<1>5. Exchange(c)'
  <2>1. TransferOK(t) /\ t.total # 0
    BY <1>1, <1>2 DEF TransferOK, Transfers
  <2>2. 0 * BlockSize = 0 /\ 0 % Wrap = 0
    BY SmallNumber, SizeAssumption
  <2>3. t.current = 0 * BlockSize /\ t.block = 0 % Wrap /\ 0 * BlockSize < t.total
    BY <1>1, <1>2, <2>2
  <2>4. upload'[c] = upload[c] + 1
    BY <1>3 DEF ConversationInv, TransferInv, SendersOK
  <2>5. PacketsFrom(c) = {} /\ RepliesTo(c)' = {}
    BY <1>3, <1>4 DEF Quiet, RepliesTo
  <2> HIDE DEF t
  <2> QED BY <1>3, <2>1, <2>3, <2>4, <2>5, NextBlockSent DEF ConversationInv
<1>6. ASSUME NEW d \in Controllers, d # c
      PROVE  Exchange(d)' /\ upload'[d] = upload[d] /\ told'[d] = told[d]
  <2>1. /\ tx'[d] = tx[d] /\ upload'[d] = upload[d] /\ told'[d] = told[d]
    BY <1>3, <1>6 DEF ConversationInv, TransferInv, SendersOK, TxFirmwarePacket
  <2>2. PacketsFrom(d)' = PacketsFrom(d) /\ RepliesTo(d)' = RepliesTo(d)
    BY <1>3, <1>6 DEF PacketsFrom, RepliesTo, TxFirmwarePacket, NextPacket
  <2>3. Exchange(d)
    BY DEF ConversationInv
  <2> QED BY <1>3, <2>1, <2>2, <2>3, OthersKeep
<1>7. InstalledIntact'
  BY <1>3 DEF ConversationInv, InstalledIntact, Whole
<1>8. SuccessIsReal'
  <2>1. told'[c] = "none"
    BY <1>3 DEF ConversationInv, TransferInv, SendersOK
  <2>2. \A d \in Controllers : told[d] = "ALLGOOD" => Delivered(d)
    BY DEF ConversationInv, SuccessIsReal, Delivered
  <2>3. \A d \in Controllers \ {c} : Delivered(d) => Delivered(d)'
    BY <1>3, <1>6 DEF Delivered, Whole
  <2>4. \A d \in Controllers : told'[d] = "ALLGOOD" => Delivered(d)'
    BY <2>1, <2>2, <2>3, <1>6
  <2> QED BY <2>4 DEF SuccessIsReal, Delivered
<1> QED BY <1>5, <1>6, <1>7, <1>8

LEMMA ReplyKeepsConversation ==
  ASSUME Reliable, ConversationInv, NEW r \in replies, HandleFirmwareReply(r)
  PROVE  (\A d \in Controllers : Exchange(d)') /\ InstalledIntact' /\ SuccessIsReal'
<1> DEFINE c == r.to
<1>1. c \in Controllers /\ TransferInv /\ Exchange(c) /\ TransferOK(tx[c])
  BY DEF ConversationInv, TransferInv, ReceiverOK, ReplyOK, SendersOK, TransferOK
<1>2. replies' = replies \ {r} /\ UNCHANGED <<upload, rx, installed>>
  BY DEF HandleFirmwareReply, Taken, Reliable
<1>3. PICK k \in Nat \ {0} : HasSent(c, k) /\ Answered(c, k)
  BY <1>1 DEF Exchange, Quiet, Sending, RepliesTo
<1>4. /\ PacketsFrom(c) = {} /\ RepliesTo(c) = {r} /\ RepliesTo(c)' = {}
      /\ r.code = "ALLGOOD" => Delivered(c)
      /\ r.code = "BLOCKGOOD" => Holds(c, k)
  BY <1>2, <1>3 DEF Answered, RepliesTo
<1>5. ASSUME UNCHANGED packets
      PROVE  Exchange(c)'
  BY <1>4, <1>5 DEF Exchange, Quiet, PacketsFrom
<1>6. ASSUME NEW d \in Controllers, d # c, tx'[d] = tx[d],
             PacketsFrom(d)' = PacketsFrom(d)
      PROVE  Exchange(d)'
  <2>1. RepliesTo(d)' = RepliesTo(d) /\ Exchange(d)
    BY <1>2, <1>6 DEF RepliesTo, ConversationInv
  <2> HIDE DEF c
  <2> QED BY <1>2, <1>6, <2>1, OthersKeep
<1>7. InstalledIntact'
  BY <1>2 DEF ConversationInv, InstalledIntact, Whole
<1>8. \A d \in Controllers : told[d] = "ALLGOOD" => Delivered(d)'
  BY <1>2 DEF ConversationInv, SuccessIsReal, Delivered, Whole
<1>9. CASE UNCHANGED <<tx, told, packets>>
  <2>1. \A d \in Controllers : Exchange(d)'
    BY <1>5, <1>6, <1>9 DEF PacketsFrom
  <2>2. SuccessIsReal'
    BY <1>8, <1>9 DEF SuccessIsReal, Delivered
  <2> QED BY <2>1, <2>2, <1>7
<1>10. ASSUME NEW code \in {"ALLGOOD", "FAIL"}, r.code = code, tx' = [tx EXCEPT ![c] = Idle],
              UNCHANGED packets, told' = [told EXCEPT ![c] = code]
       PROVE  (\A d \in Controllers : Exchange(d)') /\ SuccessIsReal'
  <2>1. \A d \in Controllers : d # c => tx'[d] = tx[d] /\ PacketsFrom(d)' = PacketsFrom(d)
    BY <1>10, <1>1 DEF PacketsFrom, TransferInv, SendersOK
  <2>2. \A d \in Controllers : Exchange(d)'
    BY <1>5, <1>6, <1>10, <2>1
  <2>3. Delivered(c) => Delivered(c)'
    BY <1>2 DEF Delivered, Whole
  <2>4. \A d \in Controllers : told'[d] = "ALLGOOD" => Delivered(d)'
    BY <1>1, <1>4, <1>8, <1>10, <2>3 DEF TransferInv, SendersOK
  <2> QED BY <2>2, <2>4 DEF SuccessIsReal, Delivered
<1>11. ASSUME tx[c].total # 0, r.code = "BLOCKGOOD", tx[c].total # tx[c].current,
              TxFirmwarePacket(c, tx[c], upload[c]), UNCHANGED told
       PROVE  (\A d \in Controllers : Exchange(d)') /\ SuccessIsReal'
  <2>1. /\ k \in Nat /\ k * BlockSize \in Nat /\ tx[c].total \in Nat
    BY <1>1, Products, SizesAreNumbers DEF TransferOK, Transfers
  <2>2. /\ tx[c].current = k * BlockSize /\ tx[c].block = k % Wrap
        /\ k * BlockSize < tx[c].total
    BY <1>3, <1>11, <2>1 DEF HasSent, Lower
  <2>3. upload'[c] = upload[c] /\ Holds(c, k)
    BY <1>2, <1>4, <1>11
  <2>4. \A d \in Controllers : d # c => tx'[d] = tx[d] /\ PacketsFrom(d)' = PacketsFrom(d)
    BY <1>1, <1>11 DEF PacketsFrom, TransferInv, SendersOK, TxFirmwarePacket, NextPacket
  <2>5. Holds(c, k)'
    <3>1. tx'[c].total = tx[c].total
      <4>1. AfterSending(tx[c]).total = tx[c].total
        BY <1>1 DEF AfterSending, TransferOK, Transfers
      <4> QED BY <1>1, <1>11, <4>1 DEF TxFirmwarePacket, TransferInv, SendersOK
    <3> QED BY <3>1, <2>3, <1>2 DEF Holds, Assembled
  <2> HIDE DEF c
  <2>6. Exchange(c)'
    BY <1>1, <1>4, <1>11, <2>1, <2>2, <2>3, <2>5, NextBlockSent
  <2>7. \A d \in Controllers : Exchange(d)'
    BY <1>6, <2>4, <2>6
  <2>8. SuccessIsReal'
    BY <1>8, <1>11 DEF SuccessIsReal, Delivered
  <2> QED BY <2>7, <2>8
<1> QED BY <1>7, <1>9, <1>10, <1>11 DEF HandleFirmwareReply

(* An image assembled from every block of an upload is the upload.         *)
LEMMA AssembledIsWhole ==
  ASSUME NEW c, NEW n, NEW k \in Nat \ {0}, NEW image, image.peer = c, image.total \in Nat,
         (k - 1) * BlockSize < image.total, image.total <= (k - 1) * BlockSize + BlockSize,
         DOMAIN image.data = 0 .. k - 1, \A b \in 0 .. k - 1 : image.data[b] = <<c, n, b>>
  PROVE  Whole(image, n)
<1>1. k - 1 \in Nat /\ (k - 1) + 1 = k
  OBVIOUS
<1>2. Blocks(image.total) = k
  BY <1>1, BlocksUpTo
<1> QED BY <1>2 DEF Whole

(* The block number the node makes of a packet of the block it waits for.  *)
LEMMA BlockIsNext ==
  ASSUME NEW p, NEW k \in Nat, rx.block = k, p.blockId = k % Wrap
  PROVE  BlockOf(p) = k
<1>1. CASE k >= Wrap
  BY <1>1 DEF BlockOf
<1>2. CASE k < Wrap
  BY <1>2, SmallNumber, SizeAssumption DEF BlockOf
<1> QED BY <1>1, <1>2, SizeAssumption

(* One packet received: the sender's conversation gets its answer, and an  *)
(* image that is delivered is the sender's upload.                         *)
LEMMA BlockAnswered ==
  ASSUME TransferInv, NEW p \in packets, NEW k \in Nat \ {0},
         HasSent(p.from, k), Sending(p.from, k),
         packets' = packets \ {p}, UNCHANGED <<tx, upload, told>>,
         HandleFirst(p) \/ HandleCont(p) \/ HandleLast(p)
  PROVE  /\ Exchange(p.from)'
         /\ installed \subseteq installed'
         /\ \A image \in installed' \ installed : Whole(image, upload[p.from])
         /\ \A d \in Controllers \ {p.from} :
              rx'.peer = d => rx' = rx
         /\ \E code : replies' \subseteq replies \cup {[to |-> p.from, code |-> code]}
                     /\ replies \subseteq replies'
<1> DEFINE c == p.from
           b == k - 1
<1>1. /\ PacketsFrom(c) = {PacketOf(c, b)} /\ RepliesTo(c) = {} /\ (k = 1 \/ Holds(c, b))
      /\ p = PacketOf(c, b) /\ PacketsFrom(c)' = {}
  BY DEF Sending, PacketsFrom
<1>2. /\ c \in Controllers /\ tx[c] \in Transfers /\ tx[c].total \in Nat
      /\ b \in Nat /\ b * BlockSize \in Nat /\ b * BlockSize < tx[c].total /\ b + 1 = k
  <2>1. c \in Controllers /\ tx[c] \in Transfers
    BY DEF TransferInv, SendersOK, PacketOK
  <2>2. tx[c].total \in Nat
    BY <2>1, SizesAreNumbers DEF Transfers
  <2>3. b \in Nat /\ b + 1 = k
    OBVIOUS
  <2> QED BY <2>1, <2>2, <2>3, Products DEF HasSent
<1>3. /\ p.total = tx[c].total /\ p.blockId = b % Wrap /\ p.data = <<c, upload[c], b>>
      /\ p.type = "FIRST" <=> b = 0
      /\ p.type = "LAST" => p.total < b * BlockSize + BlockSize
  <2> DEFINE t == [total |-> tx[c].total, current |-> b * BlockSize, block |-> b % Wrap]
  <2>1. t.current = b * BlockSize /\ t.total = tx[c].total /\ t.block = b % Wrap
    OBVIOUS
  <2>2. p = NextPacket(c, t, upload[c])
    BY <1>1 DEF PacketOf
  <2> HIDE DEF t, b
  <2>3. /\ NextPacket(c, t, upload[c]).total = t.total
        /\ NextPacket(c, t, upload[c]).blockId = t.block
        /\ NextPacket(c, t, upload[c]).data = <<c, upload[c], b>>
        /\ NextPacket(c, t, upload[c]).type = "FIRST" <=> b = 0
        /\ NextPacket(c, t, upload[c]).type = "LAST" => t.total < b * BlockSize + BlockSize
    BY <1>2, <2>1, PacketFields
  <2> HIDE DEF t, c
  <2> QED BY <2>1, <2>2, <2>3
<1>4. HasSent(c, k)'
  BY DEF HasSent
<1>5. ASSUME NEW code, Replies(p, code),
             \/ code = "FAIL"
             \/ code = "ALLGOOD" /\ Delivered(c)'
             \/ code = "BLOCKGOOD" /\ Holds(c, k)'
      PROVE  /\ Exchange(c)'
             /\ replies' \subseteq replies \cup {[to |-> c, code |-> code]}
             /\ replies \subseteq replies'
  <2>1. RepliesTo(c)' = {[to |-> c, code |-> code]}
    BY <1>1, <1>5 DEF Replies, RepliesTo
  <2>2. Answered(c, k)'
    BY <1>1, <1>5, <2>1 DEF Answered
  <2>3. Exchange(c)'
    BY <1>4, <2>2 DEF Exchange
  <2> QED BY <1>5, <2>3 DEF Replies
<1> DEFINE Answer == /\ Exchange(c)'
                     /\ installed \subseteq installed'
                     /\ \A image \in installed' \ installed : Whole(image, upload[c])
                     /\ \A d \in Controllers \ {c} : rx'.peer = d => rx' = rx
                     /\ \E code : replies' \subseteq replies \cup {[to |-> c, code |-> code]}
                                 /\ replies \subseteq replies'
<1>6. ASSUME Refuse(p)
      PROVE  Answer
  BY <1>5, <1>6 DEF Refuse
<1>7. ASSUME HandleFirst(p)
      PROVE  Answer
  <2> DEFINE length == Lower(p.total, BlockSize)
             begun == [peer |-> p.from, total |-> p.total, current |-> length, block |-> 1,
                       age |-> 0, data |-> [i \in {0} |-> p.data]]
  <2>1. b = 0 /\ k = 1 /\ {0} = 0 .. k - 1 /\ b * BlockSize = 0
    BY <1>2, <1>3, <1>7, SizeAssumption DEF HandleFirst
  <2>2. /\ begun.peer = c /\ begun.total = tx[c].total /\ begun.block = k
        /\ begun.data = [i \in 0 .. k - 1 |-> <<c, upload[c], i>>]
    BY <1>3, <2>1
  <2>3. ASSUME rx' = begun
        PROVE  Holds(c, k)'
    BY <2>2, <2>3 DEF Holds, Assembled
  <2>4. length = p.total => Whole(Image(begun), upload[c])
    <3>1. SUFFICES ASSUME length = p.total
                   PROVE  Whole(Image(begun), upload[c])
      OBVIOUS
    <3>2. p.total <= BlockSize
      <4>1. p.total \in Nat
        BY <1>2, <1>3
      <4> QED BY <4>1, <3>1, SizeAssumption DEF Lower
    <3>3. /\ Image(begun).peer = c /\ Image(begun).total = tx[c].total
          /\ DOMAIN Image(begun).data = 0 .. k - 1
          /\ \A i \in 0 .. k - 1 : Image(begun).data[i] = <<c, upload[c], i>>
      BY <2>2 DEF Image
    <3>5. Image(begun).total \in Nat
      BY <1>2, <3>3
    <3>4. /\ (k - 1) * BlockSize < tx[c].total
          /\ tx[c].total <= (k - 1) * BlockSize + BlockSize
      BY <1>2, <1>3, <2>1, <3>2, SizeAssumption
    <3> HIDE DEF begun, length, b, c
    <3> QED BY ONLY <3>3, <3>4, <3>5, AssembledIsWhole, ZenonT(30)
  <2>5. begun.peer = p.from /\ Image(begun).peer = c
    BY DEF Image
  <2> HIDE DEF begun
  <2>6. ASSUME AcceptsFirst, rx' = begun, length = p.total, Deliver(begun),
               Replies(p, "ALLGOOD")
        PROVE  Answer
    <3>1. /\ Image(begun) \in installed' /\ installed \subseteq installed'
          /\ installed' \ installed \subseteq {Image(begun)}
      BY <2>6 DEF Deliver
    <3>2. Delivered(c)'
      BY <3>1, <2>4, <2>5, <2>6 DEF Delivered, Whole
    <3>3. Exchange(c)' /\ \E code : replies' \subseteq replies \cup {[to |-> c, code |-> code]}
                                   /\ replies \subseteq replies'
      BY <1>5, <2>6, <3>2
    <3> QED BY <2>4, <2>5, <2>6, <3>1, <3>3
  <2>7. ASSUME AcceptsFirst, rx' = begun, UNCHANGED installed, Replies(p, "BLOCKGOOD")
        PROVE  Answer
    <3>1. Exchange(c)' /\ \E code : replies' \subseteq replies \cup {[to |-> c, code |-> code]}
                                   /\ replies \subseteq replies'
      BY <1>5, <2>3, <2>7
    <3> QED BY <2>5, <2>7, <3>1
  <2>8. ASSUME rx' = [rx EXCEPT !.peer = p.from, !.age = FirmwareTimeout],
               UNCHANGED <<installed, replies>>
        PROVE  Answer
    <3>1. Quiet(c)'
      BY <1>1, <2>8 DEF Quiet, RepliesTo
    <3>2. Exchange(c)' /\ rx'.peer = c
      BY <2>8, <3>1 DEF Exchange, TransferInv, ReceiverOK, Receiver
    <3> QED BY <2>8, <3>2
  <2> QED BY <1>6, <1>7, <2>6, <2>7, <2>8 DEF HandleFirst, begun
<1>8. ASSUME p.type # "FIRST", FromPeer(p)
      PROVE  /\ rx.peer = c /\ rx.total = tx[c].total /\ BlockOf(p) = b
             /\ Stored(p, BlockOf(p)) = [i \in 0 .. k - 1 |-> <<c, upload[c], i>>]
             /\ rx.block = b
  <2>0. rx.peer = c /\ b # 0
    BY <1>3, <1>8 DEF FromPeer
  <2>1. Assembled(c, b) /\ rx.peer = c
    BY <1>1, <1>2, <2>0 DEF Holds
  <2>2. rx.total = tx[c].total /\ rx.block = b
    BY <2>1 DEF Assembled
  <2>3. BlockOf(p) = b
    BY <1>2, <1>3, <2>2, BlockIsNext
  <2>4. rx.data = [i \in 0 .. b - 1 |-> <<c, upload[c], i>>]
    BY <2>1 DEF Assembled
  <2>5. (0 .. b - 1) \cup {b} = 0 .. k - 1
    BY <1>2
  <2> HIDE DEF b
  <2>6. Stored(p, b) = [i \in 0 .. k - 1 |-> <<c, upload[c], i>>]
    BY <1>3, <2>4, <2>5 DEF Stored
  <2> QED BY <2>1, <2>2, <2>3, <2>6
<1>9. ASSUME HandleCont(p)
      PROVE  Answer
  <2> DEFINE store == Stored(p, BlockOf(p))
  <2>1. ASSUME AcceptsCont(p), UNCHANGED installed, Replies(p, "BLOCKGOOD"),
               rx' = [rx EXCEPT !.data = store, !.block = @ + 1, !.current = @ + BlockSize]
        PROVE  Answer
    <3>1. /\ rx.peer = c /\ rx.total = tx[c].total /\ rx.block + 1 = k
          /\ store = [i \in 0 .. k - 1 |-> <<c, upload[c], i>>]
      BY <1>2, <1>8, <1>9, <2>1 DEF HandleCont, AcceptsCont
    <3> HIDE DEF store
    <3>2. /\ rx'.data = store /\ rx'.total = rx.total /\ rx'.peer = rx.peer
          /\ rx'.block = rx.block + 1
      BY <2>1 DEF TransferInv, ReceiverOK, Receiver
    <3>3. Holds(c, k)'
      BY <3>1, <3>2 DEF Holds, Assembled
    <3>4. Exchange(c)' /\ \E code : replies' \subseteq replies \cup {[to |-> c, code |-> code]}
                                   /\ replies \subseteq replies'
      BY <1>5, <2>1, <3>3
    <3> QED BY <2>1, <3>1, <3>2, <3>4
  <2> QED BY <1>6, <1>9, <2>1 DEF HandleCont
<1>10. ASSUME HandleLast(p)
       PROVE  Answer
  <2> DEFINE last == [rx EXCEPT !.data = Stored(p, BlockOf(p))]
  <2>1. ASSUME AcceptsLast(p), Deliver(last), rx' = Reset, Replies(p, "ALLGOOD")
        PROVE  Answer
    <3>1. /\ rx.peer = c /\ rx.total = tx[c].total
          /\ Stored(p, BlockOf(p)) = [i \in 0 .. k - 1 |-> <<c, upload[c], i>>]
      BY <1>8, <1>10, <2>1 DEF HandleLast, AcceptsLast
    <3>2. Image(last) = [peer |-> rx.peer, total |-> rx.total, data |-> Stored(p, BlockOf(p))]
      BY DEF TransferInv, ReceiverOK, Receiver, Image
    <3> HIDE DEF last
    <3>3. /\ Image(last).peer = c /\ Image(last).total = tx[c].total
          /\ DOMAIN Image(last).data = 0 .. k - 1
          /\ \A i \in 0 .. k - 1 : Image(last).data[i] = <<c, upload[c], i>>
      BY <3>1, <3>2
    <3>0. Image(last).total \in Nat
      BY <1>2, <3>3
    <3>4. /\ (k - 1) * BlockSize < tx[c].total
          /\ tx[c].total <= (k - 1) * BlockSize + BlockSize
      BY <1>2, <1>3, <1>10, SizeAssumption DEF HandleLast
    <3> HIDE DEF b, c
    <3>5. Whole(Image(last), upload[c])
      BY ONLY <3>3, <3>4, <3>0, AssembledIsWhole, ZenonT(30)
    <3>6. /\ Image(last) \in installed' /\ installed \subseteq installed'
          /\ installed' \ installed \subseteq {Image(last)}
      BY <2>1 DEF Deliver
    <3>7. Delivered(c)'
      BY <3>3, <3>5, <3>6 DEF Delivered, Whole
    <3>8. Exchange(c)' /\ \E code : replies' \subseteq replies \cup {[to |-> c, code |-> code]}
                                   /\ replies \subseteq replies'
      BY <1>5, <2>1, <3>7 DEF c
    <3>9. \A d \in Controllers : rx'.peer # d
      BY <2>1, ControllerAssumption DEF Reset, NoUpload
    <3> QED BY <3>5, <3>6, <3>8, <3>9
  <2> QED BY <1>6, <1>10, <2>1 DEF HandleLast
<1> QED BY <1>7, <1>9, <1>10

LEMMA FirmwareKeepsConversation ==
  ASSUME Reliable, ConversationInv, NEW p \in packets, HandleFirmware(p)
  PROVE  (\A d \in Controllers : Exchange(d)') /\ InstalledIntact' /\ SuccessIsReal'
<1> DEFINE c == p.from
<1>1. TransferInv /\ c \in Controllers /\ Exchange(c)
  BY DEF ConversationInv, TransferInv, SendersOK, PacketOK
<1>2. packets' = packets \ {p} /\ UNCHANGED <<tx, upload, told>>
  BY DEF HandleFirmware, Taken, Reliable
<1>3. PICK k \in Nat \ {0} : HasSent(c, k) /\ Sending(c, k)
  BY <1>1 DEF Exchange, Quiet, Answered, PacketsFrom
<1>4. /\ Exchange(c)' /\ installed \subseteq installed'
      /\ \A image \in installed' \ installed : Whole(image, upload[c])
      /\ \A d \in Controllers \ {c} : rx'.peer = d => rx' = rx
      /\ \E code : replies' \subseteq replies \cup {[to |-> c, code |-> code]}
                  /\ replies \subseteq replies'
  BY <1>1, <1>2, <1>3, BlockAnswered DEF HandleFirmware
<1>5. ASSUME NEW d \in Controllers, d # c
      PROVE  Exchange(d)'
  <2>1. PacketsFrom(d)' = PacketsFrom(d) /\ RepliesTo(d)' = RepliesTo(d)
    BY <1>2, <1>4, <1>5 DEF PacketsFrom, RepliesTo
  <2>2. rx'.peer = d => rx' = rx
    BY <1>4, <1>5
  <2>3. Exchange(d)
    BY DEF ConversationInv
  <2> HIDE DEF c
  <2> QED BY <1>2, <1>4, <2>1, <2>2, <2>3, OthersKeep
<1>6. upload[c] \in 1 .. Uploads
  <2>1. (k - 1) * BlockSize \in Nat /\ tx[c].total \in Nat
    <3>1. k - 1 \in Nat
      OBVIOUS
    <3> QED BY <1>1, <3>1, Products, SizesAreNumbers DEF TransferInv, SendersOK, Transfers
  <2>2. tx[c].total # 0
    BY <1>3, <2>1 DEF HasSent
  <2> QED BY <1>1, <2>2 DEF TransferInv, SendersOK
<1>7. \A image, number : Whole(image, number)' = Whole(image, number)
  BY DEF Whole
<1>8. InstalledIntact'
  BY <1>4, <1>6, <1>7 DEF ConversationInv, InstalledIntact
<1>9. SuccessIsReal'
  BY <1>2, <1>4, <1>7 DEF ConversationInv, SuccessIsReal
<1> QED BY <1>4, <1>5, <1>8, <1>9

LEMMA NothingElseChanges ==
  ASSUME ConversationInv, UNCHANGED <<tx, upload, told, installed, packets, replies>>,
         \/ rx'.peer = None
         \/ /\ rx'.peer = rx.peer /\ rx'.total = rx.total
            /\ rx'.block = rx.block /\ rx'.data = rx.data
  PROVE  (\A d \in Controllers : Exchange(d)') /\ InstalledIntact' /\ SuccessIsReal'
<1>1. ASSUME NEW d \in Controllers
      PROVE  Exchange(d)'
  <2>1. PacketsFrom(d)' = PacketsFrom(d) /\ RepliesTo(d)' = RepliesTo(d)
    BY DEF PacketsFrom, RepliesTo
  <2>2. Exchange(d) /\ d # None
    BY ControllerAssumption DEF ConversationInv
  <2> QED BY <2>1, <2>2, OthersKeep
<1>2. InstalledIntact' /\ SuccessIsReal'
  BY DEF ConversationInv, InstalledIntact, SuccessIsReal, Whole
<1> QED BY <1>1, <1>2

LEMMA ConversationStep == Reliable /\ ConversationInv /\ [Next]_vars => ConversationInv'
<1> SUFFICES ASSUME Reliable, ConversationInv, [Next]_vars
             PROVE  (\A d \in Controllers : Exchange(d)') /\ InstalledIntact' /\ SuccessIsReal'
  BY TransferStep DEF ConversationInv
<1>1. CASE UploadTimesOut
  <2>1. rx'.peer = None
    BY <1>1 DEF UploadTimesOut, Reset, NoUpload
  <2> QED BY <1>1, <2>1, NothingElseChanges DEF UploadTimesOut
<1>2. CASE Tick
  <2>1. /\ rx'.peer = rx.peer /\ rx'.total = rx.total
        /\ rx'.block = rx.block /\ rx'.data = rx.data
    BY <1>2 DEF Tick, ConversationInv, TransferInv, ReceiverOK, Receiver
  <2> QED BY <1>2, <2>1, NothingElseChanges DEF Tick
<1>3. CASE UNCHANGED vars
  BY <1>3, NothingElseChanges DEF vars
<1>4. \A c \in Controllers : ~ ForgetNode(c)
  BY DEF Reliable, ForgetNode
<1> QED
  BY <1>1, <1>2, <1>3, <1>4, SendFirmwareKeepsConversation, FirmwareKeepsConversation,
     ReplyKeepsConversation DEF Next

LEMMA ConversationsHold == ASSUME Reliable PROVE Spec => []ConversationInv
BY ConversationInit, ConversationStep, PTL DEF Spec

(* private.h, firmware_callback_t, "triggered when a firmware receive has  *)
(* been completed successfully": whatever the block size and the width of  *)
(* the block number, and however the controllers interleave, an image      *)
(* given to the application is one whole upload, each block in its place.  *)
THEOREM InstalledImagesAreWhole == ASSUME Reliable PROVE Spec => []InstalledIntact
<1>1. ConversationInv => InstalledIntact
  BY DEF ConversationInv
<1> QED BY <1>1, ConversationsHold, PTL

(* handle_file_tn_reply: a controller that is told ALLGOOD did give its    *)
(* last upload to the node's application.                                  *)
THEOREM ReportedSuccessIsReal == ASSUME Reliable PROVE Spec => []SuccessIsReal
<1>1. ConversationInv => SuccessIsReal
  BY DEF ConversationInv
<1> QED BY <1>1, ConversationsHold, PTL
=============================================================================
