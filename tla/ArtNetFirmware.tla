--------------------------- MODULE ArtNetFirmware ---------------------------
(***************************************************************************)
(* The transfer of firmware from an Art-Net server to a node               *)
(* (src/libartnet/artnet/artnet.c, transmit.c and receive.c): blocks of    *)
(* ARTNET_FIRMWARE_SIZE words, each sent when the one before was           *)
(* acknowledged.  Lengths are in words, but for that of an upload of one   *)
(* block, which is handed over in bytes; for UBEA firmware only the names  *)
(* of the packets differ.                                                  *)
(***************************************************************************)
EXTENDS Integers, FiniteSetsExt, SequencesExt

CONSTANTS
    ARTNET_FIRMWARE_SIZE,
    BlockIds,                  \* UINT8_MAX + 1
    FIRMWARE_TIMEOUT_SECONDS,
    NoPeer,                    \* the address 0
    Words

ASSUME FirmwareAssumption ==
    /\ ARTNET_FIRMWARE_SIZE \in Nat \ {0} /\ BlockIds \in Nat \ {0}
    /\ FIRMWARE_TIMEOUT_SECONDS \in Nat

(* firmware_transfer_t, cleared; the age is that of last_time.              *)
NoTransfer ==
    [data |-> <<>>, current |-> 0, total |-> 0, peer |-> NoPeer, age |-> 0, expected |-> 0]

OlderTransfer(firm) ==
    [firm EXCEPT !.age = IF @ < FIRMWARE_TIMEOUT_SECONDS /\ firm.peer # NoPeer THEN @ + 1 ELSE @]

-----------------------------------------------------------------------------
(* The sender.                                                              *)

StartedTransfer(peer, data) ==
    [NoTransfer EXCEPT !.data = data, !.total = Len(data), !.peer = peer]

(* What is not copied into a packet is 0.                                   *)
Block(data, from, length) ==
    [i \in 1 .. ARTNET_FIRMWARE_SIZE |-> IF i <= length THEN data[from + i] ELSE 0]

BlockLength(firm) == Min({firm.total - firm.current, ARTNET_FIRMWARE_SIZE})

(* The packet artnet_tx_firmware_packet sends.                              *)
FirmwarePacket(firm, from) ==
    LET length == BlockLength(firm) IN
    [type |-> "FIRMWAREMASTER", from |-> from, to |-> firm.peer,
     part |-> IF firm.current = 0 THEN "FIRST"
              ELSE IF length = ARTNET_FIRMWARE_SIZE THEN "CONT" ELSE "LAST",
     block |-> firm.expected, total |-> firm.total,
     words |-> Block(firm.data, firm.current, length)]

(* And what it changes when the packet was sent.                            *)
BlockSent(firm) ==
    [firm EXCEPT !.current = @ + BlockLength(firm), !.age = 0,
                 !.expected = (@ + 1) % BlockIds]

-----------------------------------------------------------------------------
(* The receiver: the transfer, the reply, and the firmware handed over.     *)

NoUpload == [data |-> <<>>, length |-> 0]

Received(firm, code) == [firm |-> firm, code |-> code, upload |-> NoUpload]

WordSize == 2

TotalBlocks(p) == p.total \div ARTNET_FIRMWARE_SIZE + 1

(* The byte in the packet is completed from the block that is expected.     *)
BlockNumber(firm, p) ==
    IF firm.expected >= BlockIds /\ firm.expected % BlockIds = p.block
    THEN firm.expected ELSE p.block

Written(data, p, number, length) ==
    [i \in DOMAIN data |->
       LET at == i - number * ARTNET_FIRMWARE_SIZE IN
       IF at \in 1 .. length THEN p.words[at] ELSE data[i]]

(* A single block is handed over with its length in bytes, and the transfer *)
(* is not ended.                                                            *)
FirstBlock(firm, p, before) ==
    LET length == Min({p.total, ARTNET_FIRMWARE_SIZE})
        memory == [i \in 1 .. p.total |-> before]
        new == [firm EXCEPT !.peer = p.from, !.data = Written(memory, p, 0, length),
                            !.total = p.total, !.age = 0, !.expected = 1,
                            !.current = length] IN
    IF firm.peer # NoPeer THEN Received(firm, "FAIL")
    ELSE IF length = p.total
    THEN [firm |-> new, code |-> "ALLGOOD",
          upload |-> [data |-> new.data, length |-> WordSize * p.total]]
    ELSE Received(new, "BLOCKGOOD")

(* mutant: blocks are taken from anybody.                                   *)
FromAnybody(firm, p) ==
    LET number == BlockNumber(firm, p) IN
    IF p.total = firm.total /\ number < TotalBlocks(p) - 1
    THEN Received([firm EXCEPT !.data = Written(@, p, number, ARTNET_FIRMWARE_SIZE),
                               !.current = @ + ARTNET_FIRMWARE_SIZE, !.expected = @ + 1],
                  "BLOCKGOOD")
    ELSE Received(firm, "FAIL")

NextBlock(firm, p) ==
    LET number == BlockNumber(firm, p) IN
    IF p.from = firm.peer /\ p.total = firm.total /\ number < TotalBlocks(p) - 1
    THEN Received([firm EXCEPT !.data = Written(@, p, number, ARTNET_FIRMWARE_SIZE),
                               !.current = @ + ARTNET_FIRMWARE_SIZE, !.expected = @ + 1],
                  "BLOCKGOOD")
    ELSE Received(firm, "FAIL")

(* reset_firmware_upload; what is expected is not reset.                    *)
reset_firmware_upload(firm) == [NoTransfer EXCEPT !.expected = firm.expected]

LastBlock(firm, p) ==
    LET number == BlockNumber(firm, p)
        length == firm.total % ARTNET_FIRMWARE_SIZE
        data == Written(firm.data, p, number, length) IN
    IF p.from = firm.peer /\ p.total = firm.total /\ number = TotalBlocks(p) - 1
    THEN [firm |-> reset_firmware_upload(firm), code |-> "ALLGOOD",
          upload |-> [data |-> data, length |-> firm.total]]
    ELSE Received(firm, "FAIL")

handle_firmware(firm, p, before) ==
    CASE p.part = "FIRST" -> FirstBlock(firm, p, before)
      [] p.part = "CONT"  -> NextBlock(firm, p)
      [] p.part = "LAST"  -> LastBlock(firm, p)

TimedOut(firm) == firm.peer # NoPeer /\ firm.age >= FIRMWARE_TIMEOUT_SECONDS
=============================================================================
