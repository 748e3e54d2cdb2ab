------------------------------ MODULE GlipLink ------------------------------
(* The byte stream between the GLIP gateway and the device (gateway_glip.c *)
(* and the read loop of gateway.c). A packet travels as a debug transport  *)
(* datagram: its number of words and then the words, each as two bytes,    *)
(* the high one first. The host is little-endian. The read side is the     *)
(* device RX thread with its two reads per packet, the write side is the   *)
(* host I/O worker. A session lasts from one glip_open() to the next.      *)
EXTENDS Integers, Sequences, SequencesExt

CONSTANTS
    BYTE,           \* values of a byte: 256 in the code
    Packets,        \* packets, as sequences of words, that are exchanged
    MaxLinks,       \* bound: calls of osd_gateway_glip_connect()
    MaxDatagrams,   \* bound: packets per session and direction
    MaxFailures     \* bound: reads and writes that fail on a working link

ASSUME GlipAssumption ==
    /\ BYTE \in Nat /\ BYTE > 1
    /\ \A p \in Packets : p \in Seq(0 .. (BYTE * BYTE - 1)) /\ Len(p) < BYTE * BYTE
    /\ {MaxLinks, MaxDatagrams, MaxFailures} \subseteq Nat

VARIABLES
    is_open,        \* the GLIP link exists
    gw_connected,   \* the gateway is connected to the host controller
    rx,             \* RX thread: "off", "size", "data" (after the size), "ended"
    pkg_size_words, \* size read from the stream
    io,             \* host I/O worker: "runs" or "ended"
    up, down,       \* bytes on the way to the host and to the device
    sent, taken,    \* packets the device sent / the RX thread got, this session
    written, got,   \* packets written to the device / it received, this session
    links, failures,
    torn            \* a read or write failed and may have cut a packet

linkVars == <<is_open, gw_connected, rx, pkg_size_words, io, up, down, sent, taken,
          written, got, links, failures, torn>>

Word == 0 .. (BYTE * BYTE - 1)
Byte == 0 .. (BYTE - 1)

LinkTypeOK ==
    /\ {is_open, gw_connected, torn} \subseteq BOOLEAN
    /\ rx \in {"off", "size", "data", "ended"} /\ io \in {"runs", "ended"}
    /\ pkg_size_words \in Word
    /\ {up, down} \subseteq Seq(Byte)
    /\ \A s \in {sent, taken, written, got} : s \in Seq(Seq(Word))
    /\ links \in 0 .. MaxLinks /\ failures \in 0 .. MaxFailures

LinkInit ==
    /\ is_open = FALSE /\ gw_connected = FALSE /\ torn = FALSE
    /\ rx = "off" /\ io = "runs" /\ pkg_size_words = 0
    /\ up = <<>> /\ down = <<>>
    /\ sent = <<>> /\ taken = <<>> /\ written = <<>> /\ got = <<>>
    /\ links = 0 /\ failures = 0

connVars == <<is_open, gw_connected, links>>
upVars   == <<up, sent, taken>>
downVars == <<down, written, got>>
-----------------------------------------------------------------------------
(* What two bytes in memory mean to a little-endian host, and bswap_16().  *)
Native(b1, b2) == b1 + BYTE * b2
bswap_16(w) == (w % BYTE) * BYTE + w \div BYTE
InMemory(w) == <<w % BYTE, w \div BYTE>>

(* Mutated form: the words are used as they come.                          *)
device_read_native(bytes, n) ==
    [w \in 1 .. n |-> Native(bytes[2 * w - 1], bytes[2 * w])]

(* The words in the first bytes of the stream.                             *)
device_read(bytes, n) ==
    [w \in 1 .. n |-> bswap_16(Native(bytes[2 * w - 1], bytes[2 * w]))]

(* The bytes that are written for a sequence of words.                     *)
device_write(words) ==
    [i \in 1 .. (2 * Len(words)) |->
        InMemory(bswap_16(words[(i + 1) \div 2]))[2 - (i % 2)]]

(* What the device makes of a packet, and of the bytes it receives.        *)
Datagram(p) ==
    LET words == <<Len(p)>> \o p IN
    [i \in 1 .. (2 * Len(words)) |->
        IF i % 2 = 1 THEN words[(i + 1) \div 2] \div BYTE
        ELSE words[i \div 2] % BYTE]

Available(n) == Len(up) >= 2 * n
Rest(bytes, n) == SubSeq(bytes, 2 * n + 1, Len(bytes))
-----------------------------------------------------------------------------
(* osd_gateway_glip_connect(): the link is opened first. When the host     *)
(* controller cannot be reached the link stays open.                       *)
glip_open ==
    /\ is_open' = TRUE /\ up' = <<>> /\ down' = <<>>
    /\ sent' = <<>> /\ taken' = <<>> /\ written' = <<>> /\ got' = <<>>
    /\ torn' = FALSE

osd_gateway_glip_connect ==
    /\ ~gw_connected /\ rx = "off" /\ links < MaxLinks
    /\ links' = links + 1
    /\ \/ ~is_open /\ glip_open
       \/ is_open /\ UNCHANGED <<is_open, upVars, downVars, torn>>
    /\ \/ gw_connected' = TRUE /\ rx' = "size"
       \/ UNCHANGED <<gw_connected, rx>>
    /\ UNCHANGED <<pkg_size_words, io, failures>>

ConnectFails ==
    /\ ~gw_connected /\ rx = "off" /\ ~is_open /\ links < MaxLinks
    /\ links' = links + 1
    /\ UNCHANGED <<is_open, gw_connected, rx, pkg_size_words, io, upVars,
                   downVars, failures, torn>>

(* osd_gateway_glip_disconnect(): closing the link makes a read that is    *)
(* under way return, then the gateway waits for the RX thread.             *)
osd_gateway_glip_disconnect ==
    /\ gw_connected \/ is_open
    /\ is_open' = FALSE /\ up' = <<>> /\ down' = <<>>
    /\ UNCHANGED <<gw_connected, rx, pkg_size_words, io, sent, taken, written,
                   got, links, failures, torn>>

DisconnectJoins ==
    /\ gw_connected /\ ~is_open /\ rx = "ended"
    /\ gw_connected' = FALSE /\ rx' = "off"
    /\ UNCHANGED <<is_open, pkg_size_words, io, upVars, downVars, links,
                   failures, torn>>

osd_gateway_glip_is_connected == gw_connected /\ is_open

(* The cable is pulled, or the device goes away.                           *)
LinkLost ==
    /\ is_open
    /\ is_open' = FALSE /\ up' = <<>> /\ down' = <<>>
    /\ UNCHANGED <<gw_connected, rx, pkg_size_words, io, sent, taken, written,
                   got, links, failures, torn>>
-----------------------------------------------------------------------------
DeviceSends(p) ==
    /\ is_open /\ Len(sent) < MaxDatagrams
    /\ sent' = Append(sent, p) /\ up' = up \o Datagram(p)
    /\ UNCHANGED <<connVars, rx, pkg_size_words, io, taken, downVars, failures,
                   torn>>

(* packet_read_from_device(): the first read, of one word.                 *)
ReadSize ==
    /\ rx = "size" /\ is_open /\ Available(1)
    /\ pkg_size_words' = device_read(up, 1)[1]
    /\ up' = Rest(up, 1) /\ rx' = "data"
    /\ UNCHANGED <<connVars, io, sent, taken, downVars, failures, torn>>

(* The second read, of as many words as the first one announced.           *)
ReadData ==
    /\ rx = "data" /\ is_open /\ Available(pkg_size_words)
    /\ taken' = Append(taken, device_read(up, pkg_size_words))
    /\ up' = Rest(up, pkg_size_words) /\ rx' = "size"
    /\ UNCHANGED <<connVars, pkg_size_words, io, sent, downVars, failures, torn>>

(* No link: the packet is dropped and the thread ends.                     *)
ReadEnds ==
    /\ rx \in {"size", "data"} /\ ~is_open
    /\ rx' = "ended"
    /\ UNCHANGED <<connVars, pkg_size_words, io, upVars, downVars, failures, torn>>

(* Any other failure drops the packet and the thread tries again, with the *)
(* size of the next packet. The words a failed read took are lost.         *)
ReadFails ==
    /\ rx \in {"size", "data"} /\ is_open /\ failures < MaxFailures
    /\ failures' = failures + 1 /\ torn' = TRUE
    /\ \E n \in 0 .. (Len(up) \div 2) :
          /\ n <= (IF rx = "size" THEN 1 ELSE pkg_size_words)
          /\ up' = Rest(up, n)
    /\ rx' = "size"
    /\ UNCHANGED <<connVars, pkg_size_words, io, sent, taken, downVars>>
-----------------------------------------------------------------------------
(* The packet structure is written as it lies in memory, size first.       *)
packet_write_to_device(p) ==
    /\ io = "runs" /\ gw_connected /\ is_open /\ Len(written) < MaxDatagrams
    /\ down' = down \o device_write(<<Len(p)>> \o p)
    /\ written' = Append(written, p)
    /\ UNCHANGED <<connVars, rx, pkg_size_words, io, upVars, got, failures, torn>>

(* A write that fails or is short ends the worker.                         *)
WriteFails(p) ==
    /\ io = "runs" /\ gw_connected /\ Len(written) < MaxDatagrams
    /\ \/ ~is_open /\ UNCHANGED <<down, failures, torn>>
       \/ /\ is_open /\ failures < MaxFailures
          /\ failures' = failures + 1 /\ torn' = TRUE
          /\ \E n \in 0 .. Len(p) :
                down' = down \o device_write(SubSeq(<<Len(p)>> \o p, 1, n))
    /\ io' = "ended"
    /\ UNCHANGED <<connVars, rx, pkg_size_words, upVars, written, got>>

(* The device takes a whole datagram from its side of the stream.          *)
DeviceReceives ==
    /\ is_open /\ Len(down) >= 2
    /\ LET n == down[1] * BYTE + down[2] IN
          /\ Len(down) >= 2 * (n + 1)
          /\ got' = Append(got, [i \in 1 .. n |->
                        down[2 * i + 1] * BYTE + down[2 * i + 2]])
          /\ down' = Rest(down, n + 1)
    /\ UNCHANGED <<connVars, rx, pkg_size_words, io, upVars, written, failures,
                   torn>>
-----------------------------------------------------------------------------
RxStep == ReadSize \/ ReadData \/ ReadEnds

LinkNext ==
    \/ osd_gateway_glip_connect \/ ConnectFails
    \/ osd_gateway_glip_disconnect \/ DisconnectJoins \/ LinkLost
    \/ \E p \in Packets : DeviceSends(p) \/ packet_write_to_device(p) \/ WriteFails(p)
    \/ RxStep \/ ReadFails \/ DeviceReceives

LinkSpec == LinkInit /\ [][LinkNext]_linkVars

(* The RX thread blocks in its reads without a timeout and otherwise runs  *)
(* on; a disconnect that was begun is carried through.                     *)
LinkFairSpec == LinkSpec /\ WF_linkVars(RxStep) /\ WF_linkVars(DisconnectJoins)
-----------------------------------------------------------------------------
(* As long as no read or write failed in this session: the gateway has     *)
(* received exactly the first packets the device sent, word by word, the   *)
(* device the first ones that were written, and a packet that the loss of  *)
(* the link cut off is never handed on. Between two packets the stream is  *)
(* at the start of a datagram: the RX thread never takes a payload word    *)
(* for a size.                                                             *)
StreamsAreKept ==
    /\ LinkTypeOK
    /\ ~torn => IsPrefix(taken, sent) /\ IsPrefix(got, written)
    /\ ~torn /\ is_open /\ rx = "data" =>
          /\ Len(taken) < Len(sent)
          /\ pkg_size_words = Len(sent[Len(taken) + 1])

(* What the device sends arrives, unless the link is lost or a read fails: *)
(* once the device pauses, the RX thread has worked off all of it.         *)
EverythingArrives ==
    gw_connected /\ Len(taken) < Len(sent) ~>
        Len(taken) = Len(sent) \/ ~is_open \/ torn
=============================================================================
