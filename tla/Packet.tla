------------------------------- MODULE Packet -------------------------------
(* The packet of packet.c: one heap block that starts with the number of   *)
(* data words, followed by the words dest, src and flags of the header and *)
(* by the payload. The size is a 16 bit number in the code; its range is a *)
(* parameter here, so that a small instance reaches the end of it.         *)
EXTENDS Integers, Sequences, FiniteSetsExt

CONSTANTS
    SIZE_MOD    \* data_size_words counts modulo this: 2^16 in the code

ASSUME SizeAssumption == SIZE_MOD \in Nat /\ SIZE_MOD > 3

PACKET_HEADER_WORD_CNT == 3

(* A word the allocator hands out without writing to it. Finding it in a   *)
(* packet is the same as reading uninitialised memory.                     *)
Undef == -1

(* A block is a function on -1 .. n - 1: cell -1 is data_size_words, the   *)
(* others are data_raw[0 .. n - 1].                                        *)
SizeField(n) == n % SIZE_MOD
DataSizeWords(b) == b[-1]
Capacity(b) == Cardinality(DOMAIN b) - 1

(* Does an access to k words starting at data_raw[i] stay in the block?    *)
InBlock(b, i, k) == k > 0 => i \in DOMAIN b /\ i + k - 1 \in DOMAIN b

(* memmove() inside a block.                                               *)
MoveWords(b, to, from, k) ==
    [i \in DOMAIN b |-> IF i \in to .. (to + k - 1) THEN b[i - to + from]
                        ELSE b[i]]

osd_packet_sizeconv_payload2data(n) == n + PACKET_HEADER_WORD_CNT
osd_packet_sizeconv_data2payload(n) == n - PACKET_HEADER_WORD_CNT

osd_packet_new(n) == [i \in -1 .. (n - 1) |-> IF i = -1 THEN SizeField(n) ELSE 0]

osd_packet_realloc(b, n) ==
    [i \in -1 .. (n - 1) |->
        CASE i = -1 -> SizeField(n)
          [] i \in DOMAIN b \ {-1} -> b[i]
          [] OTHER -> Undef]

(* The block of a frame received from the network. Only whole words are    *)
(* allocated, all bytes are copied.                                        *)
osd_packet_new_from_zframe(words) ==
    [i \in -1 .. (Len(words) - 1) |->
        IF i = -1 THEN SizeField(Len(words)) ELSE words[i + 1]]

(* Appending the payload of b2 to b1. The new size is a 16 bit number.     *)
CombinedSize(b1, b2) ==
    SizeField(DataSizeWords(b1) +
              osd_packet_sizeconv_data2payload(DataSizeWords(b2)))

CombineInBlock(b1, b2) ==
    InBlock(osd_packet_realloc(b1, CombinedSize(b1, b2)), DataSizeWords(b1),
            osd_packet_sizeconv_data2payload(DataSizeWords(b2)))

osd_packet_combine(b1, b2) ==
    LET b == osd_packet_realloc(b1, CombinedSize(b1, b2))
        n == DataSizeWords(b1)
    IN  [i \in DOMAIN b |-> IF i >= n THEN b2[i - n + PACKET_HEADER_WORD_CNT]
                            ELSE b[i]]
-----------------------------------------------------------------------------
(* The header: flags = type << 14 | type_sub << 10. A field is named by    *)
(* the value of its lowest bit.                                            *)
TYPE_BIT == 16384
TYPE_SUB_BIT == 1024
Field(w, bit, values) == (w \div bit) % values

osd_packet_get_dest(b) == b[0]
osd_packet_get_src(b) == b[1]
osd_packet_get_type(b) == Field(b[2], TYPE_BIT, 4)
osd_packet_get_type_sub(b) == Field(b[2], TYPE_SUB_BIT, 16)

(* Mutated form: the old subtype is not cleared first.                     *)
osd_packet_set_type_sub_ors(b, type_sub) ==
    [b EXCEPT ![2] = @ + type_sub * TYPE_SUB_BIT]

osd_packet_set_type_sub(b, type_sub) ==
    [b EXCEPT ![2] =
        @ - osd_packet_get_type_sub(b) * TYPE_SUB_BIT
          + type_sub * TYPE_SUB_BIT]

osd_packet_set_header(b, dest, src, type, type_sub) ==
    osd_packet_set_type_sub(
        [b EXCEPT ![0] = dest, ![1] = src, ![2] = type * TYPE_BIT], type_sub)
-----------------------------------------------------------------------------
osd_packet_sizeof(b) == 2 * DataSizeWords(b)

(* memcmp() of osd_packet_sizeof() bytes from the start of the structure:  *)
(* the size word is one of the words compared, so that the last data word  *)
(* is not.                                                                 *)
osd_packet_equal(b1, b2) ==
    /\ osd_packet_sizeof(b1) = osd_packet_sizeof(b2)
    /\ \A i \in -1 .. (DataSizeWords(b1) - 2) : b1[i] = b2[i]

(* A file is the sequence of its words.                                    *)
NoPacket == <<>>

osd_packet_fwrite(b, file) ==
    file \o [i \in 1 .. (DataSizeWords(b) + 1) |-> b[i - 2]]

osd_packet_fread(file) ==
    IF file = <<>> \/ file[1] = 0 \/ Len(file) - 1 < file[1]
    THEN NoPacket
    ELSE osd_packet_new_from_zframe(SubSeq(file, 2, file[1] + 1))
=============================================================================
