------------------------------ MODULE PyPacket ------------------------------
(* The packet objects of the Python bindings and the payload views on      *)
(* them, as the generated extension module implements them on the blocks   *)
(* of packet.c: index checks, conversions that raise, memmove() and        *)
(* realloc() in the order of the code. The call record keeps what the      *)
(* caller asked for and got; n is the number of words before the call.     *)
EXTENDS Packet

CONSTANTS
    Obj,        \* packet objects
    Index,      \* indices the callers use
    Value,      \* words the callers store; NotAWord does not fit in 16 bits
    SubTypes,   \* subtypes the callers put into a header
    MaxPktCalls    \* bound: calls of the program

NotAWord == -1

(* Results of calls that are no word of a packet.                          *)
Done == -2
Raised == -3
True == 1
False == 0

ASSUME PyPacketAssumption ==
    /\ Index \subseteq Int
    /\ Value \subseteq Nat \cup {NotAWord}
    /\ SubTypes \subseteq 0 .. 15
    /\ MaxPktCalls \in Nat

VARIABLES
    pkt,        \* the block of each object
    damaged,    \* memory outside of a packet's words was written or read
    call,       \* the last call
    calls       \* number of calls so far

pktVars == <<pkt, damaged, call, calls>>

PktTypeOK ==
    /\ \A o \in Obj : DOMAIN pkt[o] = -1 .. (Capacity(pkt[o]) - 1)
    /\ damaged \in BOOLEAN
    /\ calls \in 0 .. MaxPktCalls
    /\ call.op \in {"new", "getitem", "setitem", "delitem", "insert",
                    "set_header", "combine", "eq"}

(* Packet() and _from_c_ptr(): a block of its own with an empty payload.   *)
PktInit ==
    /\ pkt = [o \in Obj |-> osd_packet_new(osd_packet_sizeconv_payload2data(0))]
    /\ damaged = FALSE
    /\ call = [op |-> "new", obj |-> 0, other |-> 0, off |-> 0, i |-> 0,
               v |-> 0, n |-> 0, res |-> Done]
    /\ calls = 0

MaxSize == SIZE_MOD - 1

Contents(b) == [i \in 1 .. Capacity(b) |-> b[i - 1]]

(* Is what the object says about itself true, and nothing undefined in it? *)
WellFormed(b) ==
    /\ DataSizeWords(b) = Capacity(b)
    /\ \A i \in DOMAIN b : b[i] # Undef

len(o) == DataSizeWords(pkt[o])

Sound == ~damaged /\ \A o \in Obj : WellFormed(pkt[o])

Called(op, o, off, i, v, res) ==
    call' = [op |-> op, obj |-> o, other |-> o, off |-> off, i |-> i, v |-> v,
             n |-> len(o), res |-> res]

Raise(op, o, off, i, v) ==
    Called(op, o, off, i, v, Raised) /\ UNCHANGED <<pkt, damaged>>

(* A position in front of the words: cell -1 is the size of the packet,    *)
(* what lies before it does not belong to the block.                       *)
Damage(op, o, off, i, v) ==
    Called(op, o, off, i, v, Done) /\ damaged' = TRUE /\ UNCHANGED pkt

-----------------------------------------------------------------------------
GetItem(o, off, i) ==
    LET p == off + i IN
    \/ p >= len(o) /\ Raise("getitem", o, off, i, 0)
    \/ /\ p \in 0 .. (len(o) - 1)
       /\ Called("getitem", o, off, i, 0, pkt[o][p])
       /\ UNCHANGED <<pkt, damaged>>
    \/ p < 0 /\ Damage("getitem", o, off, i, 0)

(* Mutated form: off by one in the index check.                            *)
SetItem_offByOne(o, off, i, v) ==
    LET p == off + i IN
    \/ p > len(o) /\ Raise("setitem", o, off, i, v)
    \/ /\ p = len(o) /\ v # NotAWord
       /\ Damage("setitem", o, off, i, v)
    \/ /\ p \in 0 .. (len(o) - 1) /\ v # NotAWord
       /\ pkt' = [pkt EXCEPT ![o][p] = v]
       /\ Called("setitem", o, off, i, v, Done)
       /\ UNCHANGED damaged

SetItem(o, off, i, v) ==
    LET p == off + i IN
    \/ (p >= len(o) \/ v = NotAWord) /\ Raise("setitem", o, off, i, v)
    \/ /\ p \in 0 .. (len(o) - 1) /\ v # NotAWord
       /\ pkt' = [pkt EXCEPT ![o][p] = v]
       /\ Called("setitem", o, off, i, v, Done)
       /\ UNCHANGED damaged
    \/ p < 0 /\ v # NotAWord /\ Damage("setitem", o, off, i, v)

(* The number of words to move is negative for an index behind the end and *)
(* cannot be converted to size_t: that is the range check of this call.    *)
DelItem(o, off, i) ==
    LET p == off + i
        words_after_deleted_one == len(o) - p - 1
    IN
    \/ /\ len(o) <= PACKET_HEADER_WORD_CNT \/ words_after_deleted_one < 0
       /\ Raise("delitem", o, off, i, 0)
    \/ /\ len(o) > PACKET_HEADER_WORD_CNT /\ words_after_deleted_one >= 0
       /\ \/ /\ p >= 0
             /\ pkt' = [pkt EXCEPT ![o] = osd_packet_realloc(
                            MoveWords(@, p, p + 1, words_after_deleted_one),
                            len(o) - 1)]
             /\ Called("delitem", o, off, i, 0, Done)
             /\ UNCHANGED damaged
          \/ p < 0 /\ Damage("delitem", o, off, i, 0)

(* The value is converted last: when that raises, the packet has grown.    *)
Insert(o, off, i, v) ==
    LET p == off + i
        old == len(o)
        larger == osd_packet_realloc(pkt[o], old + 1)
        moved == IF p < old THEN MoveWords(larger, p + 1, p, old - p) ELSE larger
    IN  \/ /\ p >= 0 /\ v = NotAWord
           /\ pkt' = [pkt EXCEPT ![o] = moved]
           /\ Called("insert", o, off, i, v, Raised)
           /\ UNCHANGED damaged
        \/ /\ InBlock(larger, p, 1) /\ p >= 0 /\ v # NotAWord
           /\ pkt' = [pkt EXCEPT ![o] = [moved EXCEPT ![p] = v]]
           /\ Called("insert", o, off, i, v, Done)
           /\ UNCHANGED damaged
        \/ /\ p < 0 \/ (~InBlock(larger, p, 1) /\ v # NotAWord)
           /\ Damage("insert", o, off, i, v)

SetHeader(o, a, type, type_sub) ==
    /\ pkt' = [pkt EXCEPT ![o] = osd_packet_set_header(@, a, a, type, type_sub)]
    /\ Called("set_header", o, 0, 0, a, Done)
    /\ UNCHANGED damaged

(* Two packets of an event become one, in the host module.                 *)
Combine(o, other) ==
    LET k == osd_packet_sizeconv_data2payload(len(other)) IN
    /\ call' = [op |-> "combine", obj |-> o, other |-> other, off |-> 0,
                i |-> 0, v |-> k, n |-> len(o), res |-> Done]
    /\ \/ /\ CombineInBlock(pkt[o], pkt[other])
          /\ pkt' = [pkt EXCEPT ![o] = osd_packet_combine(@, pkt[other])]
          /\ UNCHANGED damaged
       \/ /\ ~CombineInBlock(pkt[o], pkt[other])
          /\ damaged' = TRUE /\ UNCHANGED pkt

Eq(o, other) ==
    /\ call' = [op |-> "eq", obj |-> o, other |-> other, off |-> 0, i |-> 0,
                v |-> 0, n |-> len(o),
                res |-> IF /\ len(o) = len(other)
                           /\ \A i \in 0 .. (len(o) - 1) : pkt[o][i] = pkt[other][i]
                        THEN True ELSE False]
    /\ UNCHANGED <<pkt, damaged>>
-----------------------------------------------------------------------------
(* PacketPayloadView: every call is handed on to the packet, its index     *)
(* moved by the three header words.                                        *)
View_getitem(o, i) == GetItem(o, PACKET_HEADER_WORD_CNT, i)
View_setitem(o, i, v) == SetItem(o, PACKET_HEADER_WORD_CNT, i, v)
View_delitem(o, i) == DelItem(o, PACKET_HEADER_WORD_CNT, i)
View_insert(o, i, v) == Insert(o, PACKET_HEADER_WORD_CNT, i, v)
-----------------------------------------------------------------------------
(* A packet that was damaged is no sequence of words.                      *)
AsList(o) ==
    IF (damaged /\ call.obj = o) \/ ~WellFormed(pkt[o]) THEN <<>>
    ELSE Contents(pkt[o])

L == INSTANCE PacketList WITH list <- [o \in Obj |-> AsList(o)]

(* Nothing is said about a program that goes on after such a call.         *)
MayCall == call.op = "new" \/ ~L!CallerError(call)

PktNext ==
    /\ MayCall /\ calls < MaxPktCalls
    /\ calls' = calls + 1
    /\ \E o \in Obj :
          \/ \E i \in Index :
                \/ GetItem(o, 0, i) \/ DelItem(o, 0, i)
                \/ View_getitem(o, i) \/ View_delitem(o, i)
                \/ \E v \in Value : \/ SetItem(o, 0, i, v) \/ Insert(o, 0, i, v)
                                    \/ View_setitem(o, i, v) \/ View_insert(o, i, v)
          \/ \E a \in Value \ {NotAWord}, type_sub \in SubTypes :
                SetHeader(o, a, 2, type_sub)
          \/ \E other \in Obj \ {o} : Combine(o, other) \/ Eq(o, other)

PktSpec == PktInit /\ [][PktNext]_pktVars
-----------------------------------------------------------------------------
(* A packet object is a sequence of words, and so is its payload view:     *)
(* every call does to the memory block what it says, raises without a      *)
(* trace, or was used outside of its contract.                             *)
IsSequence == L!Spec

(* Reading back the fields of a header finds what was stored, whatever the *)
(* flags word held before.                                                 *)
HeaderFields ==
    \A o \in Obj : \A s \in {0, 1, 15} :
        LET b == osd_packet_set_type_sub(pkt[o], s) IN
        Sound /\ pkt[o][2] >= 0 =>
            /\ osd_packet_get_type_sub(b) = s
            /\ osd_packet_get_type(b) = osd_packet_get_type(pkt[o])
            /\ [b EXCEPT ![2] = 0] = [pkt[o] EXCEPT ![2] = 0]

(* A packet that was written to a file is read back as it was, also when   *)
(* others follow it, and a file that ends too early yields no packet.      *)
FileRoundTrip ==
    \A o \in Obj :
        LET file == osd_packet_fwrite(pkt[o], <<>>) IN
        Sound =>
            /\ \A q \in Obj : osd_packet_fread(osd_packet_fwrite(pkt[q], file)) = pkt[o]
            /\ osd_packet_fread(SubSeq(file, 1, Len(file) - 1)) = NoPacket

(* osd_packet_equal() agrees with the comparison of all words for packets  *)
(* that end in the same word; it does not look at that one.                *)
EqualButForLastWord ==
    \A o, q \in Obj :
        Sound /\ (len(o) = len(q) => pkt[o][len(o) - 1] = pkt[q][len(q) - 1])
            => (osd_packet_equal(pkt[o], pkt[q]) <=>
                    Contents(pkt[o]) = Contents(pkt[q]))

(* The functions of packet.c keep the format of a packet, whatever calls   *)
(* have made it: header fields, files and comparisons.                     *)
PacketFormatKept == PktTypeOK /\ HeaderFields /\ FileRoundTrip /\ EqualButForLastWord
=============================================================================
