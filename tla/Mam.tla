--------------------------------- MODULE Mam ---------------------------------
(* Memory access through a Memory Access Module: the client cl_mam.c, the  *)
(* ELF loader of memaccess.c on top of it, and the module with its memory  *)
(* as they show in the packets. A call is split into a prolog, bursts and  *)
(* an epilog, every part is one transfer of bytes, and every transfer one  *)
(* or more event packets. Only the last transfer of a write is             *)
(* acknowledged.                                                           *)
EXTENDS Integers, Sequences, SequencesExt, FiniteSetsExt

CONSTANTS
    DW_B, AW_B,             \* data and address width of the memory in bytes
    MAX_BURST_WORDS,        \* MAM_MAX_BURST_WORDS: 255 in the code
    MAX_EVENT_WORDS,        \* payload words of an event packet: 5 in the code
    ELF_WORD,               \* range of Elf32_Word: 2^32
    MEM_SIZE,               \* bytes of memory
    Accesses,               \* pairs of address and number of bytes
    Images,                 \* ELF images: sequences of segments
    MaxCalls,               \* bound: calls of the client
    MayFail                 \* the connection may be lost during a call

ASSUME MamAssumption ==
    /\ {DW_B, AW_B, MAX_BURST_WORDS, MAX_EVENT_WORDS, MEM_SIZE} \subseteq Nat \ {0}
    /\ ELF_WORD \in Nat /\ ELF_WORD > MEM_SIZE
    /\ \A x \in Accesses : x.addr \in Nat /\ x.nbyte \in Nat
                           /\ x.addr + x.nbyte <= MEM_SIZE
    /\ \A s \in Images : \A i \in DOMAIN s : s[i].p_memsz >= s[i].p_filesz
    /\ MaxCalls \in Nat /\ MayFail \in BOOLEAN

VARIABLES
    mem,        \* the memory, a function on byte addresses
    before,     \* the memory when the call began
    call,       \* what was asked for: op, jobs and a serial number
    jobs,       \* reads and writes of the call that have not begun
    job,        \* the one under way
    transfers,  \* its transfers that have not begun
    cur,        \* the transfer under way
    out,        \* packets of the current transfer that are still to be sent
    awaits,     \* bytes the client waits for (Ack: any event), or Nothing
    rbuf,       \* bytes received for the transfer
    data,       \* bytes read so far by the job
    result,     \* of the last call; "" while it runs
    to_mam, from_mam,   \* event packets on the way
    mambuf,     \* bytes of a transfer the module has not got completely
    calls

clientVars == <<before, call, jobs, job, transfers, cur, out,
                awaits, rbuf, data, result, calls>>
vars == <<mem, clientVars, to_mam, from_mam, mambuf>>

Nothing == -1
Ack == -2
Idle == [op |-> "idle", addr |-> 0, data |-> <<>>]
NoTransfer == [we |-> TRUE, sync |-> FALSE, nbyte |-> 0]
Running == result = ""

INT_DIV_CEIL(a, b) == (a + b - 1) \div b
-----------------------------------------------------------------------------
(* The parts of an access, in bytes.                                       *)
calculate_parts(start_addr, nbyte) ==
    IF nbyte < DW_B
    THEN [prolog |-> nbyte, bulk |-> 0, epilog |-> 0]
    ELSE LET p == (DW_B - (start_addr % DW_B)) % DW_B
             e == (start_addr + nbyte) % DW_B
         IN  [prolog |-> p, bulk |-> nbyte - p - e, epilog |-> e]

(* Single-word transfers cannot cross a word boundary.                     *)
FitsInWord(baddr, nbyte) == baddr + nbyte <= DW_B

(* Mutated form: the mask starts at the first byte of the word.            *)
align_data_to_word_noShift(baddr, bytes) ==
    [word |-> [i \in 1 .. DW_B |->
                  IF i - 1 \in baddr .. (baddr + Len(bytes) - 1)
                  THEN bytes[i - baddr] ELSE 0],
     byte_select |-> MapThenSumSet(LAMBDA i : 2^i, 0 .. (Len(bytes) - 1))]

(* A word with the bytes at their place, and the mask that selects them.   *)
align_data_to_word(baddr, bytes) ==
    [word |-> [i \in 1 .. DW_B |->
                  IF i - 1 \in baddr .. (baddr + Len(bytes) - 1)
                  THEN bytes[i - baddr] ELSE 0],
     byte_select |->
        MapThenSumSet(LAMBDA i : 2^i, baddr .. (baddr + Len(bytes) - 1))]

(* HDR0, HDR1, the address and the data, each byte by byte.                *)
create_mam_transfer(bytes, start_addr, we, burst, sync, selsize) ==
    <<(IF we THEN 128 ELSE 0) + (IF burst THEN 64 ELSE 0) +
        (IF sync THEN 32 ELSE 0), selsize>>
    \o [i \in 1 .. AW_B |-> (start_addr \div 256^(AW_B - i)) % 256]
    \o bytes

Transfer(bytes, addr, we, burst, sync, selsize) ==
    [bytes |-> create_mam_transfer(bytes, addr, we, burst, sync, selsize),
     we |-> we, sync |-> sync, addr |-> addr, skip |-> 0,
     nbyte |-> IF burst THEN selsize * DW_B ELSE DW_B,
     take |-> IF burst THEN selsize * DW_B ELSE DW_B]

(* write_single() and read_single(): one word with byte select.            *)
Single(we, bytes, addr, sync) ==
    LET baddr == addr % DW_B
        w == align_data_to_word(baddr, bytes)
    IN  [Transfer(IF we THEN w.word ELSE <<>>, addr - baddr, we, FALSE, sync,
                  w.byte_select) EXCEPT !.skip = baddr, !.take = Len(bytes)]

(* write_burst() and read_burst(): only the last one is acknowledged.      *)
Burst(we, bytes, addr, sync) ==
    LET max == MAX_BURST_WORDS * DW_B
        n == INT_DIV_CEIL(Len(bytes), max)
    IN  [t \in 1 .. n |->
            LET from == (t - 1) * max
                to == Min({from + max, Len(bytes)})
            IN  Transfer(IF we THEN SubSeq(bytes, from + 1, to) ELSE <<>>,
                         addr + from, we, TRUE, sync /\ t = n,
                         (to - from) \div DW_B)]

(* The transfers of osd_cl_mam_write() and osd_cl_mam_read().              *)
Parts(we, bytes, addr) ==
    LET p == calculate_parts(addr, Len(bytes))
        bulk == SubSeq(bytes, p.prolog + 1, p.prolog + p.bulk)
        epilog == SubSeq(bytes, p.prolog + p.bulk + 1, Len(bytes))
    IN  (IF p.prolog = 0 THEN <<>>
         ELSE <<Single(we, SubSeq(bytes, 1, p.prolog), addr, p.bulk + p.epilog = 0)>>)
        \o Burst(we, bulk, addr + p.prolog, p.epilog = 0)
        \o (IF p.epilog = 0 THEN <<>>
            ELSE <<Single(we, epilog, addr + p.prolog + p.bulk, TRUE)>>)

(* Assertions of align_data_to_word() and create_mam_transfer().           *)
AssertFails(addr, nbyte) ==
    \/ nbyte < DW_B /\ ~FitsInWord(addr % DW_B, nbyte)
    \/ \E t \in ToSet(Parts(FALSE, [i \in 1 .. nbyte |-> 0], addr)) :
          t.addr % AW_B # 0
-----------------------------------------------------------------------------
(* The packets of a transfer: as many words as fit, two bytes each.        *)
num_pkgs_for_transfer(size) == INT_DIV_CEIL(size, 2 * MAX_EVENT_WORDS)

pkg_in_transfer(bytes, pkg_idx) ==
    LET from == pkg_idx * 2 * MAX_EVENT_WORDS
        to == Min({from + 2 * MAX_EVENT_WORDS, Len(bytes)})
    IN  [w \in 1 .. ((to - from) \div 2) |->
            bytes[from + 2 * w - 1] * 256 + bytes[from + 2 * w]]

send_mam_transfer(bytes) ==
    [i \in 1 .. num_pkgs_for_transfer(Len(bytes)) |->
        pkg_in_transfer(bytes, i - 1)]

WordBytes(words) ==
    [i \in 1 .. (2 * Len(words)) |->
        IF i % 2 = 1 THEN words[(i + 1) \div 2] \div 256
        ELSE words[i \div 2] % 256]
-----------------------------------------------------------------------------
(* What a loader has to do for an image: every segment is written and      *)
(* filled up with zeroes, and read back if that was asked for.             *)
Zeroes(s) == (s.p_memsz - s.p_filesz) % ELF_WORD

SegmentWrites(s) ==
    <<[op |-> "write", addr |-> s.p_paddr, data |-> s.data]>>
    \o (IF Zeroes(s) = 0 THEN <<>>
        ELSE <<[op |-> "write", addr |-> s.p_paddr + s.p_filesz,
                data |-> [i \in 1 .. Zeroes(s) |-> 0]]>>)

SegmentReads(s) == <<[op |-> "verify", addr |-> s.p_paddr, data |-> s.data]>>

LoadJobs(image, verify) ==
    FoldLeft(LAMBDA a, s : a \o SegmentWrites(s), <<>>, image)
    \o (IF verify THEN FoldLeft(LAMBDA a, s : a \o SegmentReads(s), <<>>, image)
        ELSE <<>>)
-----------------------------------------------------------------------------
TypeOK ==
    /\ mem \in [0 .. (MEM_SIZE - 1) -> 0 .. 255]
    /\ before \in [0 .. (MEM_SIZE - 1) -> 0 .. 255]
    /\ \A s \in ToSet(to_mam) \cup ToSet(from_mam) \cup ToSet(out) :
          Len(s) <= MAX_EVENT_WORDS /\ \A i \in DOMAIN s : s[i] \in 0 .. 65535
    /\ {mambuf, rbuf, data} \subseteq Seq(0 .. 255)
    /\ awaits \in Nat \cup {Nothing, Ack}
    /\ result \in {"", "OK", "NOT_CONNECTED", "MEM_VERIFY_FAILED", "abort"}
    /\ calls \in 0 .. MaxCalls

Init ==
    /\ mem = [a \in 0 .. (MEM_SIZE - 1) |-> 255] /\ before = mem
    /\ call = [op |-> "none", jobs |-> <<>>]
    /\ jobs = <<>> /\ job = Idle /\ transfers = <<>> /\ cur = NoTransfer
    /\ out = <<>> /\ awaits = Nothing /\ rbuf = <<>> /\ data = <<>>
    /\ result = "OK" /\ to_mam = <<>> /\ from_mam = <<>> /\ mambuf = <<>>
    /\ calls = 0

Begin(op, js) ==
    /\ ~Running /\ result # "abort" /\ calls < MaxCalls
    /\ call' = [op |-> op, jobs |-> js] /\ jobs' = js /\ calls' = calls + 1
    /\ before' = mem /\ result' = "" /\ data' = <<>>
    /\ UNCHANGED <<mem, job, transfers, cur, out, awaits, rbuf, to_mam, from_mam,
                   mambuf>>

(* The bytes of a call carry its number, so that no two are the same.      *)
osd_cl_mam_write(x) ==
    Begin("write", <<[op |-> "write", addr |-> x.addr,
                      data |-> [i \in 1 .. x.nbyte |-> 16 * calls + i]]>>)

osd_cl_mam_read(x) ==
    Begin("read", <<[op |-> "read", addr |-> x.addr,
                     data |-> [i \in 1 .. x.nbyte |-> 0]]>>)

osd_memaccess_loadelf(image, verify) ==
    Begin(IF verify THEN "loadelf" ELSE "load", LoadJobs(image, verify))

(* The client starts the next part of the call.                            *)
StartJob ==
    /\ Running /\ job = Idle /\ jobs # <<>>
    /\ \/ /\ ~AssertFails(Head(jobs).addr, Len(Head(jobs).data))
          /\ job' = Head(jobs) /\ jobs' = Tail(jobs) /\ data' = <<>>
          /\ transfers' = Parts(job'.op = "write", job'.data, job'.addr)
          /\ UNCHANGED result
       \/ /\ AssertFails(Head(jobs).addr, Len(Head(jobs).data))
          /\ result' = "abort"
          /\ UNCHANGED <<job, jobs, data, transfers>>
    /\ UNCHANGED <<mem, before, call, cur, out, awaits, rbuf, calls, to_mam,
                   from_mam, mambuf>>

(* mam_write(), mam_read(): the packets of one transfer.                   *)
StartTransfer ==
    /\ Running /\ transfers # <<>> /\ out = <<>> /\ awaits = Nothing
    /\ cur' = Head(transfers) /\ transfers' = Tail(transfers)
    /\ out' = send_mam_transfer(cur'.bytes) /\ rbuf' = <<>>
    /\ UNCHANGED <<mem, before, call, jobs, job, awaits, data, result, calls,
                   to_mam, from_mam, mambuf>>

(* Mutated form: every write waits for an acknowledgement.                 *)
SendPacket_acked ==
    /\ Running /\ out # <<>>
    /\ to_mam' = Append(to_mam, Head(out)) /\ out' = Tail(out)
    /\ awaits' = CASE Len(out) > 1 -> Nothing
                   [] ~cur.we -> cur.nbyte
                   [] cur.we -> Ack
    /\ UNCHANGED <<mem, before, call, jobs, job, transfers, cur, rbuf, data,
                   result, calls, from_mam, mambuf>>

SendPacket ==
    /\ Running /\ out # <<>>
    /\ to_mam' = Append(to_mam, Head(out)) /\ out' = Tail(out)
    /\ awaits' = CASE Len(out) > 1 -> Nothing
                   [] ~cur.we -> cur.nbyte
                   [] cur.we /\ cur.sync -> Ack
                   [] OTHER -> Nothing
    /\ UNCHANGED <<mem, before, call, jobs, job, transfers, cur, rbuf, data,
                   result, calls, from_mam, mambuf>>

(* The host module has lost its connection: the call gives up.             *)
SendFails ==
    /\ MayFail /\ Running /\ out # <<>>
    /\ result' = "NOT_CONNECTED" /\ calls' = MaxCalls
    /\ out' = <<>> /\ transfers' = <<>> /\ jobs' = <<>> /\ job' = Idle
    /\ UNCHANGED <<mem, before, call, cur, awaits, rbuf, data, to_mam, from_mam,
                   mambuf>>

ReceiveAck ==
    /\ Running /\ awaits = Ack /\ from_mam # <<>>
    /\ from_mam' = Tail(from_mam) /\ awaits' = Nothing
    /\ UNCHANGED <<mem, before, call, jobs, job, transfers, cur, out, rbuf, data,
                   result, calls, to_mam, mambuf>>

(* Events are taken until all bytes are there; a single word read only     *)
(* contributes the bytes that were asked for.                              *)
ReceiveData ==
    /\ Running /\ awaits > 0 /\ from_mam # <<>>
    /\ from_mam' = Tail(from_mam)
    /\ rbuf' = rbuf \o WordBytes(Head(from_mam))
    /\ awaits' = IF Len(rbuf') < cur.nbyte THEN awaits ELSE Nothing
    /\ data' = IF Len(rbuf') < cur.nbyte THEN data
               ELSE data \o SubSeq(rbuf', cur.skip + 1, cur.skip + cur.take)
    /\ UNCHANGED <<mem, before, call, jobs, job, transfers, cur, out, result,
                   calls, to_mam, mambuf>>

EndJob ==
    /\ Running /\ job # Idle
    /\ transfers = <<>> /\ out = <<>> /\ awaits = Nothing
    /\ job' = Idle
    /\ LET mismatch == job.op = "verify" /\ data # job.data IN
          /\ result' = CASE mismatch -> "MEM_VERIFY_FAILED"
                         [] ~mismatch /\ jobs = <<>> -> "OK"
                         [] OTHER -> ""
          /\ jobs' = IF mismatch THEN <<>> ELSE jobs
    /\ UNCHANGED <<mem, before, call, transfers, cur, out, awaits, rbuf, data,
                   calls, to_mam, from_mam, mambuf>>

(* A call without anything to do returns at once.                          *)
EndEmpty ==
    /\ Running /\ job = Idle /\ jobs = <<>>
    /\ result' = "OK"
    /\ UNCHANGED <<mem, before, call, jobs, job, transfers, cur, out, awaits,
                   rbuf, data, calls, to_mam, from_mam, mambuf>>
-----------------------------------------------------------------------------
(* The module: it collects the bytes of a transfer and carries it out.     *)
Hdr(b, bit) == (b[1] \div 2^bit) % 2 = 1
PayloadBytes(b) ==
    IF ~Hdr(b, 7) THEN 0 ELSE IF Hdr(b, 6) THEN b[2] * DW_B ELSE DW_B
Complete(b) == Len(b) >= 2 + AW_B /\ Len(b) >= 2 + AW_B + PayloadBytes(b)
Address(b) == FoldLeft(LAMBDA a, x : 256 * a + x, 0, SubSeq(b, 3, 2 + AW_B))
Selected(b, i) == Hdr(b, 6) \/ (b[2] \div 2^i) % 2 = 1

Written(b) ==
    [a \in DOMAIN mem |->
        LET i == a - Address(b) IN
        IF i \in 0 .. (PayloadBytes(b) - 1) /\ Selected(b, i)
        THEN b[3 + AW_B + i] ELSE mem[a]]

Answer(b) ==
    LET n == IF Hdr(b, 6) THEN b[2] * DW_B ELSE DW_B
        bytes == [i \in 1 .. n |-> mem[Address(b) + i - 1]]
    IN  send_mam_transfer(bytes)

MamReceives ==
    /\ to_mam # <<>>
    /\ to_mam' = Tail(to_mam)
    /\ LET b == mambuf \o WordBytes(Head(to_mam)) IN
          \/ /\ ~Complete(b)
             /\ mambuf' = b /\ UNCHANGED <<mem, from_mam>>
          \/ /\ Complete(b)
             /\ mambuf' = <<>>
             /\ mem' = Written(b)
             /\ from_mam' = CASE ~Hdr(b, 7) -> from_mam \o Answer(b)
                              [] Hdr(b, 7) /\ Hdr(b, 5) -> Append(from_mam, <<>>)
                              [] OTHER -> from_mam
    /\ UNCHANGED clientVars
-----------------------------------------------------------------------------
ClientStep ==
    \/ StartJob \/ StartTransfer \/ SendPacket \/ ReceiveAck \/ ReceiveData
    \/ EndJob \/ EndEmpty

Next ==
    \/ \E x \in Accesses : osd_cl_mam_write(x) \/ osd_cl_mam_read(x)
    \/ \E image \in Images, verify \in BOOLEAN : osd_memaccess_loadelf(image, verify)
    \/ ClientStep \/ SendFails \/ MamReceives

Spec == Init /\ [][Next]_vars
FairSpec == Spec /\ WF_vars(ClientStep) /\ WF_vars(MamReceives)
-----------------------------------------------------------------------------
(* The memory after the writes of a call, by the meaning of its arguments. *)
Stored(m, j) ==
    [a \in DOMAIN m |->
        IF j.op = "write" /\ a - j.addr \in 0 .. (Len(j.data) - 1)
        THEN j.data[a - j.addr + 1] ELSE m[a]]

AfterCall == FoldLeft(Stored, before, call.jobs)

(* When a write or a load has returned OK, the memory holds all its bytes  *)
(* and nothing else has changed: the acknowledgement of the last transfer  *)
(* stands for those of all others.                                         *)
WrittenWhenReturned == result = "OK" => mem = AfterCall

(* At no moment, and also when the call fails, a byte of the memory is     *)
(* other than before the call or as one of its writes left it.             *)
OnlyTargetTouched ==
    \A a \in DOMAIN mem :
        \/ mem[a] = before[a]
        \/ \E j \in ToSet(call.jobs) :
              /\ j.op = "write" /\ a - j.addr \in 0 .. (Len(j.data) - 1)
              /\ mem[a] = j.data[a - j.addr + 1]

(* A read returns the bytes of the memory from its address on, whichever   *)
(* parts they were fetched in.                                             *)
ReadReturnsMemory ==
    call.op = "read" /\ result = "OK" =>
        data = [i \in 1 .. Len(call.jobs[1].data) |-> mem[call.jobs[1].addr + i - 1]]

(* The answers of the module are used up by the call they belong to, and   *)
(* never overrun its buffer.                                               *)
AnswersConsumed ==
    /\ result \in {"OK", "MEM_VERIFY_FAILED"} =>
          to_mam = <<>> /\ from_mam = <<>> /\ mambuf = <<>>
    /\ cur.we \/ Len(rbuf) <= cur.nbyte

(* The only accesses the client's assertions refuse are those of less than *)
(* a word that cross a word boundary, if addresses are not wider than      *)
(* data words.                                                             *)
RefusesOnlyShortCrossings ==
    result = "abort" /\ DW_B % AW_B = 0 =>
        \E j \in ToSet(call.jobs) :
            Len(j.data) < DW_B /\ (j.addr % DW_B) + Len(j.data) > DW_B

(* A load that was verified leaves the file contents of every segment in   *)
(* the memory.                                                             *)
VerifiedImageIsThere ==
    call.op = "loadelf" /\ result = "OK" =>
        \A j \in ToSet(call.jobs) : j.op = "verify" =>
            \A i \in DOMAIN j.data : mem[j.addr + i - 1] = j.data[i]

(* An access through the module is exact: what it returned is done, what   *)
(* it read is the memory, nothing else was touched, and nothing of it is   *)
(* left for the next call.                                                 *)
AccessIsExact ==
    /\ TypeOK /\ WrittenWhenReturned /\ OnlyTargetTouched /\ ReadReturnsMemory
    /\ AnswersConsumed /\ RefusesOnlyShortCrossings /\ VerifiedImageIsThere

(* Every call returns, also if the connection is lost on the way: a write  *)
(* waits for one acknowledgement, a read for as many bytes as were asked   *)
(* for.                                                                    *)
CallReturns == Running ~> ~Running
=============================================================================
