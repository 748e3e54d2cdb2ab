-------------------------- MODULE EventReassembly --------------------------
(***************************************************************************)
(* iothread_handle_in_eventpkg (hostmod.c): how the I/O thread of a host   *)
(* module puts split events together again.  Intermediate packets wait in  *)
(* a CZMQ list; the last packet of an event walks the list with its        *)
(* cursor, takes out what the same source has sent, and appends itself.    *)
(* The walk is modelled step by step, with the packets as objects that are *)
(* allocated and freed.                                                    *)
(***************************************************************************)
EXTENDS Integers, SequencesExt

CONSTANTS
    Source,        \* DI addresses that send events
    MaxPackets,    \* bound: event packets received
    MaxConts,      \* bound: intermediate packets of one event
    MaxLasts,      \* bound: events that are completed
    MaxConnections    \* bound: connections to the host controller

ASSUME EventReassemblyAssumption ==
    {MaxPackets, MaxConts, MaxLasts} \subseteq Nat /\ MaxConnections \in Nat \ {0}

Packet == 1 .. MaxPackets    \* packets, and the word each one carries

VARIABLES
    src, words,     \* contents of the packets received so far
    freed,          \* packets freed or handed to the application
    buf,            \* usrctx->event_reassembly_buf
    cursor,         \* its cursor: a position, 0 for NULL
    pc,             \* "idle", "walk", or "undefined" after a use of freed memory
    pkg, fwd_pkg,   \* the packet handled, the event put together (0 for NULL)
    delivered,      \* events given to the handler or to the main thread
    conts, lasts,   \* sender: packets of the event under way; bounds
    conn, session,  \* ghosts: the connection of each packet; the present one
    cut             \* ghost: sources whose event a disconnect has cut off

evVars == <<src, words, freed, buf, cursor, pc, pkg, fwd_pkg, delivered, conts, lasts,
          conn, session, cut>>

Received == DOMAIN src

EvTypeOK ==
    /\ src \in Seq(Source) /\ words \in Seq(Seq(Packet)) /\ Len(src) = Len(words)
    /\ Len(src) <= MaxPackets
    /\ freed \subseteq Packet
    /\ buf \in Seq(Packet) /\ cursor \in 0 .. Len(buf)
    /\ pc \in {"idle", "walk", "undefined"}
    /\ pkg \in Packet \cup {0} /\ fwd_pkg \in Packet \cup {0}
    /\ delivered \in Seq([src : Source, words : Seq(Packet)])
    /\ conts \in [Source -> 0 .. MaxConts] /\ lasts \in 0 .. MaxLasts
    /\ conn \in Seq(1 .. MaxConnections) /\ Len(conn) = Len(src)
    /\ session \in 1 .. MaxConnections /\ cut \subseteq Source

EvInit ==
    /\ src = <<>> /\ words = <<>> /\ freed = {}
    /\ buf = <<>> /\ cursor = 0
    /\ pc = "idle" /\ pkg = 0 /\ fwd_pkg = 0
    /\ delivered = <<>>
    /\ conts = [s \in Source |-> 0] /\ lasts = 0
    /\ conn = <<>> /\ session = 1 /\ cut = {}

(* The positions zlist_first and zlist_next go to.                         *)
FirstOf(list)   == IF list = <<>> THEN 0 ELSE 1
NextOf(list, c) == IF c = 0 THEN FirstOf(list)
                   ELSE IF c < Len(list) THEN c + 1 ELSE 0

(* A packet arrives from the host controller.                              *)
Receive(s) ==
    /\ pc = "idle" /\ Len(src) < MaxPackets
    /\ src' = Append(src, s)
    /\ words' = Append(words, <<Len(src) + 1>>)
    /\ conn' = Append(conn, session) /\ UNCHANGED <<session, cut>>

(* EV_CONT: zlist_append, which also resets the cursor.                    *)
HandleCont(s) ==
    /\ Receive(s)
    /\ conts[s] < MaxConts /\ conts' = [conts EXCEPT ![s] = @ + 1]
    /\ buf' = Append(buf, Len(src) + 1) /\ cursor' = 0
    /\ UNCHANGED <<freed, pc, pkg, fwd_pkg, delivered, lasts>>

(* Mutated form: the packet is forwarded and also put into the list.       *)
HandleOther_buffers(s) ==
    /\ Receive(s)
    /\ delivered' = Append(delivered, [src |-> s, words |-> <<Len(src) + 1>>])
    /\ freed' = freed \cup {Len(src) + 1}
    /\ buf' = Append(buf, Len(src) + 1) /\ cursor' = 0
    /\ UNCHANGED <<pc, pkg, fwd_pkg, conts, lasts>>

(* Neither EV_CONT nor EV_LAST: forwarded as it is.                        *)
HandleOther(s) ==
    /\ Receive(s)
    /\ delivered' = Append(delivered, [src |-> s, words |-> <<Len(src) + 1>>])
    /\ freed' = freed \cup {Len(src) + 1}
    /\ UNCHANGED <<buf, cursor, pc, pkg, fwd_pkg, conts, lasts>>

(* EV_LAST: zlist_first.                                                   *)
HandleLast(s) ==
    /\ Receive(s)
    /\ lasts < MaxLasts /\ lasts' = lasts + 1
    /\ conts' = [conts EXCEPT ![s] = 0]
    /\ pkg' = Len(src) + 1 /\ fwd_pkg' = 0
    /\ cursor' = FirstOf(buf)
    /\ pc' = "walk"
    /\ UNCHANGED <<freed, buf, delivered>>

(* iothread_disconnect_from_hostctrl() and a new connection: the rest of   *)
(* the events under way goes to an address that is gone, what came before  *)
(* stays in the list.                                                      *)
Reconnect ==
    /\ pc = "idle" /\ session < MaxConnections /\ session' = session + 1
    /\ conts' = [s \in Source |-> 0]
    /\ cut' = cut \cup {src[buf[i]] : i \in DOMAIN buf}
    /\ UNCHANGED <<src, words, freed, buf, cursor, pc, pkg, fwd_pkg, delivered, lasts, conn>>

inbuf == buf[cursor]

Walking == pc = "walk" /\ cursor # 0

(* osd_packet_get_src of an entry whose packet has been freed.             *)
ReadFreed ==
    /\ Walking /\ inbuf \in freed
    /\ pc' = "undefined"
    /\ UNCHANGED <<src, words, freed, buf, cursor, pkg, fwd_pkg, delivered, conts,
                   lasts, conn, session, cut>>

SkipOther ==
    /\ Walking /\ inbuf \notin freed /\ src[inbuf] # src[pkg]
    /\ cursor' = NextOf(buf, cursor)
    /\ UNCHANGED <<src, words, freed, buf, pc, pkg, fwd_pkg, delivered, conts, lasts, conn, session,
                   cut>>

(* The first packet becomes the event.  zlist_remove moves the cursor back *)
(* to the entry before, or to NULL.                                        *)
TakeFirst ==
    /\ Walking /\ inbuf \notin freed /\ src[inbuf] = src[pkg] /\ fwd_pkg = 0
    /\ fwd_pkg' = inbuf
    /\ buf' = RemoveAt(buf, cursor)
    /\ cursor' = NextOf(buf', cursor - 1)
    /\ UNCHANGED <<src, words, freed, pc, pkg, delivered, conts, lasts, conn, session,
                   cut>>

(* Mutated form: the payload is put in front of what is there.             *)
TakeNext_prepends ==
    /\ Walking /\ inbuf \notin freed /\ src[inbuf] = src[pkg] /\ fwd_pkg # 0
    /\ words' = [words EXCEPT ![fwd_pkg] = words[inbuf] \o @]
    /\ freed' = freed \cup {inbuf}
    /\ cursor' = NextOf(buf, cursor)
    /\ UNCHANGED <<src, buf, pc, pkg, fwd_pkg, delivered, conts, lasts, conn, session,
                   cut>>

(* Of a further packet only the payload is used.  osd_packet_free sets     *)
(* pkg_inbuf to NULL, so the zlist_remove that follows finds no entry.     *)
TakeNext ==
    /\ Walking /\ inbuf \notin freed /\ src[inbuf] = src[pkg] /\ fwd_pkg # 0
    /\ words' = [words EXCEPT ![fwd_pkg] = @ \o words[inbuf]]
    /\ freed' = freed \cup {inbuf}
    /\ cursor' = NextOf(buf, cursor)
    /\ UNCHANGED <<src, buf, pc, pkg, fwd_pkg, delivered, conts, lasts, conn, session,
                   cut>>

(* The last packet is the event or is appended to it, and the event goes   *)
(* to the handler or the main thread.                                      *)
DeliverEvent ==
    /\ pc = "walk" /\ cursor = 0
    /\ delivered' = Append(delivered,
           [src   |-> src[pkg],
            words |-> IF fwd_pkg = 0 THEN words[pkg]
                      ELSE words[fwd_pkg] \o words[pkg]])
    /\ freed' = freed \cup ({pkg, fwd_pkg} \ {0})
    /\ pc' = "idle" /\ pkg' = 0 /\ fwd_pkg' = 0
    /\ UNCHANGED <<src, words, buf, cursor, conts, lasts, conn, session,
                   cut>>

EvNext ==
    \/ \E s \in Source : HandleCont(s) \/ HandleOther(s) \/ HandleLast(s)
    \/ Reconnect \/ ReadFreed \/ SkipOther \/ TakeFirst \/ TakeNext \/ DeliverEvent

EvSpec == EvInit /\ [][EvNext]_evVars

-----------------------------------------------------------------------------
(* Properties.                                                             *)

(* The sequence of the elements of a set of numbers in increasing order.   *)
Rank(L, p) == Cardinality({q \in L : q <= p})
Only(S)    == CHOOSE p \in S : TRUE
Sorted(L)  == [i \in 1 .. Cardinality(L) |-> Only({p \in L : Rank(L, p) = i})]

(* The words of source s that wait for the end of an event: the part       *)
(* already put together and the live entries of the list, in the order in  *)
(* which they were received.                                               *)
Live(s) == {p \in Range(buf) : src[p] = s /\ p \notin freed}
WordsPending(s) ==
    IF fwd_pkg # 0 /\ src[fwd_pkg] = s THEN words[fwd_pkg] \o Sorted(Live(s))
                                       ELSE Sorted(Live(s))

Abstract == INSTANCE EventStream
              WITH Word <- Packet,
                   pending <- [s \in Source |-> WordsPending(s)]

(* The list walk implements EventStream: whatever the order in which the   *)
(* packets of several sources arrive, every event is delivered complete,   *)
(* in order and unmixed.                                                   *)
Reassembles == Abstract!Spec

(* As long as no event of more than two packets has come, the list holds   *)
(* between two packets only packets that it owns: none that was freed or   *)
(* handed to the application. And the packets of an event all come from    *)
(* one connection, unless a disconnect has cut off an event of its source: *)
(* what was left of it in the list becomes part of the next one.           *)
BufferOwnsPackets ==
    /\ EvTypeOK
    /\ (pc = "idle" /\ \A i \in DOMAIN delivered : Len(delivered[i].words) <= 2) =>
          \A i \in DOMAIN buf : buf[i] \notin freed
    /\ \A i \in DOMAIN delivered :
          \/ \A w, v \in Range(delivered[i].words) : conn[w] = conn[v]
          \/ delivered[i].src \in cut

(* A statement of the code that does not hold.  The buffer is "used to     *)
(* recombine split transactions": no entry is read after its packet was    *)
(* freed, however many packets an event has.                               *)
NoUseAfterFree == pc # "undefined"
=============================================================================
