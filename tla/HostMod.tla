------------------------------ MODULE HostMod ------------------------------
(***************************************************************************)
(* The host module (hostmod.c): the library half every host tool uses to   *)
(* talk to debug modules in the target.  The application's main thread     *)
(* calls osd_hostmod_*; an I/O worker thread owns the connection to the    *)
(* host controller.  Register accesses are a request and the wait for      *)
(* whatever packet the I/O thread hands over next.                         *)
(*                                                                         *)
(* Every connect opens a new DEALER socket, called session here; the       *)
(* controller and the debug modules behind it are the environment: they    *)
(* answer late, in any order, or not at all.                               *)
(***************************************************************************)
EXTENDS Integers, Sequences, FiniteSets

CONSTANTS
    Module,             \* debug modules of the target
    Handlers,           \* may an event handler be registered (TRUE), or none?
    MaxSessions,        \* bound: DEALER sockets opened
    MaxAccesses,        \* bound: register requests sent
    MaxEvents,          \* bound: event packets received or sent
    MaxTimeouts,        \* bound: waits for a packet that time out
    MaxStatusTimeouts,  \* bound: waits for a status message that time out
    Lossy               \* may requests get lost on the way to a module?

ASSUME HostModAssumption ==
    /\ Module # {} /\ Handlers \subseteq BOOLEAN /\ Lossy \in BOOLEAN
    /\ MaxSessions \in Nat /\ MaxAccesses \in Nat /\ MaxEvents \in Nat
    /\ MaxTimeouts \in Nat /\ MaxStatusTimeouts \in Nat

Session == 1 .. MaxSessions
Access  == 1 .. MaxAccesses

(* Register operations; the number of words is part of the subtype.        *)
RegOp == {"read16", "read32", "write"}

(* A request goes to module mod; a response names the request it answers,  *)
(* which is not on the wire: packets carry no transaction number.          *)
RegReq    == [type : {"REG"}, op : RegOp, mod : Module, src : Session, id : Access]
RegResp   == [type : {"REG"}, op : RegOp, ok : BOOLEAN, id : Access]
EventPkt  == [type |-> "EVENT"]
DiaddrReq == [type |-> "M"]
Addr(s)   == [type |-> "M", addr |-> s]  \* addresses are never handed out twice

Cmd(c) == [type |-> c]
ToIo   == {Cmd(c) : c \in {"I-CONNECT", "I-DISCONNECT", "I-SHUTDOWN"}}
ToMain == [name : {"I-CONNECT-DONE"}, value : Session \cup {-1}]
            \cup [name : {"I-DISCONNECT-DONE"}, value : {0}]
            \cup [name : {"D"}, pkt : RegResp \cup {EventPkt}]

AbortReason == {"no", "not_packet", "not_reg", "mgmt", "no_socket"}

(* Result codes of osd.h.                                                  *)
Result == {"none", "OK", "TIMEDOUT", "DEVICE_ERROR", "DEVICE_INVALID_DATA"}

VARIABLES
    has_handler,     \* an event handler was given to osd_hostmod_new
    \* main thread
    is_connected, diaddr,
    mpc,             \* "idle", or the call the main thread is in
    then,            \* a write follows: first access of osd_hostmod_reg_setbit
    op, mod,         \* the access under way
    accesses,        \* register requests sent
    last,            \* result of the last access and the request it got
    timeouts,        \* accesses that timed out since the last connect
    alltimeouts, statustimeouts, events,   \* bounds
    to_io, to_main,  \* the PAIR socket
    \* I/O thread
    iopc,            \* "loop", "obtain" (waits for its address) or "ended"
    sock,            \* session of usrctx->hostctrl_socket, 0 for NULL
    readers,         \* sessions whose socket is registered in the zloop
    sessions,        \* sockets opened so far
    abort,           \* why the process died
    \* environment
    toctrl,          \* per session: messages to the controller
    fromctrl,        \* per session: messages from the controller
    atmods,          \* requests that debug modules have not answered
    lost             \* ghost: a request got lost

mainVars == <<is_connected, diaddr, mpc, then, op, mod, accesses, last,
              timeouts, alltimeouts, statustimeouts>>
ioVars   == <<iopc, sock, readers, sessions>>
fixVars  == <<has_handler, lost>>
envVars  == <<toctrl, fromctrl, atmods, fixVars>>
vars     == <<mainVars, events, to_io, to_main, ioVars, abort, envVars>>

TypeOK ==
    /\ has_handler \in Handlers /\ lost \in BOOLEAN
    /\ is_connected \in BOOLEAN /\ diaddr \in Session \cup {0}
    /\ mpc \in {"idle", "connect", "disconnect", "reg", "event", "free"}
    /\ then \in BOOLEAN /\ op \in RegOp /\ mod \in Module
    /\ accesses \in Access \cup {0}
    /\ last \in [rv : Result, id : Access \cup {0}, got : Access \cup {0},
                late : BOOLEAN]
    /\ timeouts \in Nat /\ alltimeouts \in Nat /\ statustimeouts \in Nat
    /\ events \in Nat
    /\ to_io \in Seq(ToIo \cup RegReq \cup {EventPkt})
    /\ to_main \in Seq(ToMain)
    /\ iopc \in {"loop", "obtain", "ended"}
    /\ sock \in Session \cup {0} /\ readers \subseteq Session
    /\ sessions \in Session \cup {0}
    /\ abort \in AbortReason
    /\ toctrl \in [Session -> Seq(RegReq \cup {EventPkt, DiaddrReq})]
    /\ \A s \in Session : fromctrl[s] \in Seq(RegResp \cup {EventPkt, Addr(s)})
    /\ atmods \subseteq RegReq

Init ==
    /\ has_handler \in Handlers /\ lost = FALSE
    /\ is_connected = FALSE /\ diaddr = 0 /\ mpc = "idle" /\ then = FALSE
    /\ op = "write" /\ mod = (CHOOSE m \in Module : TRUE)
    /\ accesses = 0
    /\ last = [rv |-> "none", id |-> 0, got |-> 0, late |-> FALSE]
    /\ timeouts = 0 /\ alltimeouts = 0 /\ statustimeouts = 0 /\ events = 0
    /\ to_io = <<>> /\ to_main = <<>>
    /\ iopc = "loop" /\ sock = 0 /\ readers = {} /\ sessions = 0
    /\ abort = "no"
    /\ toctrl = [s \in Session |-> <<>>] /\ fromctrl = [s \in Session |-> <<>>]
    /\ atmods = {}

Alive == abort = "no"

-----------------------------------------------------------------------------
(* Main thread.                                                            *)

osd_hostmod_connect ==
    /\ Alive /\ mpc = "idle" /\ ~is_connected /\ sessions < MaxSessions
    /\ mpc' = "connect"
    /\ to_io' = Append(to_io, Cmd("I-CONNECT"))
    /\ UNCHANGED <<is_connected, diaddr, then, op, mod, accesses, last, timeouts,
                   alltimeouts, statustimeouts, events, to_main, ioVars, abort,
                   envVars>>

osd_hostmod_disconnect ==
    /\ Alive /\ mpc = "idle" /\ is_connected
    /\ mpc' = "disconnect"
    /\ to_io' = Append(to_io, Cmd("I-DISCONNECT"))
    /\ UNCHANGED <<is_connected, diaddr, then, op, mod, accesses, last, timeouts,
                   alltimeouts, statustimeouts, events, to_main, ioVars, abort,
                   envVars>>

(* worker_wait_for_status on behalf of osd_hostmod_connect and             *)
(* osd_hostmod_disconnect: packets are discarded, a status of another name *)
(* fails the call.                                                         *)
StatusReceived ==
    /\ Alive /\ mpc \in {"connect", "disconnect"} /\ to_main # <<>>
    /\ to_main' = Tail(to_main)
    /\ LET m == Head(to_main)
       IN  \/ /\ m.name = "D"
              /\ UNCHANGED <<mpc, is_connected, diaddr, timeouts>>
           \/ /\ m.name = "I-CONNECT-DONE" /\ mpc = "connect"
              /\ mpc' = "idle"
              /\ is_connected' = (m.value # -1)
              /\ diaddr' = IF m.value # -1 THEN m.value ELSE diaddr
              /\ timeouts' = 0
           \/ /\ m.name = "I-DISCONNECT-DONE" /\ mpc = "disconnect"
              /\ mpc' = "idle" /\ is_connected' = FALSE
              /\ UNCHANGED <<diaddr, timeouts>>
           \/ /\ m.name # "D"
              /\ m.name # IF mpc = "connect" THEN "I-CONNECT-DONE"
                                             ELSE "I-DISCONNECT-DONE"
              /\ mpc' = "idle"
              /\ UNCHANGED <<is_connected, diaddr, timeouts>>
    /\ UNCHANGED <<then, op, mod, accesses, last, alltimeouts, statustimeouts, events,
                   to_io, ioVars, abort, envVars>>

StatusTimesOut ==
    /\ Alive /\ mpc \in {"connect", "disconnect"} /\ to_main = <<>>
    /\ statustimeouts < MaxStatusTimeouts
    /\ statustimeouts' = statustimeouts + 1
    /\ mpc' = "idle"
    /\ UNCHANGED <<is_connected, diaddr, then, op, mod, accesses, last, timeouts,
                   alltimeouts, events, to_io, to_main, ioVars, abort, envVars>>

(* osd_hostmod_regaccess up to the wait.                                   *)
SendRequest(m, o) ==
    /\ accesses' = accesses + 1
    /\ op' = o /\ mod' = m
    /\ to_io' = Append(to_io, [type |-> "REG", op |-> o, mod |-> m,
                               src |-> diaddr, id |-> accesses + 1])

(* osd_hostmod_reg_read and osd_hostmod_reg_write (and, as a write,        *)
(* osd_hostmod_mod_set_event_dest).                                        *)
osd_hostmod_reg(m, o) ==
    /\ Alive /\ mpc = "idle" /\ is_connected /\ accesses < MaxAccesses
    /\ SendRequest(m, o)
    /\ mpc' = "reg" /\ then' = FALSE
    /\ UNCHANGED <<is_connected, diaddr, last, timeouts, alltimeouts,
                   statustimeouts, events, to_main, ioVars, abort, envVars>>

(* Read, then write back (also osd_hostmod_mod_set_event_active).          *)
osd_hostmod_reg_setbit(m) ==
    /\ Alive /\ mpc = "idle" /\ is_connected /\ accesses + 1 < MaxAccesses
    /\ SendRequest(m, "read16")
    /\ mpc' = "reg" /\ then' = TRUE
    /\ UNCHANGED <<is_connected, diaddr, last, timeouts, alltimeouts,
                   statustimeouts, events, to_main, ioVars, abort, envVars>>

(* The result of a register access for response p.                         *)
Check(p) == IF ~p.ok THEN "DEVICE_ERROR"
            ELSE IF p.op # op THEN "DEVICE_INVALID_DATA" ELSE "OK"

(* osd_hostmod_receive_packet returned with a message.  The request it     *)
(* answers is not compared with the one that was sent: that is not on the  *)
(* wire.                                                                   *)
RegReceived ==
    /\ Alive /\ mpc = "reg" /\ to_main # <<>>
    /\ to_main' = Tail(to_main)
    /\ LET m == Head(to_main)
       IN  \/ /\ m.name # "D"
              /\ abort' = "not_packet"
              /\ UNCHANGED <<mpc, then, op, mod, accesses, last, to_io>>
           \/ /\ m.name = "D" /\ m.pkt.type # "REG"
              /\ abort' = "not_reg"
              /\ UNCHANGED <<mpc, then, op, mod, accesses, last, to_io>>
           \/ /\ m.name = "D" /\ m.pkt.type = "REG"
              /\ last' = [rv |-> Check(m.pkt), id |-> accesses, got |-> m.pkt.id,
                          late |-> timeouts > 0]
              /\ \/ /\ then /\ Check(m.pkt) = "OK"
                    /\ SendRequest(mod, "write")
                    /\ then' = FALSE
                    /\ UNCHANGED mpc
                 \/ /\ ~then \/ Check(m.pkt) # "OK"
                    /\ mpc' = "idle"
                    /\ UNCHANGED <<then, op, mod, accesses, to_io>>
              /\ UNCHANGED abort
    /\ UNCHANGED <<is_connected, diaddr, timeouts, alltimeouts, statustimeouts,
                   events, ioVars, envVars>>

(* Without OSD_HOSTMOD_BLOCKING the wait gives up; with it, it does not.   *)
PacketTimesOut ==
    /\ Alive /\ mpc \in {"reg", "event"} /\ to_main = <<>>
    /\ alltimeouts < MaxTimeouts
    /\ alltimeouts' = alltimeouts + 1
    /\ \/ /\ mpc = "reg"
          /\ timeouts' = timeouts + 1
          /\ last' = [rv |-> "TIMEDOUT", id |-> accesses, got |-> 0, late |-> FALSE]
       \/ mpc = "event" /\ UNCHANGED <<timeouts, last>>
    /\ mpc' = "idle"
    /\ UNCHANGED <<is_connected, diaddr, then, op, mod, accesses, statustimeouts,
                   events, to_io, to_main, ioVars, abort, envVars>>

osd_hostmod_event_send ==
    /\ Alive /\ mpc = "idle" /\ is_connected /\ events < MaxEvents
    /\ events' = events + 1
    /\ to_io' = Append(to_io, EventPkt)
    /\ UNCHANGED <<mainVars, to_main, ioVars, abort, envVars>>

(* "It doesn't guarantee to return only event packets".                    *)
osd_hostmod_event_receive ==
    /\ Alive /\ mpc = "idle" /\ ~has_handler /\ is_connected
    /\ mpc' = "event"
    /\ UNCHANGED <<is_connected, diaddr, then, op, mod, accesses, last, timeouts,
                   alltimeouts, statustimeouts, events, to_io, to_main, ioVars,
                   abort, envVars>>

EventReceived ==
    /\ Alive /\ mpc = "event" /\ to_main # <<>>
    /\ to_main' = Tail(to_main)
    /\ \/ /\ Head(to_main).name = "D" /\ mpc' = "idle"
          /\ UNCHANGED abort
       \/ /\ Head(to_main).name # "D" /\ abort' = "not_packet"
          /\ UNCHANGED mpc
    /\ UNCHANGED <<is_connected, diaddr, then, op, mod, accesses, last, timeouts,
                   alltimeouts, statustimeouts, events, to_io, ioVars, envVars>>

(* osd_hostmod_free asserts !is_connected; worker_free is module Worker.   *)
osd_hostmod_free ==
    /\ Alive /\ mpc = "idle" /\ ~is_connected
    /\ mpc' = "free"
    /\ to_io' = Append(to_io, Cmd("I-SHUTDOWN"))
    /\ UNCHANGED <<is_connected, diaddr, then, op, mod, accesses, last, timeouts,
                   alltimeouts, statustimeouts, events, to_main, ioVars, abort,
                   envVars>>

-----------------------------------------------------------------------------
(* I/O thread: commands of the main thread.                                *)

FromMain(m) ==
    /\ Alive /\ iopc = "loop" /\ to_io # <<>> /\ Head(to_io) = m
    /\ to_io' = Tail(to_io)

SendMain(m) == to_main' = Append(to_main, m)

ConnectDone(v) == [name |-> "I-CONNECT-DONE", value |-> v]

(* Opens a socket, asks for an address, and blocks for the answer.  The    *)
(* member is overwritten even if a socket is open.                         *)
iothread_connect_to_hostctrl ==
    /\ FromMain(Cmd("I-CONNECT"))
    /\ \/ /\ sessions < MaxSessions
          /\ sessions' = sessions + 1 /\ sock' = sessions + 1
          /\ toctrl' = [toctrl EXCEPT ![sessions + 1] = Append(@, DiaddrReq)]
          /\ iopc' = "obtain"
          /\ UNCHANGED to_main
       \/ /\ sock' = 0                     \* no socket for this endpoint
          /\ SendMain(ConnectDone(-1))
          /\ UNCHANGED <<sessions, toctrl, iopc>>
    /\ UNCHANGED <<mainVars, events, readers, abort, fromctrl, atmods, fixVars>>

(* Mutated form: the socket is not added to the zloop.                     *)
iothread_obtain_diaddr_noReader ==
    /\ Alive /\ iopc = "obtain" /\ fromctrl[sock] # <<>>
    /\ fromctrl' = [fromctrl EXCEPT ![sock] = Tail(@)]
    /\ iopc' = "loop"
    /\ SendMain(ConnectDone(sock))
    /\ UNCHANGED <<mainVars, events, to_io, abort, readers, sock, sessions, toctrl,
                   atmods, fixVars>>

(* The rest of iothread_connect_to_hostctrl once the answer is there.      *)
iothread_obtain_diaddr ==
    /\ Alive /\ iopc = "obtain" /\ fromctrl[sock] # <<>>
    /\ fromctrl' = [fromctrl EXCEPT ![sock] = Tail(@)]
    /\ iopc' = "loop" /\ readers' = readers \cup {sock}
    /\ LET m == Head(fromctrl[sock])
       IN  /\ abort' = IF m.type = "M" THEN abort ELSE "mgmt"
           /\ to_main' = IF m.type = "M"
                         THEN Append(to_main, ConnectDone(m.addr)) ELSE to_main
    /\ UNCHANGED <<mainVars, events, to_io, sock, sessions, toctrl, atmods, fixVars>>

(* No answer within ZMQ_RCV_TIMEOUT: the socket is destroyed.              *)
ObtainTimesOut ==
    /\ Alive /\ iopc = "obtain"
    /\ iopc' = "loop" /\ sock' = 0
    /\ fromctrl' = [fromctrl EXCEPT ![sock] = <<>>]
    /\ SendMain(ConnectDone(-1))
    /\ UNCHANGED <<mainVars, events, to_io, readers, sessions, abort, toctrl, atmods, fixVars>>

(* Mutated form: the socket stays open and registered.                     *)
iothread_disconnect_from_hostctrl_keepsSocket ==
    /\ FromMain(Cmd("I-DISCONNECT")) /\ sock # 0
    /\ sock' = 0
    /\ SendMain([name |-> "I-DISCONNECT-DONE", value |-> 0])
    /\ UNCHANGED <<mainVars, events, iopc, readers, sessions, abort, envVars>>

iothread_disconnect_from_hostctrl ==
    /\ FromMain(Cmd("I-DISCONNECT"))
    /\ \/ /\ sock # 0
          /\ readers' = readers \ {sock} /\ sock' = 0
          /\ fromctrl' = [fromctrl EXCEPT ![sock] = <<>>]
          /\ SendMain([name |-> "I-DISCONNECT-DONE", value |-> 0])
          /\ UNCHANGED abort
       \/ /\ sock = 0 /\ abort' = "no_socket"
          /\ UNCHANGED <<readers, sock, fromctrl, to_main>>
    /\ UNCHANGED <<mainVars, events, iopc, sessions, toctrl, atmods, fixVars>>

(* "D" of iothread_handle_inproc_request.                                  *)
ForwardToHostctrl ==
    /\ to_io # <<>> /\ Head(to_io).type \in {"REG", "EVENT"}
    /\ FromMain(Head(to_io))
    /\ \/ /\ sock # 0
          /\ toctrl' = [toctrl EXCEPT ![sock] = Append(@, Head(to_io))]
          /\ UNCHANGED abort
       \/ /\ sock = 0 /\ abort' = "no_socket"
          /\ UNCHANGED toctrl
    /\ UNCHANGED <<mainVars, events, to_main, ioVars, fromctrl, atmods, fixVars>>

iothread_destroy ==
    /\ FromMain(Cmd("I-SHUTDOWN"))
    /\ iopc' = "ended"
    /\ UNCHANGED <<mainVars, events, to_main, sock, readers, sessions, abort,
                   envVars>>

(* I/O thread: a message of the host controller.                           *)

(* Mutated form: only packets for the current socket's register accesses   *)
(* that succeeded are handed over.                                         *)
iothread_rcv_from_hostctrl_dropsErrors(s) ==
    /\ Alive /\ iopc = "loop" /\ s \in readers /\ fromctrl[s] # <<>>
    /\ fromctrl' = [fromctrl EXCEPT ![s] = Tail(@)]
    /\ LET m == Head(fromctrl[s])
       IN  IF m.type = "REG" /\ m.ok THEN SendMain([name |-> "D", pkt |-> m])
                                     ELSE UNCHANGED to_main
    /\ UNCHANGED <<mainVars, events, to_io, ioVars, abort, toctrl, atmods, fixVars>>

(* Mutated form: events go to the main thread even with a handler.         *)
iothread_rcv_from_hostctrl_forwardsEvents(s) ==
    /\ Alive /\ iopc = "loop" /\ s \in readers /\ fromctrl[s] # <<>>
    /\ fromctrl' = [fromctrl EXCEPT ![s] = Tail(@)]
    /\ SendMain([name |-> "D", pkt |-> Head(fromctrl[s])])
    /\ UNCHANGED <<mainVars, events, to_io, ioVars, abort, toctrl, atmods, fixVars>>

(* Is packet m for the event handler, which runs in this thread?           *)
IsHandled(m) == m.type = "EVENT" /\ has_handler

(* Management messages are not expected.                                   *)
iothread_rcv_from_hostctrl(s) ==
    /\ Alive /\ iopc = "loop" /\ s \in readers /\ fromctrl[s] # <<>>
    /\ fromctrl' = [fromctrl EXCEPT ![s] = Tail(@)]
    /\ LET m == Head(fromctrl[s])
       IN  /\ abort' = IF m.type = "M" THEN "mgmt" ELSE abort
           /\ to_main' = IF m.type = "M" \/ IsHandled(m) THEN to_main
                         ELSE Append(to_main, [name |-> "D", pkt |-> m])
    /\ UNCHANGED <<mainVars, events, to_io, ioVars, toctrl, atmods, fixVars>>

-----------------------------------------------------------------------------
(* Environment: the host controller and the debug modules.  What is sent   *)
(* to a socket that is closed is lost.                                     *)

IsOpen(s) == s = sock \/ s \in readers

Deliver(s, m) ==
    fromctrl' = IF IsOpen(s) THEN [fromctrl EXCEPT ![s] = Append(@, m)]
                             ELSE fromctrl

HostctrlTakes(s) ==
    /\ toctrl[s] # <<>>
    /\ toctrl' = [toctrl EXCEPT ![s] = Tail(@)]
    /\ LET m == Head(toctrl[s])
       IN  \/ m.type = "M" /\ Deliver(s, Addr(s)) /\ UNCHANGED <<atmods, lost>>
           \/ m.type = "EVENT" /\ UNCHANGED <<fromctrl, atmods, lost>>
           \/ /\ m.type = "REG" /\ atmods' = atmods \cup {m}
              /\ UNCHANGED <<fromctrl, lost>>
           \/ /\ Lossy /\ m.type = "REG" /\ lost' = TRUE
              /\ UNCHANGED <<atmods, fromctrl>>
    /\ UNCHANGED <<has_handler, mainVars, events, to_io, to_main, ioVars, abort>>

(* A module answers its requests in order; different modules do not.       *)
ModuleAnswers ==
    \E r \in atmods, ok \in BOOLEAN :
        /\ \A q \in atmods : q.mod = r.mod => r.id <= q.id
        /\ atmods' = atmods \ {r}
        /\ Deliver(r.src, [type |-> "REG", op |-> r.op, ok |-> ok, id |-> r.id])
        /\ UNCHANGED <<mainVars, events, to_io, to_main, ioVars, abort, toctrl,
                       fixVars>>

ModuleSendsEvent(s) ==
    /\ s \in readers /\ events < MaxEvents
    /\ events' = events + 1
    /\ Deliver(s, EventPkt)
    /\ UNCHANGED <<mainVars, to_io, to_main, ioVars, abort, toctrl, atmods,
                   fixVars>>

-----------------------------------------------------------------------------
MainCalls ==
    \/ osd_hostmod_connect \/ osd_hostmod_disconnect
    \/ \E m \in Module : \/ \E o \in RegOp : osd_hostmod_reg(m, o)
                         \/ osd_hostmod_reg_setbit(m)
    \/ osd_hostmod_event_send \/ osd_hostmod_event_receive \/ osd_hostmod_free

MainReturns == StatusReceived \/ RegReceived \/ EventReceived

IoNext ==
    \/ iothread_connect_to_hostctrl \/ iothread_obtain_diaddr
    \/ iothread_disconnect_from_hostctrl \/ ForwardToHostctrl \/ iothread_destroy

IoReads == \E s \in Session : iothread_rcv_from_hostctrl(s)

EnvNext == ModuleAnswers \/ \E s \in Session : HostctrlTakes(s)

Next ==
    \/ MainCalls \/ MainReturns \/ StatusTimesOut \/ PacketTimesOut
    \/ IoNext \/ ObtainTimesOut \/ IoReads
    \/ EnvNext \/ \E s \in Session : ModuleSendsEvent(s)

Spec == Init /\ [][Next]_vars

(* Both threads are scheduled and the zloop serves every ready socket;     *)
(* the host controller forwards and the modules answer.                    *)
FairSpec ==
    /\ Spec
    /\ WF_vars(MainReturns) /\ WF_vars(IoNext)
    /\ \A s \in Session : /\ WF_vars(iothread_rcv_from_hostctrl(s))
                          /\ WF_vars(HostctrlTakes(s))
    /\ WF_vars(ModuleAnswers)

-----------------------------------------------------------------------------
(* Properties.                                                             *)

(* A register access that returns OSD_OK returns the answer to its own     *)
(* request, if no access of the same connection timed out before it.       *)
(* Timeouts, answers and events of earlier connections do not matter:      *)
(* osd_hostmod_disconnect discards what is queued, and its socket is gone. *)
AnswerMatches == last.rv = "OK" /\ ~last.late => last.got = last.id

(* No assertion of the host module fails if it has an event handler and no *)
(* status wait has timed out: no status message is taken for a packet, no  *)
(* event for a register response, and nothing is sent without a socket.    *)
(* Even if waits time out, the first message on a connection is its        *)
(* address and none follows. Without a handler only an event between a     *)
(* register request and its response is fatal.                             *)
NoAssertFails ==
    /\ TypeOK
    /\ statustimeouts = 0 /\ has_handler => abort = "no"
    /\ statustimeouts = 0 => abort \in {"no", "not_reg"}
    /\ abort # "mgmt"

(* A connected host module uses the address the controller gave to its     *)
(* present socket, and that socket is served by the zloop, if no status    *)
(* wait has timed out: after a timeout a second connect replaces the       *)
(* socket of the first while the late answer of the first still counts.    *)
AddressIsCurrent ==
    is_connected /\ mpc # "disconnect" /\ statustimeouts = 0 =>
        diaddr = sock /\ sock \in readers

(* A register access returns if the modules answer, also without the       *)
(* timeout that OSD_HOSTMOD_BLOCKING turns off, and even after connects or *)
(* disconnects whose status wait timed out.                                *)
AccessReturns == mpc = "reg" ~> mpc # "reg" \/ ~Alive \/ lost

(* A statement of the documentation that does not hold.  hostmod.h says of *)
(* osd_hostmod_reg_read: reg_val is the result of the register read.       *)
ReadReturnsRegister == last.rv = "OK" => last.got = last.id
=============================================================================
