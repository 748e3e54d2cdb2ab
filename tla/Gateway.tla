------------------------------ MODULE Gateway ------------------------------
(***************************************************************************)
(* The gateway (gateway.c) between a device and the host controller.  Three *)
(* threads share its context: the main thread with the osd_gateway_* calls, *)
(* the device RX thread that blocks in packet_read, and the host I/O worker *)
(* that owns the connection to the host controller and calls packet_write. *)
(* RX thread and worker are joined by a PAIR socket, inproc://devicerx.    *)
(*                                                                         *)
(* Every connect opens a new DEALER socket, called session here.  The host *)
(* controller (module HostCtrl) and the device are the environment.        *)
(***************************************************************************)
EXTENDS Integers, Sequences, FiniteSets

CONSTANTS
    MaxConnects,      \* bound: calls of osd_gateway_connect
    MaxFromDevice,    \* bound: packets read from the device
    MaxToDevice,      \* bound: packets the controller routes to the device
    MaxStatusTimeouts,\* bound: waits of the main thread that time out
    MaxReplyTimeouts, \* bound: waits for the controller that time out
    WriteMayFail      \* may packet_write fail on a connected device?

ASSUME GatewayAssumption ==
    /\ MaxConnects \in Nat /\ MaxFromDevice \in Nat /\ MaxToDevice \in Nat
    /\ MaxStatusTimeouts \in Nat /\ MaxReplyTimeouts \in Nat
    /\ WriteMayFail \in BOOLEAN

Session == 1 .. MaxConnects
Packet  == 1 .. MaxFromDevice      \* packets of the device, numbered as read

Cmd    == {"I-CONNECT", "I-DISCONNECT", "I-SHUTDOWN"}
Done(n, v) == [name |-> n, value |-> v]
Status == [name : {"I-CONNECT-DONE", "I-DISCONNECT-DONE", "I-SHUTDOWN-DONE"},
           value : {0, -1}]

(* Messages of the two ends of a session; a packet is its number.          *)
ToCtrl   == {[type |-> "GW_REGISTER"], [type |-> "GW_UNREGISTER"]}
              \cup [type : {"D"}, id : Packet]
FromCtrl == {"ACK", "NACK", "D"}

VARIABLES
    \* main thread
    hc,            \* is_connected_to_hostctrl
    dev,           \* is_connected_to_device
    mpc,           \* "idle", or where the main thread is
    then,          \* what follows a disconnect: "return", "connect" or "poll"
    connects, stimeouts,
    \* shared
    detected,      \* device_disconnect_detected
    to_io, to_main,\* PAIR socket of the worker
    \* device RX thread
    rxpc,          \* "none", "read", "send" or "ended"
    inhand,        \* the packet it has read and not yet sent, as a sequence
    rxsock,        \* is device_rx_socket of the gateway context open?
    pipe,          \* inproc://devicerx: "pending", "up" or "broken"
    devq,          \* packets inside it
    \* host I/O worker
    wpc,           \* where the worker is
    hsock,         \* session of usrctx->hostctrl_socket, 0 for NULL
    readers,       \* sessions whose socket is in the zloop
    sessions,      \* sockets opened so far
    rtimeouts,
    fwd,           \* packets forwarded to the controller
    abort,         \* why the process died
    \* environment
    devup,         \* is the device connected?
    nread, nwrite,
    toctrl, fromctrl,
    registered     \* session the controller knows as the gateway, 0 for none

callVars == <<hc, dev, mpc, then, connects, stimeouts>>
rxVars   == <<rxpc, inhand, rxsock, pipe, devq, nread>>
ioVars   == <<wpc, hsock, readers, sessions, rtimeouts>>
ctrlVars == <<toctrl, fromctrl, registered, nwrite>>
vars     == <<callVars, detected, to_io, to_main, rxVars, ioVars, fwd, abort,
              devup, ctrlVars>>

MainPc == {"idle", "join", "cancel", "hcdisc", "discwait", "connect", "connwait",
           "device", "free", "freed", "blocked"}
WorkerPc == {"loop", "register", "unregister", "lost", "flag", "ending", "closed",
             "ended"}
AbortReason == {"no", "not_mgmt", "no_socket"}

TypeOK ==
    /\ hc \in BOOLEAN /\ dev \in BOOLEAN /\ detected \in BOOLEAN
    /\ mpc \in MainPc /\ then \in {"return", "connect", "poll"}
    /\ connects \in 0 .. MaxConnects /\ stimeouts \in 0 .. MaxStatusTimeouts
    /\ to_io \in Seq(Cmd) /\ to_main \in Seq(Status)
    /\ rxpc \in {"none", "read", "send", "ended"} /\ rxsock \in BOOLEAN
    /\ inhand \in Seq(Packet) /\ Len(inhand) <= 1
    /\ pipe \in {"pending", "up", "broken"} /\ devq \in Seq(Packet)
    /\ wpc \in WorkerPc /\ hsock \in Session \cup {0} /\ readers \subseteq Session
    /\ sessions \in 0 .. MaxConnects /\ rtimeouts \in 0 .. MaxReplyTimeouts
    /\ fwd \in Seq(Packet) /\ abort \in AbortReason
    /\ devup \in BOOLEAN
    /\ nread \in 0 .. MaxFromDevice /\ nwrite \in 0 .. MaxToDevice
    /\ toctrl \in [Session -> Seq(ToCtrl)]
    /\ fromctrl \in [Session -> Seq(FromCtrl)]
    /\ registered \in Session \cup {0}

(* After osd_gateway_new: the worker has connected its end of the devicerx *)
(* pipe, which nobody has bound yet.                                       *)
Init ==
    /\ hc = FALSE /\ dev = FALSE /\ mpc = "idle" /\ then = "return"
    /\ connects = 0 /\ stimeouts = 0
    /\ detected = FALSE /\ to_io = <<>> /\ to_main = <<>>
    /\ rxpc = "none" /\ inhand = <<>> /\ rxsock = FALSE
    /\ pipe = "pending" /\ devq = <<>> /\ nread = 0
    /\ wpc = "loop" /\ hsock = 0 /\ readers = {} /\ sessions = 0 /\ rtimeouts = 0
    /\ fwd = <<>> /\ abort = "no" /\ devup = TRUE
    /\ toctrl = [s \in Session |-> <<>>] /\ fromctrl = [s \in Session |-> <<>>]
    /\ registered = 0 /\ nwrite = 0

Alive == abort = "no"
running == wpc # "ended"           \* worker_ctx.thread_is_running

-----------------------------------------------------------------------------
(* Main thread.  A call first cleans up after a lost device.               *)

(* Mutated form: connect does not look at the flag.                        *)
osd_gateway_connect_noTasks ==
    /\ Alive /\ mpc = "idle" /\ ~dev /\ connects < MaxConnects
    /\ connects' = connects + 1 /\ then' = "connect"
    /\ mpc' = "connect"
    /\ UNCHANGED <<hc, dev, stimeouts, detected, to_io, to_main, rxVars, ioVars,
                   fwd, abort, devup, ctrlVars>>

osd_gateway_connect ==
    /\ Alive /\ mpc = "idle" /\ ~dev /\ connects < MaxConnects
    /\ connects' = connects + 1 /\ then' = "connect"
    /\ mpc' = IF detected THEN "join" ELSE "connect"
    /\ UNCHANGED <<hc, dev, stimeouts, detected, to_io, to_main, rxVars, ioVars,
                   fwd, abort, devup, ctrlVars>>

(* Without an outstanding task the call only reads.                        *)
osd_gateway_is_connected ==
    /\ Alive /\ mpc = "idle" /\ detected
    /\ mpc' = "join" /\ then' = "poll"
    /\ UNCHANGED <<hc, dev, connects, stimeouts, detected, to_io, to_main, rxVars,
                   ioVars, fwd, abort, devup, ctrlVars>>

osd_gateway_disconnect ==
    /\ Alive /\ mpc = "idle" /\ (hc \/ dev)
    /\ mpc' = "join" /\ then' = "return"
    /\ UNCHANGED <<hc, dev, connects, stimeouts, detected, to_io, to_main, rxVars,
                   ioVars, fwd, abort, devup, ctrlVars>>

(* The RX thread has been joined: its socket goes, and with it the pipe.   *)
DeviceLeft ==
    /\ dev' = FALSE /\ rxsock' = FALSE /\ rxpc' = "none" /\ inhand' = <<>>
    /\ pipe' = "broken"
    /\ mpc' = "hcdisc"

disconnect_from_device ==
    /\ Alive
    /\ \/ /\ mpc = "join" /\ ~dev
          /\ mpc' = "hcdisc"
          /\ UNCHANGED <<dev, rxsock, rxpc, inhand, pipe>>
       \/ mpc \in {"join", "cancel"} /\ dev /\ rxpc = "ended" /\ DeviceLeft
    /\ UNCHANGED <<hc, then, connects, stimeouts, detected, to_io, to_main, devq,
                   nread, ioVars, fwd, abort, devup, ctrlVars>>

(* Mutated form: the cancelled thread is not joined.                       *)
JoinTimesOut_noJoin ==
    /\ Alive /\ mpc = "join" /\ dev /\ rxpc # "ended"
    /\ mpc' = "hcdisc" /\ dev' = FALSE /\ rxsock' = FALSE /\ pipe' = "broken"
    /\ UNCHANGED <<hc, then, connects, stimeouts, detected, to_io, to_main, rxpc,
                   inhand, devq, nread, ioVars, fwd, abort, devup, ctrlVars>>

(* Mutated form: the join is repeated instead of cancelling the thread.    *)
JoinTimesOut_noCancel ==
    /\ Alive /\ mpc = "join" /\ dev /\ rxpc # "ended"
    /\ UNCHANGED vars

(* The thread does not end within DEVICE_DISCONNECT_TIMEOUT_SECONDS: it is *)
(* cancelled, then joined.                                                 *)
JoinTimesOut ==
    /\ Alive /\ mpc = "join" /\ dev /\ rxpc # "ended"
    /\ mpc' = "cancel"
    /\ UNCHANGED <<hc, dev, then, connects, stimeouts, detected, to_io, to_main,
                   rxVars, ioVars, fwd, abort, devup, ctrlVars>>

(* End of osd_gateway_disconnect, whatever became of its two parts, and of *)
(* perform_outstanding_main_thread_tasks if that called it.                *)
Disconnected ==
    /\ detected' = IF then = "return" THEN detected ELSE FALSE
    /\ mpc' = IF then = "connect" THEN "connect" ELSE "idle"

(* worker_main_send_status.  The peer socket is destroyed shortly before   *)
(* thread_is_running is reset; a send in between never returns.            *)
SendToWorker(c, next) ==
    IF wpc = "closed" THEN mpc' = "blocked" /\ UNCHANGED to_io
                      ELSE mpc' = next /\ to_io' = Append(to_io, c)

disconnect_from_hostctrl ==
    /\ Alive /\ mpc = "hcdisc"
    /\ \/ ~hc /\ Disconnected /\ UNCHANGED <<hc, to_io>>
       \/ hc /\ ~running /\ hc' = FALSE /\ Disconnected /\ UNCHANGED to_io
       \/ /\ hc /\ running
          /\ SendToWorker("I-DISCONNECT", "discwait")
          /\ UNCHANGED <<hc, detected>>
    /\ UNCHANGED <<dev, then, connects, stimeouts, to_main, rxVars, ioVars, fwd,
                   abort, devup, ctrlVars>>

(* Mutated form: the gateway still counts as connected.                    *)
DisconnectReceived_keepsFlag ==
    /\ Alive /\ mpc = "discwait" /\ to_main # <<>>
    /\ to_main' = Tail(to_main)
    /\ Disconnected
    /\ UNCHANGED <<hc, dev, then, connects, stimeouts, to_io, rxVars, ioVars, fwd, abort,
                   devup, ctrlVars>>

DisconnectReceived ==
    /\ Alive /\ mpc = "discwait" /\ to_main # <<>>
    /\ to_main' = Tail(to_main)
    /\ hc' = (Head(to_main).name # "I-DISCONNECT-DONE")
    /\ Disconnected
    /\ UNCHANGED <<dev, then, connects, stimeouts, to_io, rxVars, ioVars, fwd, abort,
                   devup, ctrlVars>>

connect_to_hostctrl ==
    /\ Alive /\ mpc = "connect"
    /\ \/ hc /\ mpc' = "device" /\ UNCHANGED to_io
       \/ ~hc /\ ~running /\ mpc' = "idle" /\ UNCHANGED to_io
       \/ ~hc /\ running /\ SendToWorker("I-CONNECT", "connwait")
    /\ UNCHANGED <<hc, dev, then, connects, stimeouts, detected, to_main, rxVars,
                   ioVars, fwd, abort, devup, ctrlVars>>

ConnectReceived ==
    /\ Alive /\ mpc = "connwait" /\ to_main # <<>>
    /\ to_main' = Tail(to_main)
    /\ hc' = (Head(to_main) = Done("I-CONNECT-DONE", 0))
    /\ mpc' = IF hc' THEN "device" ELSE "idle"
    /\ UNCHANGED <<dev, then, connects, stimeouts, detected, to_io, rxVars, ioVars,
                   fwd, abort, devup, ctrlVars>>

(* worker_wait_for_status gives up.                                        *)
StatusTimesOut ==
    /\ Alive /\ to_main = <<>> /\ stimeouts < MaxStatusTimeouts
    /\ stimeouts' = stimeouts + 1
    /\ \/ mpc = "discwait" /\ Disconnected
       \/ mpc = "connwait" /\ mpc' = "idle" /\ UNCHANGED detected
    /\ UNCHANGED <<hc, dev, then, connects, to_io, to_main, rxVars, ioVars, fwd,
                   abort, devup, ctrlVars>>

(* Binds inproc://devicerx and starts the RX thread.  A connect that waits *)
(* for the name is served; a pipe that broke does not come back.           *)
connect_to_device ==
    /\ Alive /\ mpc = "device"
    /\ rxsock' = TRUE /\ rxpc' = "read" /\ dev' = TRUE
    /\ pipe' = IF pipe = "pending" THEN "up" ELSE pipe
    /\ mpc' = "idle"
    /\ UNCHANGED <<hc, then, connects, stimeouts, detected, to_io, to_main, inhand,
                   devq, nread, ioVars, fwd, abort, devup, ctrlVars>>

(* worker_free, in detail in module Worker.                                *)
osd_gateway_free ==
    /\ Alive /\ mpc = "idle" /\ ~dev
    /\ \/ ~running /\ mpc' = "freed" /\ UNCHANGED to_io
       \/ running /\ SendToWorker("I-SHUTDOWN", "free")
    /\ UNCHANGED <<hc, dev, then, connects, stimeouts, detected, to_main, rxVars,
                   ioVars, fwd, abort, devup, ctrlVars>>

FreeReturns ==
    /\ Alive /\ mpc = "free" /\ ~running
    /\ mpc' = "freed"
    /\ UNCHANGED <<hc, dev, then, connects, stimeouts, detected, to_io, to_main,
                   rxVars, ioVars, fwd, abort, devup, ctrlVars>>

-----------------------------------------------------------------------------
(* Device RX thread.                                                       *)

(* Mutated form: the thread ends without asking for a cleanup.             *)
RxReads_noFlag ==
    /\ Alive /\ rxpc = "read"
    /\ \/ /\ devup /\ nread < MaxFromDevice
          /\ nread' = nread + 1 /\ inhand' = <<nread + 1>>
          /\ rxpc' = "send"
       \/ ~devup /\ rxpc' = "ended" /\ UNCHANGED <<nread, inhand>>
    /\ UNCHANGED <<callVars, detected, to_io, to_main, rxsock, pipe, devq, ioVars,
                   fwd, abort, devup, ctrlVars>>

(* packet_read: a packet, or OSD_ERROR_NOT_CONNECTED; after any other      *)
(* error the thread tries again.                                           *)
RxReads ==
    /\ Alive /\ rxpc = "read"
    /\ \/ /\ devup /\ nread < MaxFromDevice
          /\ nread' = nread + 1 /\ inhand' = <<nread + 1>>
          /\ rxpc' = "send"
          /\ UNCHANGED detected
       \/ /\ ~devup
          /\ detected' = TRUE
          /\ rxpc' = "ended"
          /\ UNCHANGED <<nread, inhand>>
    /\ UNCHANGED <<callVars, to_io, to_main, rxsock, pipe, devq, ioVars, fwd, abort,
                   devup, ctrlVars>>

(* zmsg_send on a PAIR socket blocks without a peer.                       *)
RxSends ==
    /\ Alive /\ rxpc = "send" /\ pipe = "up"
    /\ devq' = devq \o inhand /\ inhand' = <<>>
    /\ rxpc' = "read"
    /\ UNCHANGED <<callVars, detected, to_io, to_main, rxsock, pipe, nread, ioVars,
                   fwd, abort, devup, ctrlVars>>

(* Deferred cancellation in packet_read or zmsg_send.                      *)
RxCancelled ==
    /\ Alive /\ mpc = "cancel" /\ rxpc \in {"read", "send"}
    /\ rxpc' = "ended"
    /\ UNCHANGED <<callVars, detected, to_io, to_main, inhand, rxsock, pipe, devq,
                   nread, ioVars, fwd, abort, devup, ctrlVars>>

-----------------------------------------------------------------------------
(* Host I/O worker.                                                        *)

FromMain(c) ==
    /\ Alive /\ wpc = "loop" /\ to_io # <<>> /\ Head(to_io) = c
    /\ to_io' = Tail(to_io)

SendMain(m) == to_main' = Append(to_main, m)

(* zsock_destroy without linger: what the transport has not taken is lost. *)
CloseSocket ==
    /\ hsock' = 0
    /\ \E k \in 0 .. Len(toctrl[hsock]) :
          toctrl' = [toctrl EXCEPT ![hsock] = SubSeq(@, 1, k)]
    /\ fromctrl' = [fromctrl EXCEPT ![hsock] = <<>>]

(* Opens a socket, registers as gateway and blocks for the answer.         *)
hostiothread_connect_to_hostctrl ==
    /\ FromMain("I-CONNECT")
    /\ \/ /\ sessions < MaxConnects
          /\ sessions' = sessions + 1 /\ hsock' = sessions + 1
          /\ toctrl' = [toctrl EXCEPT ![sessions + 1] =
                           Append(@, [type |-> "GW_REGISTER"])]
          /\ wpc' = "register"
          /\ UNCHANGED to_main
       \/ /\ hsock' = 0                   \* no socket for this endpoint
          /\ SendMain(Done("I-CONNECT-DONE", -1))
          /\ UNCHANGED <<sessions, toctrl, wpc>>
    /\ UNCHANGED <<callVars, detected, rxVars, readers, rtimeouts, fwd, abort,
                   devup, fromctrl, registered, nwrite>>

(* The rest of it after the answer.                                        *)
hostiothread_register_gw ==
    /\ Alive /\ wpc = "register" /\ fromctrl[hsock] # <<>>
    /\ wpc' = "loop"
    /\ \/ /\ Head(fromctrl[hsock]) = "ACK"
          /\ fromctrl' = [fromctrl EXCEPT ![hsock] = Tail(@)]
          /\ readers' = readers \cup {hsock}
          /\ SendMain(Done("I-CONNECT-DONE", 0))
          /\ UNCHANGED <<hsock, toctrl>>
       \/ /\ Head(fromctrl[hsock]) = "NACK"
          /\ CloseSocket
          /\ SendMain(Done("I-CONNECT-DONE", -1))
          /\ UNCHANGED readers
    /\ UNCHANGED <<callVars, detected, to_io, rxVars, sessions, rtimeouts, fwd,
                   abort, devup, registered, nwrite>>

RegisterTimesOut ==
    /\ Alive /\ wpc = "register" /\ fromctrl[hsock] = <<>>
    /\ rtimeouts < MaxReplyTimeouts /\ rtimeouts' = rtimeouts + 1
    /\ wpc' = "loop"
    /\ CloseSocket
    /\ SendMain(Done("I-CONNECT-DONE", -1))
    /\ UNCHANGED <<callVars, detected, to_io, rxVars, readers, sessions, fwd, abort,
                   devup, registered, nwrite>>

(* First half of hostiothread_disconnect_from_hostctrl; without a socket   *)
(* zloop_reader_end aborts.                                                *)
StartDisconnect(next) ==
    \/ /\ hsock # 0
       /\ readers' = readers \ {hsock}
       /\ toctrl' = [toctrl EXCEPT ![hsock] =
                        Append(@, [type |-> "GW_UNREGISTER"])]
       /\ wpc' = next
       /\ UNCHANGED abort
    \/ /\ hsock = 0
       /\ abort' = "no_socket"
       /\ UNCHANGED <<readers, toctrl, wpc>>

(* Mutated form: the socket is closed without GW_UNREGISTER.               *)
HandleDisconnect_noUnregister ==
    /\ FromMain("I-DISCONNECT") /\ hsock # 0
    /\ readers' = readers \ {hsock}
    /\ CloseSocket
    /\ SendMain(Done("I-DISCONNECT-DONE", 0))
    /\ UNCHANGED <<callVars, detected, rxVars, wpc, sessions, rtimeouts, fwd, abort,
                   devup, registered, nwrite>>

HandleDisconnect ==
    /\ FromMain("I-DISCONNECT")
    /\ StartDisconnect("unregister")
    /\ UNCHANGED <<callVars, detected, to_main, rxVars, hsock, sessions, rtimeouts,
                   fwd, devup, fromctrl, registered, nwrite>>

(* Second half: whatever the answer, the socket is closed.                 *)
EndDisconnect ==
    /\ CloseSocket
    /\ SendMain(Done("I-DISCONNECT-DONE", 0))
    /\ wpc' = IF wpc = "lost" THEN "flag" ELSE "loop"

(* The answer is asserted to be a management message.                      *)
hostiothread_unregister_gw ==
    /\ Alive /\ wpc \in {"unregister", "lost"} /\ fromctrl[hsock] # <<>>
    /\ \/ /\ Head(fromctrl[hsock]) = "D"
          /\ abort' = "not_mgmt"
          /\ UNCHANGED <<hsock, toctrl, fromctrl, to_main, wpc>>
       \/ /\ Head(fromctrl[hsock]) # "D"
          /\ EndDisconnect
          /\ UNCHANGED abort
    /\ UNCHANGED <<callVars, detected, to_io, rxVars, readers, sessions, rtimeouts,
                   fwd, devup, registered, nwrite>>

UnregisterTimesOut ==
    /\ Alive /\ wpc \in {"unregister", "lost"} /\ fromctrl[hsock] = <<>>
    /\ rtimeouts < MaxReplyTimeouts /\ rtimeouts' = rtimeouts + 1
    /\ EndDisconnect
    /\ UNCHANGED <<callVars, detected, to_io, rxVars, readers, sessions, fwd, abort,
                   devup, registered, nwrite>>

(* A packet for the device.  If packet_write fails, for whatever reason,   *)
(* the worker leaves the host controller by itself.                        *)
hostiothread_rcv_from_hostctrl(s) ==
    /\ Alive /\ wpc = "loop" /\ s \in readers /\ fromctrl[s] # <<>>
    /\ fromctrl' = [fromctrl EXCEPT ![s] = Tail(@)]
    /\ \/ devup /\ UNCHANGED <<readers, toctrl, wpc, abort>>
       \/ (~devup \/ WriteMayFail) /\ StartDisconnect("lost")
    /\ UNCHANGED <<callVars, detected, to_io, to_main, rxVars, hsock, sessions,
                   rtimeouts, fwd, devup, registered, nwrite>>

(* The flag is raised after I-DISCONNECT-DONE; then the zloop ends.        *)
FlagDeviceLoss ==
    /\ Alive /\ wpc = "flag"
    /\ detected' = TRUE
    /\ wpc' = "ending"
    /\ UNCHANGED <<callVars, to_io, to_main, rxVars, hsock, readers, sessions,
                   rtimeouts, fwd, abort, devup, ctrlVars>>

(* Mutated form: the packet stays in the pipe when it has been sent.       *)
forward_devicerx_to_hostctrl_keeps ==
    /\ Alive /\ wpc = "loop" /\ devq # <<>> /\ hsock # 0 /\ Len(fwd) < MaxFromDevice
    /\ toctrl' = [toctrl EXCEPT ![hsock] =
                     Append(@, [type |-> "D", id |-> Head(devq)])]
    /\ fwd' = Append(fwd, Head(devq))
    /\ UNCHANGED <<callVars, detected, to_io, to_main, rxVars, ioVars, devup, abort,
                   fromctrl, registered, nwrite>>

forward_devicerx_to_hostctrl ==
    /\ Alive /\ wpc = "loop" /\ devq # <<>>
    /\ devq' = Tail(devq)
    /\ \/ /\ hsock # 0
          /\ toctrl' = [toctrl EXCEPT ![hsock] =
                           Append(@, [type |-> "D", id |-> Head(devq)])]
          /\ fwd' = Append(fwd, Head(devq))
          /\ UNCHANGED abort
       \/ hsock = 0 /\ abort' = "no_socket" /\ UNCHANGED <<toctrl, fwd>>
    /\ UNCHANGED <<callVars, detected, to_io, to_main, rxpc, inhand, rxsock, pipe,
                   nread, ioVars, devup, fromctrl, registered, nwrite>>

HandleShutdown ==
    /\ FromMain("I-SHUTDOWN")
    /\ wpc' = "ending"
    /\ UNCHANGED <<callVars, detected, to_main, rxVars, hsock, readers, sessions,
                   rtimeouts, fwd, abort, devup, ctrlVars>>

(* hostiothread_destroy, I-SHUTDOWN-DONE, and the end of both sockets.     *)
hostiothread_destroy ==
    /\ Alive /\ wpc = "ending"
    /\ wpc' = "closed"
    /\ pipe' = "broken" /\ devq' = <<>>
    /\ SendMain(Done("I-SHUTDOWN-DONE", 0))
    /\ to_io' = <<>>
    /\ UNCHANGED <<callVars, detected, rxpc, inhand, rxsock, nread, hsock, readers,
                   sessions, rtimeouts, fwd, abort, devup, ctrlVars>>

WorkerExits ==
    /\ Alive /\ wpc = "closed"
    /\ wpc' = "ended"
    /\ UNCHANGED <<callVars, detected, to_io, to_main, rxVars, hsock, readers,
                   sessions, rtimeouts, fwd, abort, devup, ctrlVars>>

-----------------------------------------------------------------------------
(* Environment: the device ...                                             *)

(* The connection drops, or the application closes it to end the RX thread.*)
DeviceLost ==
    /\ devup /\ devup' = FALSE
    /\ UNCHANGED <<callVars, detected, to_io, to_main, rxVars, ioVars, fwd, abort,
                   ctrlVars>>

(* The application opens the device before it calls osd_gateway_connect.   *)
DeviceReturns ==
    /\ ~devup /\ ~dev /\ mpc = "idle" /\ devup' = TRUE
    /\ UNCHANGED <<callVars, detected, to_io, to_main, rxVars, ioVars, fwd, abort,
                   ctrlVars>>

(* ... and the host controller, which knows one gateway for the subnet and *)
(* does not see sessions end.                                              *)

IsOpen(s) == s = hsock \/ s \in readers

Reply(s, m) ==
    fromctrl' = IF IsOpen(s) THEN [fromctrl EXCEPT ![s] = Append(@, m)]
                             ELSE fromctrl

HostctrlTakes(s) ==
    /\ toctrl[s] # <<>>
    /\ toctrl' = [toctrl EXCEPT ![s] = Tail(@)]
    /\ LET m == Head(toctrl[s])
           granted == registered = IF m.type = "GW_REGISTER" THEN 0 ELSE s
       IN  \/ m.type = "D" /\ UNCHANGED <<fromctrl, registered>>
           \/ /\ m.type # "D"
              /\ Reply(s, IF granted THEN "ACK" ELSE "NACK")
              /\ registered' = IF ~granted THEN registered
                               ELSE IF m.type = "GW_REGISTER" THEN s ELSE 0
    /\ UNCHANGED <<callVars, detected, to_io, to_main, rxVars, ioVars, fwd, abort,
                   devup, nwrite>>

HostctrlRoutes ==
    /\ registered # 0 /\ nwrite < MaxToDevice
    /\ nwrite' = nwrite + 1
    /\ Reply(registered, "D")
    /\ UNCHANGED <<callVars, detected, to_io, to_main, rxVars, ioVars, fwd, abort,
                   devup, toctrl, registered>>

-----------------------------------------------------------------------------
MainCalls == osd_gateway_connect \/ osd_gateway_disconnect \/ osd_gateway_free

MainNext ==
    \/ disconnect_from_device \/ disconnect_from_hostctrl \/ DisconnectReceived
    \/ connect_to_hostctrl \/ ConnectReceived \/ connect_to_device \/ FreeReturns

RxNext == RxReads \/ RxSends \/ RxCancelled

WorkerNext ==
    \/ hostiothread_connect_to_hostctrl \/ hostiothread_register_gw
    \/ HandleDisconnect \/ hostiothread_unregister_gw \/ HandleShutdown
    \/ FlagDeviceLoss \/ hostiothread_destroy \/ WorkerExits

Next ==
    \/ MainCalls \/ osd_gateway_is_connected \/ MainNext
    \/ JoinTimesOut \/ StatusTimesOut
    \/ RxNext \/ WorkerNext \/ RegisterTimesOut \/ UnregisterTimesOut
    \/ forward_devicerx_to_hostctrl
    \/ \E s \in Session : hostiothread_rcv_from_hostctrl(s) \/ HostctrlTakes(s)
    \/ HostctrlRoutes \/ DeviceLost \/ DeviceReturns

Spec == Init /\ [][Next]_vars

(* The threads are scheduled, timed joins time out, the zloop serves every *)
(* ready socket and the controller answers.                                *)
FairSpec ==
    /\ Spec
    /\ WF_vars(MainNext) /\ WF_vars(JoinTimesOut)
    /\ WF_vars(RxNext) /\ WF_vars(WorkerNext)
    /\ WF_vars(forward_devicerx_to_hostctrl)
    /\ \A s \in Session : /\ WF_vars(hostiothread_rcv_from_hostctrl(s))
                          /\ WF_vars(HostctrlTakes(s))

-----------------------------------------------------------------------------
(* Properties.                                                             *)

(* The RX thread only runs while the gateway counts as connected to the    *)
(* device, and the socket it sends on is open: disconnect_from_device      *)
(* joins the thread, cancelled or not, before it destroys the socket.      *)
RxThreadHasSocket == TypeOK /\ (rxpc \in {"read", "send"} => dev /\ rxsock)

(* An assertion of the gateway fails only while packets are under way or   *)
(* after a status wait timed out. A packet routed to the device is fatal   *)
(* in front of the reply to GW_UNREGISTER, one read from the device when   *)
(* the worker gets to it after it has closed its socket; connects,         *)
(* disconnects, losses and lost replies alone are not.                     *)
AbortsOnlyWithTraffic ==
    /\ abort = "not_mgmt" => nwrite > 0
    /\ abort = "no_socket" => nread > 0 \/ stimeouts > 0

(* As long as no wait timed out, what the API says and what the host       *)
(* controller knows agree between two calls: the session of a connected    *)
(* gateway is registered and read, a disconnected one left no entry, after *)
(* an orderly disconnect or after either kind of device loss.              *)
RegistrationFollowsConnection ==
    (mpc = "idle" /\ Alive /\ stimeouts = 0 /\ rtimeouts = 0
       /\ wpc \in {"loop", "ended"}) =>
        \/ hc /\ wpc = "loop" /\ registered = hsock /\ hsock \in readers
        \/ hc /\ wpc = "ended" /\ detected /\ registered = 0
        \/ ~hc /\ registered = 0

(* On the first connection of a gateway every packet read from the device  *)
(* is, in the order it was read, with the RX thread, in the pipe or        *)
(* forwarded, once: two threads and two queues lose and reorder nothing.   *)
ForwardedInOrder ==
    pipe = "up" /\ Alive => fwd \o devq \o inhand = [i \in 1 .. nread |-> i]

(* A loss flag left over from an earlier connection never takes down a     *)
(* healthy one: whenever a call would act on it, one of the threads of the *)
(* present connection has really given up, whatever waits timed out.       *)
LossFlagIsCurrent ==
    mpc = "idle" /\ dev /\ detected =>
        rxpc = "ended" \/ wpc \in {"ending", "closed", "ended"}

(* osd_gateway_disconnect returns even if the device never lets go of the  *)
(* RX thread, or the RX thread of its pipe.  The one exception is a send   *)
(* to a worker that is ending by itself (see FreeCompletes in Worker).     *)
DisconnectReturns ==
    mpc \in {"join", "cancel", "hcdisc", "discwait"} ~>
        mpc \in {"idle", "connect", "blocked"} \/ ~Alive

(* The two cases of device loss in the design notes, on the first          *)
(* connection: when packet_read or packet_write notices that the device is *)
(* gone, an application that goes on calling the gateway finds it          *)
(* disconnected from both sides, unless a status wait timed out or the     *)
(* worker is ending as above.  (A later connection has no working pipe:    *)
(* see DataIsForwarded.)                                                   *)
LossIsCleanedUp ==
    dev /\ ~devup /\ pipe = "up" ~>
        (~dev /\ ~hc) \/ stimeouts > 0 \/ mpc = "blocked" \/ ~Alive

(* A statement of the code that does not hold: the worker is "forwarding   *)
(* data read from the device to the host controller", so a packet the RX   *)
(* thread has in hand gets there, unless the gateway is told to disconnect.*)
DataIsForwarded ==
    rxpc = "send" ~> rxpc # "send" \/ mpc \in {"join", "cancel"} \/ ~Alive
=============================================================================
