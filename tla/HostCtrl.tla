------------------------------ MODULE HostCtrl ------------------------------
(***************************************************************************)
(* The host controller (hostctrl.c): the router every host tool connects   *)
(* to.  It hands out addresses in its DI subnet, records which host is the *)
(* gateway of another subnet, and routes DI packets with these two tables. *)
(*                                                                         *)
(* Three kinds of actors take steps: the application's main thread (the    *)
(* osd_hostctrl_* functions), the I/O worker thread (the iothread_*        *)
(* handlers, each one zloop callback and thus one action), and the hosts,  *)
(* of which only the behaviour on the wire is modelled (hostmod.c and      *)
(* gateway.c send one management request at a time and wait for its        *)
(* reply).  A failing assert() ends the process and is recorded in abort.  *)
(***************************************************************************)
EXTENDS Integers, Sequences, FiniteSets

CONSTANTS
    Host,         \* ZeroMQ identities; every connect of a DEALER is a new one
    NULL,         \* an empty table entry
    LOCAL_MAX,    \* OSD_DIADDR_LOCAL_MAX (1023 in the code)
    SUBNET_MAX,   \* OSD_DIADDR_SUBNET_MAX (63 in the code)
    SUBNET_ADDR,  \* the controller's own subnet (always 1 in the code)
    Inputs,       \* bound: the messages hosts send
    MaxMsgs,      \* bound: messages sent by one host
    MaxStarts,    \* bound: calls of osd_hostctrl_start
    MaxTimeouts,  \* bound: status waits of the main thread that time out
    MayVanish     \* hosts may leave while they are registered

LocalAddr == 0 .. LOCAL_MAX
Subnet    == 0 .. SUBNET_MAX
DiAddr    == [subnet : Subnet, local : LocalAddr]

-----------------------------------------------------------------------------
(* Messages.  "M" frames carry management requests and their replies, "D"  *)
(* frames DI packets; an "X" message is one the controller drops without   *)
(* looking a destination up: an unknown type frame or an undecodable DI    *)
(* packet.                                                                 *)

ReqName  == {"DIADDR_REQUEST", "DIADDR_RELEASE", "GW_REGISTER",
             "GW_UNREGISTER", "UNKNOWN"}
Request  == [type : {"M"}, req : ReqName, subnet : Subnet]
Packet   == [type : {"D"}, dest : DiAddr]
Junk     == [type |-> "X"]
Reply    == [type : {"M"}, status : {"ADDR", "ACK", "NACK"}, addr : LocalAddr]

Req(r, s)   == [type |-> "M", req |-> r, subnet |-> s]
NoReq       == [type |-> "M", req |-> "NONE", subnet |-> 0]
Ack         == [type |-> "M", status |-> "ACK", addr |-> 0]
Nack        == [type |-> "M", status |-> "NACK", addr |-> 0]
AddrReply(a) == [type |-> "M", status |-> "ADDR", addr |-> a]

ASSUME HostCtrlAssumption ==
    /\ NULL \notin Host
    /\ LOCAL_MAX \in Nat \ {0}
    /\ SUBNET_MAX \in Nat \ {0}
    /\ SUBNET_ADDR \in Subnet
    /\ Inputs \subseteq Request \cup Packet \cup {Junk}
    /\ MaxMsgs \in Nat /\ MaxStarts \in Nat /\ MaxTimeouts \in Nat
    /\ MayVanish \in BOOLEAN

(* Reasons for which the process ends in a failed assert().                *)
AbortReason == {"no", "pool", "unroutable", "reader"}

(* Status messages of the inproc PAIR socket; values as in osd.h.          *)
OSD_OK == 0
OSD_ERROR_CONNECTION_FAILED == -9
StatusMsg == [name : {"I-START-DONE", "I-STOP-DONE"},
              value : {OSD_OK, OSD_ERROR_CONNECTION_FAILED}]

Status(n, v) == [name |-> n, value |-> v]

VARIABLES
    \* I/O thread: struct iothread_usr_ctx
    mods_in_subnet,  \* local address -> host identity or NULL
    gateways,        \* subnet -> host identity or NULL
    router_socket,   \* is usrctx->router_socket non-NULL?
    listening,       \* is a bound ROUTER socket registered in the zloop?
    io_running,      \* does the worker thread run?
    \* main thread: struct osd_hostctrl_ctx
    is_running,      \* ctx->is_running
    mpc,             \* what the main thread waits for
    starts, timeouts,\* calls and timeouts so far (bounds)
    to_io, to_main,  \* the two directions of the inproc PAIR socket
    abort,           \* why the process died ("no" while it is alive)
    \* hosts, as far as the controller can see them
    hstate,          \* "new", "up" or "gone"
    inq, outq,       \* messages from and to a host, in order
    sent,            \* messages a host has sent (bound)
    pend,            \* its management request without a reply yet
    held,            \* the DI address it was told it has
    gwof             \* the subnets it was told it is gateway of

ioVars   == <<mods_in_subnet, gateways, router_socket, listening, io_running>>
mainVars == <<is_running, mpc, starts, timeouts>>
hostVars == <<hstate, inq, outq, sent, pend, held, gwof>>
vars     == <<ioVars, mainVars, to_io, to_main, abort, hostVars>>

TypeOK ==
    /\ mods_in_subnet \in [LocalAddr -> Host \cup {NULL}]
    /\ gateways \in [Subnet -> Host \cup {NULL}]
    /\ router_socket \in BOOLEAN /\ listening \in BOOLEAN
    /\ io_running \in BOOLEAN /\ is_running \in BOOLEAN
    /\ mpc \in {"idle", "starting", "stopping", "freeing", "freed"}
    /\ starts \in Nat /\ timeouts \in Nat
    /\ to_io \in Seq({"I-START", "I-STOP", "I-SHUTDOWN"})
    /\ to_main \in Seq(StatusMsg)
    /\ abort \in AbortReason
    /\ hstate \in [Host -> {"new", "up", "gone"}]
    /\ inq \in [Host -> Seq(Request \cup Packet \cup {Junk})]
    /\ outq \in [Host -> Seq(Reply \cup Packet)]
    /\ sent \in [Host -> Nat]
    /\ pend \in [Host -> Request \cup {NoReq}]
    /\ held \in [Host -> LocalAddr]
    /\ gwof \in [Host -> SUBSET Subnet]

(* The state after osd_hostctrl_new: empty tables, idle worker.            *)
Init ==
    /\ mods_in_subnet = [a \in LocalAddr |-> NULL]
    /\ gateways = [s \in Subnet |-> NULL]
    /\ router_socket = FALSE /\ listening = FALSE /\ io_running = TRUE
    /\ is_running = FALSE /\ mpc = "idle" /\ starts = 0 /\ timeouts = 0
    /\ to_io = <<>> /\ to_main = <<>> /\ abort = "no"
    /\ hstate = [h \in Host |-> "new"]
    /\ inq = [h \in Host |-> <<>>] /\ outq = [h \in Host |-> <<>>]
    /\ sent = [h \in Host |-> 0]
    /\ pend = [h \in Host |-> NoReq]
    /\ held = [h \in Host |-> 0] /\ gwof = [h \in Host |-> {}]

Alive == abort = "no"

-----------------------------------------------------------------------------
(* I/O thread: lookup tables.                                              *)

(* Mutated form: the search does not look at the table.                    *)
FreeAddrs_unchecked == 1 .. LOCAL_MAX

FreeAddrs == {a \in 1 .. LOCAL_MAX : mods_in_subnet[a] = NULL}

(* The address the loop over 1 .. OSD_DIADDR_LOCAL_MAX stops at.           *)
IsAvailableDiaddr(a) ==
    /\ a \in FreeAddrs
    /\ \A b \in FreeAddrs : a <= b

(* Addresses mgmt_diaddr_release finds for a host: its loop ends before    *)
(* OSD_DIADDR_SUBNET_MAX, not after OSD_DIADDR_LOCAL_MAX.                  *)
ReleasableAddrs(h) ==
    {a \in 1 .. LOCAL_MAX : a < SUBNET_MAX /\ mods_in_subnet[a] = h}

IsReleasedDiaddr(h, a) ==
    /\ a \in ReleasableAddrs(h)
    /\ \A b \in ReleasableAddrs(h) : a <= b

(* zmsg_send to one peer of the ROUTER socket.  The result of sending a    *)
(* reply is ignored, so a reply to a host that has left is lost.           *)
SendReply(h, m) ==
    outq' = IF hstate[h] = "up" THEN [outq EXCEPT ![h] = Append(@, m)]
                                ELSE outq

mgmt_diaddr_request(h) ==
    \/ \E a \in 1 .. LOCAL_MAX :
          /\ IsAvailableDiaddr(a)
          /\ mods_in_subnet' = [mods_in_subnet EXCEPT ![a] = h]
          /\ SendReply(h, AddrReply(a))
          /\ UNCHANGED <<gateways, abort>>
    \/ /\ FreeAddrs = {}
       /\ abort' = "pool"
       /\ UNCHANGED <<mods_in_subnet, gateways, outq>>

(* Mutated form: no return after the NACK.                                 *)
mgmt_diaddr_release_fallsThrough(h) ==
    /\ UNCHANGED <<gateways, abort>>
    /\ \/ /\ ReleasableAddrs(h) = {} /\ hstate[h] = "up"
          /\ outq' = [outq EXCEPT ![h] = @ \o <<Nack, Ack>>]
          /\ UNCHANGED mods_in_subnet
       \/ \E a \in 1 .. LOCAL_MAX :
             /\ IsReleasedDiaddr(h, a)
             /\ mods_in_subnet' = [mods_in_subnet EXCEPT ![a] = NULL]
             /\ SendReply(h, Ack)

(* Mutated form: acknowledged, but the entry stays in the table.           *)
mgmt_diaddr_release_keepsEntry(h) ==
    /\ SendReply(h, IF ReleasableAddrs(h) = {} THEN Nack ELSE Ack)
    /\ UNCHANGED <<mods_in_subnet, gateways, abort>>

mgmt_diaddr_release(h) ==
    /\ UNCHANGED <<gateways, abort>>
    /\ \/ /\ ReleasableAddrs(h) = {}
          /\ SendReply(h, Nack)
          /\ UNCHANGED mods_in_subnet
       \/ \E a \in 1 .. LOCAL_MAX :
             /\ IsReleasedDiaddr(h, a)
             /\ mods_in_subnet' = [mods_in_subnet EXCEPT ![a] = NULL]
             /\ SendReply(h, Ack)

(* Mutated form: a second gateway replaces the first.                      *)
mgmt_gw_register_replaces(h, s) ==
    /\ gateways' = [gateways EXCEPT ![s] = h]
    /\ SendReply(h, Ack)
    /\ UNCHANGED <<mods_in_subnet, abort>>

mgmt_gw_register(h, s) ==
    /\ UNCHANGED <<mods_in_subnet, abort>>
    /\ \/ /\ gateways[s] # NULL
          /\ SendReply(h, Nack)
          /\ UNCHANGED gateways
       \/ /\ gateways[s] = NULL
          /\ gateways' = [gateways EXCEPT ![s] = h]
          /\ SendReply(h, Ack)

(* Mutated form: the owner of the entry is not compared.                   *)
mgmt_gw_unregister_unchecked(h, s) ==
    /\ gateways' = [gateways EXCEPT ![s] = NULL]
    /\ SendReply(h, IF gateways[s] = NULL THEN Nack ELSE Ack)
    /\ UNCHANGED <<mods_in_subnet, abort>>

mgmt_gw_unregister(h, s) ==
    /\ UNCHANGED <<mods_in_subnet, abort>>
    /\ \/ /\ gateways[s] # h
          /\ SendReply(h, Nack)
          /\ UNCHANGED gateways
       \/ /\ gateways[s] = h
          /\ gateways' = [gateways EXCEPT ![s] = NULL]
          /\ SendReply(h, Ack)

(* Mutated form: unknown requests are ignored.                             *)
process_mgmt_msg_ignoresUnknown(h, m) ==
    \/ m.req = "DIADDR_REQUEST" /\ mgmt_diaddr_request(h)
    \/ m.req = "DIADDR_RELEASE" /\ mgmt_diaddr_release(h)
    \/ m.req = "GW_REGISTER" /\ mgmt_gw_register(h, m.subnet)
    \/ m.req = "GW_UNREGISTER" /\ mgmt_gw_unregister(h, m.subnet)
    \/ m.req = "UNKNOWN" /\ UNCHANGED <<mods_in_subnet, gateways, outq, abort>>

process_mgmt_msg(h, m) ==
    \/ m.req = "DIADDR_REQUEST" /\ mgmt_diaddr_request(h)
    \/ m.req = "DIADDR_RELEASE" /\ mgmt_diaddr_release(h)
    \/ m.req = "GW_REGISTER" /\ mgmt_gw_register(h, m.subnet)
    \/ m.req = "GW_UNREGISTER" /\ mgmt_gw_unregister(h, m.subnet)
    \/ /\ m.req = "UNKNOWN"
       /\ SendReply(h, Ack)
       /\ UNCHANGED <<mods_in_subnet, gateways, abort>>

(* Mutated form: the subnet of the destination is not looked at.           *)
Route_localOnly(d) == mods_in_subnet[d.local]

(* The routing decision: a local module, or the gateway of the subnet.     *)
Route(d) == IF d.subnet = SUBNET_ADDR THEN mods_in_subnet[d.local]
                                      ELSE gateways[d.subnet]

(* Without a table entry the packet is dropped.  The socket has            *)
(* ROUTER_MANDATORY set: sending to a host that has left fails, and the    *)
(* assert on the result of zmsg_send ends the process.                     *)
process_data_msg(m) ==
    /\ UNCHANGED <<mods_in_subnet, gateways>>
    /\ \/ /\ Route(m.dest) = NULL
          /\ UNCHANGED <<outq, abort>>
       \/ \E p \in Host :
             /\ Route(m.dest) = p /\ hstate[p] = "up"
             /\ outq' = [outq EXCEPT ![p] = Append(@, m)]
             /\ UNCHANGED abort
       \/ \E p \in Host :
             /\ Route(m.dest) = p /\ hstate[p] # "up"
             /\ abort' = "unroutable"
             /\ UNCHANGED outq

(* zloop callback for the ROUTER socket: one message of one peer.          *)
iothread_handle_ext_msg(h) ==
    /\ Alive /\ io_running /\ listening
    /\ inq[h] # <<>>
    /\ inq' = [inq EXCEPT ![h] = Tail(@)]
    /\ LET m == Head(inq[h])
       IN  \/ m.type = "M" /\ router_socket /\ process_mgmt_msg(h, m)
           \/ m.type = "D" /\ router_socket /\ process_data_msg(m)
           \/ /\ m.type = "X"
              /\ UNCHANGED <<mods_in_subnet, gateways, outq, abort>>
           \/ /\ m.type # "X" /\ ~router_socket   \* zmsg_send(&msg, NULL)
              /\ abort' = "reader"
              /\ UNCHANGED <<mods_in_subnet, gateways, outq>>
    /\ UNCHANGED <<router_socket, listening, io_running, mainVars, to_io,
                   to_main, hstate, sent, pend, held, gwof>>

-----------------------------------------------------------------------------
(* I/O thread: messages from the main thread.                              *)

RecvFromMain(name) ==
    /\ Alive /\ io_running
    /\ to_io # <<>> /\ Head(to_io) = name
    /\ to_io' = Tail(to_io)

(* Binding can fail when another process has the endpoint, and always      *)
(* fails when this process still listens on it.                            *)
iothread_router_start ==
    /\ RecvFromMain("I-START")
    /\ \/ /\ ~listening
          /\ router_socket' = TRUE /\ listening' = TRUE
          /\ to_main' = Append(to_main, Status("I-START-DONE", OSD_OK))
       \/ /\ router_socket' = FALSE /\ UNCHANGED listening
          /\ to_main' = Append(to_main, Status("I-START-DONE",
                                         OSD_ERROR_CONNECTION_FAILED))
    /\ UNCHANGED <<mods_in_subnet, gateways, io_running, mainVars, abort,
                   hostVars>>

(* Closing the ROUTER socket drops all connections.  A host that           *)
(* reconnects later is a new identity; the tables keep the old ones.       *)
iothread_router_stop ==
    /\ RecvFromMain("I-STOP")
    /\ \/ /\ router_socket
          /\ router_socket' = FALSE /\ listening' = FALSE
          /\ to_main' = Append(to_main, Status("I-STOP-DONE", OSD_OK))
          /\ hstate' = [h \in Host |-> IF hstate[h] = "up" THEN "gone"
                                       ELSE hstate[h]]
          /\ inq' = [h \in Host |-> <<>>]
          /\ outq' = [h \in Host |-> <<>>]
          /\ UNCHANGED abort
       \/ /\ ~router_socket            \* zloop_reader_end(loop, NULL)
          /\ abort' = "reader"
          /\ UNCHANGED <<router_socket, listening, to_main, hstate, inq, outq>>
    /\ UNCHANGED <<mods_in_subnet, gateways, io_running, mainVars, sent, pend,
                   held, gwof>>

(* I-SHUTDOWN ends the zloop; iothread_destroy frees both tables.          *)
iothread_shutdown ==
    /\ RecvFromMain("I-SHUTDOWN")
    /\ io_running' = FALSE
    /\ mods_in_subnet' = [a \in LocalAddr |-> NULL]
    /\ gateways' = [s \in Subnet |-> NULL]
    /\ UNCHANGED <<router_socket, listening, mainVars, to_main, abort,
                   hostVars>>

-----------------------------------------------------------------------------
(* Main thread.                                                            *)

osd_hostctrl_start ==
    /\ Alive /\ mpc = "idle" /\ ~is_running
    /\ starts < MaxStarts
    /\ starts' = starts + 1
    /\ mpc' = "starting"
    /\ to_io' = Append(to_io, "I-START")
    /\ UNCHANGED <<ioVars, is_running, timeouts, to_main, abort, hostVars>>

osd_hostctrl_stop ==
    /\ Alive /\ mpc = "idle" /\ is_running
    /\ mpc' = "stopping"
    /\ to_io' = Append(to_io, "I-STOP")
    /\ UNCHANGED <<ioVars, is_running, starts, timeouts, to_main, abort,
                   hostVars>>

(* osd_hostctrl_free asserts !is_running, then ends the worker.            *)
osd_hostctrl_free ==
    /\ Alive /\ mpc = "idle" /\ ~is_running
    /\ mpc' = "freeing"
    /\ to_io' = Append(to_io, "I-SHUTDOWN")
    /\ UNCHANGED <<ioVars, is_running, starts, timeouts, to_main, abort,
                   hostVars>>

(* The status wait of osd_hostctrl_start returns with a message.  Another  *)
(* status than the expected one is consumed and fails the call; the value  *)
(* is only compared with -1.                                               *)
StartReturns ==
    /\ Alive /\ mpc = "starting" /\ to_main # <<>>
    /\ LET m == Head(to_main)
       IN  is_running' = (m.name = "I-START-DONE" /\ m.value # -1)
    /\ mpc' = "idle"
    /\ to_main' = Tail(to_main)
    /\ UNCHANGED <<ioVars, starts, timeouts, to_io, abort, hostVars>>

StopReturns ==
    /\ Alive /\ mpc = "stopping" /\ to_main # <<>>
    /\ is_running' = (Head(to_main).name # "I-STOP-DONE")
    /\ mpc' = "idle"
    /\ to_main' = Tail(to_main)
    /\ UNCHANGED <<ioVars, starts, timeouts, to_io, abort, hostVars>>

(* The status wait gives up after 1.5 * ZMQ_RCV_TIMEOUT; is_running keeps  *)
(* its value in both callers.                                              *)
StatusTimesOut ==
    /\ Alive /\ mpc \in {"starting", "stopping"} /\ to_main = <<>>
    /\ timeouts < MaxTimeouts
    /\ timeouts' = timeouts + 1
    /\ mpc' = "idle"
    /\ UNCHANGED <<ioVars, is_running, starts, to_io, to_main, abort, hostVars>>

FreeReturns ==
    /\ Alive /\ mpc = "freeing" /\ ~io_running
    /\ mpc' = "freed"
    /\ UNCHANGED <<ioVars, is_running, starts, timeouts, to_io, to_main, abort,
                   hostVars>>

-----------------------------------------------------------------------------
(* Hosts.                                                                  *)

HostConnect(h) ==
    /\ hstate[h] = "new" /\ Alive /\ io_running /\ listening
    /\ hstate' = [hstate EXCEPT ![h] = "up"]
    /\ UNCHANGED <<ioVars, mainVars, to_io, to_main, abort, inq, outq, sent,
                   pend, held, gwof>>

HostSends(h, m) ==
    /\ Alive /\ hstate[h] = "up" /\ sent[h] < MaxMsgs
    /\ sent' = [sent EXCEPT ![h] = @ + 1]
    /\ inq' = [inq EXCEPT ![h] = Append(@, m)]
    /\ UNCHANGED <<ioVars, mainVars, to_io, to_main, abort, hstate, outq,
                   held, gwof>>

(* iothread_obtain_diaddr and hostiothread_send_cmd wait for the reply     *)
(* before anything else is done on the connection.  A host asks for an     *)
(* address only while it has none; the other requests can come at any      *)
(* time: a tool whose connection was re-established under a new identity   *)
(* still unregisters what it registered under the old one.                 *)
HostRequests(h, m) ==
    /\ pend[h] = NoReq
    /\ m.req = "DIADDR_REQUEST" => held[h] = 0
    /\ HostSends(h, m)
    /\ pend' = [pend EXCEPT ![h] = m]

HostSendsData(h, m) ==
    /\ HostSends(h, m)
    /\ UNCHANGED pend

(* What a host that held address a and subnets g knows it holds once it    *)
(* has read reply m to its request q.                                      *)
HeldAfter(q, a, m) ==
    IF m.status = "ADDR" THEN m.addr
    ELSE IF m.status = "ACK" /\ q.req = "DIADDR_RELEASE" THEN 0 ELSE a

GwofAfter(q, g, m) ==
    IF m.status = "ACK" /\ q.req = "GW_REGISTER" THEN g \cup {q.subnet}
    ELSE IF m.status = "ACK" /\ q.req = "GW_UNREGISTER" THEN g \ {q.subnet}
    ELSE g

(* A host takes the next message off its connection.                       *)
HostReceives(h) ==
    /\ hstate[h] = "up" /\ outq[h] # <<>>
    /\ outq' = [outq EXCEPT ![h] = Tail(@)]
    /\ LET m == Head(outq[h])
       IN  \/ /\ m.type = "D"
              /\ UNCHANGED <<pend, held, gwof>>
           \/ /\ m.type = "M"
              /\ pend' = [pend EXCEPT ![h] = NoReq]
              /\ held' = [held EXCEPT ![h] = HeldAfter(pend[h], @, m)]
              /\ gwof' = [gwof EXCEPT ![h] = GwofAfter(pend[h], @, m)]
    /\ UNCHANGED <<ioVars, mainVars, to_io, to_main, abort, hstate, inq, sent>>

IsRegistered(h) == held[h] # 0 \/ gwof[h] # {} \/ pend[h] # NoReq

(* The connection of a host ends.  What the router socket has already      *)
(* read of its messages is still processed; the rest is lost.              *)
HostLeaves(h) ==
    /\ hstate[h] = "up"
    /\ MayVanish \/ ~IsRegistered(h)
    /\ hstate' = [hstate EXCEPT ![h] = "gone"]
    /\ \E n \in 0 .. Len(inq[h]) :
          inq' = [inq EXCEPT ![h] = SubSeq(inq[h], 1, n)]
    /\ outq' = [outq EXCEPT ![h] = <<>>]
    /\ UNCHANGED <<ioVars, mainVars, to_io, to_main, abort, sent, pend, held,
                   gwof>>

-----------------------------------------------------------------------------
IoNext ==
    \/ \E h \in Host : iothread_handle_ext_msg(h)
    \/ iothread_router_start \/ iothread_router_stop \/ iothread_shutdown

MainNext ==
    \/ osd_hostctrl_start \/ osd_hostctrl_stop \/ osd_hostctrl_free
    \/ StartReturns \/ StopReturns \/ StatusTimesOut \/ FreeReturns

HostNext(h) ==
    \/ HostConnect(h)
    \/ \E m \in Inputs \cap Request : HostRequests(h, m)
    \/ \E m \in Inputs \ Request : HostSendsData(h, m)
    \/ HostReceives(h)
    \/ HostLeaves(h)

Next == IoNext \/ MainNext \/ \E h \in Host : HostNext(h)

(* The zloop serves every ready socket, and a host reads its connection.   *)
Fairness ==
    /\ \A h \in Host : WF_vars(iothread_handle_ext_msg(h))
    /\ \A h \in Host : WF_vars(HostReceives(h))
    /\ WF_vars(iothread_router_start \/ iothread_router_stop \/ iothread_shutdown)
    /\ WF_vars(StartReturns \/ StopReturns \/ FreeReturns)

Spec     == Init /\ [][Next]_vars
FairSpec == Spec /\ Fairness

-----------------------------------------------------------------------------
(* Properties.                                                             *)

(* The address a host was given by mgmt_diaddr_request is its entry of the *)
(* lookup table until the host asks to release it: whatever other hosts    *)
(* request, release or abandon meanwhile, packets for it go nowhere else.  *)
AddressHeldIsRouted ==
    io_running =>
        \A h \in Host :
            (/\ hstate[h] = "up" /\ held[h] # 0
             /\ pend[h].req # "DIADDR_RELEASE") => mods_in_subnet[held[h]] = h

(* A host whose GW_REGISTER was acknowledged stays the gateway of that     *)
(* subnet until it asks to unregister: mgmt_gw_register refuses a second   *)
(* one and mgmt_gw_unregister refuses requests of others.                  *)
GatewayAckIsRouted ==
    io_running =>
        \A h \in Host : hstate[h] = "up" =>
            \A s \in gwof[h] :
                pend[h] # Req("GW_UNREGISTER", s) => gateways[s] = h

(* Does a host that knows it holds address a and subnets g expect d?       *)
Expects(d, a, g) == IF d.subnet = SUBNET_ADDR THEN d.local = a
                                              ELSE d.subnet \in g

Replies(h, n) == {j \in 1 .. n : outq[h][j].type = "M"}

(* A packet process_data_msg put on the connection of a host is for a DI   *)
(* address or subnet the host knows to be its own when it reads the        *)
(* packet: it never overtakes the reply that grants the address, nor       *)
(* arrives after the reply that takes it away.  hostmod.c and gateway.c    *)
(* rely on it: they assert that the first message they get is the reply.   *)
PacketsReachAddressee ==
    \A h \in Host : \A i \in 1 .. Len(outq[h]) :
        outq[h][i].type = "D" =>
            LET d == outq[h][i].dest
            IN  IF Replies(h, i) = {} THEN Expects(d, held[h], gwof[h])
                ELSE \E j \in Replies(h, i) :
                        Expects(d, HeldAfter(pend[h], held[h], outq[h][j]),
                                   GwofAfter(pend[h], gwof[h], outq[h][j]))

(* Every management request of a connected host is either still unread or  *)
(* answered by exactly one reply, on every path through process_mgmt_msg   *)
(* that does not end the process. The reply to a release is a NACK only if *)
(* the host holds no address, or one that mgmt_diaddr_release does not     *)
(* look at.                                                                *)
OneReplyPerRequest ==
    Alive => \A h \in Host : hstate[h] = "up" =>
        /\ Cardinality({i \in 1 .. Len(inq[h]) : inq[h][i].type = "M"})
             + Cardinality(Replies(h, Len(outq[h])))
           = IF pend[h] = NoReq THEN 0 ELSE 1
        /\ \A j \in Replies(h, Len(outq[h])) :
              pend[h].req = "DIADDR_RELEASE" /\ outq[h][j] = Nack =>
                  held[h] = 0 \/ held[h] >= SUBNET_MAX

(* Only a message of the owner itself takes a host out of the tables.      *)
OnlyOwnerFreesEntry ==
    [][io_running' =>
        \A h \in Host :
            (\/ \E a \in LocalAddr : mods_in_subnet[a] = h
                                     /\ mods_in_subnet'[a] # h
             \/ \E s \in Subnet : gateways[s] = h /\ gateways'[s] # h)
            => Len(inq'[h]) < Len(inq[h])]_vars

(* The router never fails one of its assertions as long as it is not       *)
(* restarted and every host gives back what it holds before it leaves: the *)
(* pool suffices for such hosts, and no table entry names a host that is   *)
(* not there.                                                              *)
RoutingNeverAborts ==
    /\ starts <= 1
    /\ \A h \in Host : hstate[h] = "gone" => ~IsRegistered(h)
    => abort \notin {"pool", "unroutable"}

(* A connected host's request is eventually answered, unless the host      *)
(* leaves or the controller stops or dies.                                 *)
RequestAnswered ==
    \A h \in Host :
        (hstate[h] = "up" /\ pend[h] # NoReq) ~>
            (pend[h] = NoReq \/ hstate[h] # "up" \/ ~io_running \/ ~Alive)

(* An assertion of the code that does not hold: hostctrl.c asserts that    *)
(* the mandatory send of a routed packet succeeds.                         *)
RoutedSendSucceeds == abort # "unroutable"
=============================================================================
