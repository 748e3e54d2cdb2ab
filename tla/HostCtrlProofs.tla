--------------------------- MODULE HostCtrlProofs ---------------------------
(***************************************************************************)
(* For every number of hosts, addresses and subnets: the tables of the     *)
(* host controller agree with what every connected host was told, and      *)
(* packets only reach hosts that expect them.                              *)
(***************************************************************************)
EXTENDS HostCtrl, FiniteSetTheorems, TLAPS

Msgs == Request \cup Packet \cup {Junk}

LEMMA MessageTypes ==
    /\ \A r \in ReqName, s \in Subnet : Req(r, s) \in Request
    /\ Ack \in Reply /\ Nack \in Reply
    /\ \A a \in LocalAddr : AddrReply(a) \in Reply
    /\ \A m \in Request \cup Reply : m.type = "M"
    /\ \A m \in Packet : m.type = "D" /\ m.dest \in DiAddr
    /\ Junk.type = "X"
    /\ \A m \in Msgs : m.type = "M" => m \in Request
    /\ \A m \in Msgs : m.type = "D" => m \in Packet
    /\ \A m \in Reply \cup Packet : m.type = "M" => m \in Reply
    /\ \A m \in Reply \cup Packet : m.type = "D" => m \in Packet
  BY HostCtrlAssumption
  DEF Req, Ack, Nack, AddrReply, Request, Reply, Packet, Junk, Msgs, LocalAddr,
      Subnet, DiAddr

(* mgmt_send_ack, mgmt_send_nack and the address reply keep the            *)
(* connections well typed.                                                 *)
LEMMA SendReplyType ==
    ASSUME TypeOK, NEW h \in Host, NEW m \in Reply, SendReply(h, m)
    PROVE  outq' \in [Host -> Seq(Reply \cup Packet)]
  BY DEF SendReply, TypeOK

LEMMA MgmtType ==
    ASSUME TypeOK, NEW h \in Host, NEW m \in Request, process_mgmt_msg(h, m)
    PROVE  /\ mods_in_subnet' \in [LocalAddr -> Host \cup {NULL}]
           /\ gateways' \in [Subnet -> Host \cup {NULL}]
           /\ outq' \in [Host -> Seq(Reply \cup Packet)]
           /\ abort' \in AbortReason
  <1> USE MessageTypes, SendReplyType
  <1>0. m.subnet \in Subnet
    BY DEF Request
  <1>1. CASE mgmt_diaddr_request(h)
    <2>1. ASSUME NEW a \in 1 .. LOCAL_MAX, SendReply(h, AddrReply(a)),
                 mods_in_subnet' = [mods_in_subnet EXCEPT ![a] = h],
                 UNCHANGED <<gateways, abort>>
          PROVE  /\ mods_in_subnet' \in [LocalAddr -> Host \cup {NULL}]
                 /\ gateways' \in [Subnet -> Host \cup {NULL}]
                 /\ outq' \in [Host -> Seq(Reply \cup Packet)]
                 /\ abort' \in AbortReason
      <3>1. a \in LocalAddr
        BY HostCtrlAssumption DEF LocalAddr
      <3>2. AddrReply(a) \in Reply
        BY <3>1
      <3>3. outq' \in [Host -> Seq(Reply \cup Packet)]
        BY <2>1, <3>2
      <3> QED
        BY <2>1, <3>1, <3>3 DEF TypeOK
    <2>2. CASE FreeAddrs = {} /\ abort' = "pool"
               /\ UNCHANGED <<mods_in_subnet, gateways, outq>>
      BY <2>2 DEF TypeOK, AbortReason
    <2> QED
      BY <1>1, <2>1, <2>2 DEF mgmt_diaddr_request
  <1>2. CASE mgmt_diaddr_release(h)
    <2>1. outq' \in [Host -> Seq(Reply \cup Packet)]
      BY <1>2 DEF mgmt_diaddr_release
    <2>2. mods_in_subnet' \in [LocalAddr -> Host \cup {NULL}]
      BY <1>2 DEF mgmt_diaddr_release, TypeOK
    <2> QED
      BY <1>2, <2>1, <2>2 DEF mgmt_diaddr_release, TypeOK
  <1>3. CASE mgmt_gw_register(h, m.subnet)
    <2>1. outq' \in [Host -> Seq(Reply \cup Packet)]
      BY <1>3 DEF mgmt_gw_register
    <2> QED
      BY <1>0, <1>3, <2>1, ZenonT(60) DEF mgmt_gw_register, TypeOK
  <1>4. CASE mgmt_gw_unregister(h, m.subnet)
    <2>1. outq' \in [Host -> Seq(Reply \cup Packet)]
      BY <1>4 DEF mgmt_gw_unregister
    <2> QED
      BY <1>0, <1>4, <2>1 DEF mgmt_gw_unregister, TypeOK
  <1>5. CASE SendReply(h, Ack) /\ UNCHANGED <<mods_in_subnet, gateways, abort>>
    <2>1. outq' \in [Host -> Seq(Reply \cup Packet)]
      BY <1>5
    <2> QED
      BY <1>5, <2>1 DEF TypeOK
  <1> QED
    BY <1>1, <1>2, <1>3, <1>4, <1>5 DEF process_mgmt_msg

LEMMA DataType ==
    ASSUME TypeOK, NEW m \in Packet, process_data_msg(m)
    PROVE  /\ outq' \in [Host -> Seq(Reply \cup Packet)]
           /\ abort' \in AbortReason
           /\ UNCHANGED <<mods_in_subnet, gateways>>
  <1>1. ASSUME NEW p \in Host, outq' = [outq EXCEPT ![p] = Append(@, m)]
        PROVE  outq' \in [Host -> Seq(Reply \cup Packet)]
    BY <1>1 DEF TypeOK
  <1>2. outq' \in [Host -> Seq(Reply \cup Packet)]
    BY <1>1 DEF process_data_msg, TypeOK
  <1>3. abort' \in AbortReason
    BY DEF process_data_msg, TypeOK, AbortReason
  <1> QED
    BY <1>2, <1>3 DEF process_data_msg

LEMMA ExtMsgType ==
    ASSUME TypeOK, NEW h \in Host, iothread_handle_ext_msg(h)
    PROVE  TypeOK'
  <1>1. Head(inq[h]) \in Msgs /\ inq' \in [Host -> Seq(Msgs)]
    BY DEF iothread_handle_ext_msg, TypeOK, Msgs
  <1>2. /\ mods_in_subnet' \in [LocalAddr -> Host \cup {NULL}]
        /\ gateways' \in [Subnet -> Host \cup {NULL}]
        /\ outq' \in [Host -> Seq(Reply \cup Packet)]
        /\ abort' \in AbortReason
    <2>1. CASE Head(inq[h]).type = "M" /\ process_mgmt_msg(h, Head(inq[h]))
      BY <1>1, <2>1, MgmtType, MessageTypes
    <2>2. CASE Head(inq[h]).type = "D" /\ process_data_msg(Head(inq[h]))
      BY <1>1, <2>2, DataType, MessageTypes DEF TypeOK
    <2>3. CASE UNCHANGED <<mods_in_subnet, gateways, outq, abort>>
      BY <2>3 DEF TypeOK
    <2>4. CASE abort' = "reader" /\ UNCHANGED <<mods_in_subnet, gateways, outq>>
      BY <2>4 DEF TypeOK, AbortReason
    <2> QED
      BY <2>1, <2>2, <2>3, <2>4 DEF iothread_handle_ext_msg
  <1> QED
    BY <1>1, <1>2
    DEF iothread_handle_ext_msg, TypeOK, Msgs, mainVars

LEMMA StatusTypes ==
    /\ Status("I-START-DONE", OSD_OK) \in StatusMsg
    /\ Status("I-START-DONE", OSD_ERROR_CONNECTION_FAILED)
         \in StatusMsg
    /\ Status("I-STOP-DONE", OSD_OK) \in StatusMsg
  BY DEF StatusMsg, Status

LEMMA EmptyQueues ==
    /\ [h \in Host |-> <<>>] \in [Host -> Seq(Msgs)]
    /\ [h \in Host |-> <<>>] \in [Host -> Seq(Reply \cup Packet)]
  OBVIOUS

LEMMA InprocType ==
    ASSUME TypeOK,
           iothread_router_start \/ iothread_router_stop \/ iothread_shutdown
    PROVE  TypeOK'
  <1>1. CASE iothread_router_start
    <2>1. to_main' \in Seq(StatusMsg)
      <3>1. to_main \in Seq(StatusMsg)
        BY DEF TypeOK
      <3>2. \E m \in StatusMsg : to_main' = Append(to_main, m)
        BY <1>1, StatusTypes DEF iothread_router_start
      <3> QED
        BY <3>1, <3>2
    <2>2. to_io' \in Seq({"I-START", "I-STOP", "I-SHUTDOWN"})
      BY <1>1 DEF iothread_router_start, RecvFromMain, TypeOK
    <2>3. router_socket' \in BOOLEAN /\ listening' \in BOOLEAN
      BY <1>1 DEF iothread_router_start, TypeOK
    <2> QED
      BY <1>1, <2>1, <2>2, <2>3
      DEF iothread_router_start, TypeOK, mainVars, hostVars
  <1>2. CASE iothread_router_stop
    <2>1. hstate' \in [Host -> {"new", "up", "gone"}]
      BY <1>2 DEF iothread_router_stop, TypeOK
    <2>2. inq' \in [Host -> Seq(Msgs)]
      BY <1>2, EmptyQueues DEF iothread_router_stop, TypeOK, Msgs
    <2>3. outq' \in [Host -> Seq(Reply \cup Packet)]
      BY <1>2, EmptyQueues DEF iothread_router_stop, TypeOK
    <2>4. to_main' \in Seq(StatusMsg)
      <3>1. to_main \in Seq(StatusMsg)
        BY DEF TypeOK
      <3>2. to_main' = to_main \/ \E m \in StatusMsg : to_main' = Append(to_main, m)
        BY <1>2, StatusTypes DEF iothread_router_stop
      <3> QED
        BY <3>1, <3>2
    <2>5. to_io' \in Seq({"I-START", "I-STOP", "I-SHUTDOWN"})
      BY <1>2 DEF iothread_router_stop, RecvFromMain, TypeOK
    <2>6. /\ router_socket' \in BOOLEAN /\ listening' \in BOOLEAN
          /\ abort' \in AbortReason
      BY <1>2 DEF iothread_router_stop, TypeOK, AbortReason
    <2> QED
      BY <1>2, <2>1, <2>2, <2>3, <2>4, <2>5, <2>6
      DEF iothread_router_stop, TypeOK, mainVars, Msgs
  <1>3. CASE iothread_shutdown
    <2>1. to_io' \in Seq({"I-START", "I-STOP", "I-SHUTDOWN"})
      BY <1>3 DEF iothread_shutdown, RecvFromMain, TypeOK
    <2>2. /\ mods_in_subnet' \in [LocalAddr -> Host \cup {NULL}]
          /\ gateways' \in [Subnet -> Host \cup {NULL}]
      BY <1>3 DEF iothread_shutdown
    <2> QED
      BY <1>3, <2>1, <2>2 DEF iothread_shutdown, TypeOK, mainVars, hostVars
  <1> QED
    BY <1>1, <1>2, <1>3

LEMMA MainType ==
    ASSUME TypeOK, MainNext
    PROVE  TypeOK'
  <1> USE DEF TypeOK, ioVars, hostVars, mainVars
  <1>1. CASE osd_hostctrl_start
    BY <1>1 DEF osd_hostctrl_start
  <1>2. CASE osd_hostctrl_stop
    BY <1>2 DEF osd_hostctrl_stop
  <1>3. CASE osd_hostctrl_free
    BY <1>3 DEF osd_hostctrl_free
  <1>4. CASE StartReturns
    BY <1>4 DEF StartReturns
  <1>5. CASE StopReturns
    BY <1>5 DEF StopReturns
  <1>6. CASE StatusTimesOut
    BY <1>6 DEF StatusTimesOut
  <1>7. CASE FreeReturns
    BY <1>7 DEF FreeReturns
  <1> QED
    BY <1>1, <1>2, <1>3, <1>4, <1>5, <1>6, <1>7 DEF MainNext

LEMMA AfterType ==
    ASSUME TypeOK, NEW h \in Host, NEW m \in Reply
    PROVE  /\ HeldAfter(pend[h], held[h], m) \in LocalAddr
           /\ GwofAfter(pend[h], gwof[h], m) \in SUBSET Subnet
  <1>1. m.addr \in LocalAddr /\ 0 \in LocalAddr
    BY HostCtrlAssumption DEF Reply, LocalAddr
  <1>2. pend[h].req \in {"GW_REGISTER", "GW_UNREGISTER"} => pend[h].subnet \in Subnet
    BY DEF TypeOK, Request, NoReq
  <1> QED
    BY <1>1, <1>2 DEF HeldAfter, GwofAfter, TypeOK

LEMMA HostType ==
    ASSUME TypeOK, NEW h \in Host, HostNext(h)
    PROVE  TypeOK'
  <1> USE DEF ioVars, mainVars
  <1>1. CASE HostConnect(h)
    BY <1>1 DEF HostConnect, TypeOK
  <1>2. ASSUME NEW m \in Inputs \cap Request, HostRequests(h, m)
        PROVE  TypeOK'
    BY <1>2 DEF HostRequests, HostSends, TypeOK
  <1>3. ASSUME NEW m \in Inputs \ Request, HostSendsData(h, m)
        PROVE  TypeOK'
    <2>1. m \in Msgs
      BY <1>3, HostCtrlAssumption DEF Msgs
    <2> QED
      BY <1>3, <2>1 DEF HostSendsData, HostSends, TypeOK, Msgs
  <1>4. CASE HostReceives(h)
    <2>1. Head(outq[h]) \in Reply \cup Packet
          /\ outq' \in [Host -> Seq(Reply \cup Packet)]
      BY <1>4 DEF HostReceives, TypeOK
    <2>2. /\ pend' \in [Host -> Request \cup {NoReq}]
          /\ held' \in [Host -> LocalAddr]
          /\ gwof' \in [Host -> SUBSET Subnet]
      <3>1. CASE Head(outq[h]).type = "D"
        BY <1>4, <3>1 DEF HostReceives, TypeOK
      <3>2. CASE Head(outq[h]).type = "M"
        <4>1. Head(outq[h]) \in Reply
          BY <2>1, <3>2, MessageTypes
        <4>2. /\ HeldAfter(pend[h], held[h], Head(outq[h])) \in LocalAddr
              /\ GwofAfter(pend[h], gwof[h], Head(outq[h])) \in SUBSET Subnet
          BY <4>1, AfterType
        <4>3. /\ pend \in [Host -> Request \cup {NoReq}]
              /\ held \in [Host -> LocalAddr]
              /\ gwof \in [Host -> SUBSET Subnet]
          BY DEF TypeOK
        <4>4. /\ pend' = [pend EXCEPT ![h] = NoReq]
              /\ held' = [held EXCEPT ![h] = HeldAfter(pend[h], held[h], Head(outq[h]))]
              /\ gwof' = [gwof EXCEPT ![h] = GwofAfter(pend[h], gwof[h], Head(outq[h]))]
          BY <1>4, <3>2 DEF HostReceives
        <4>5. pend' \in [Host -> Request \cup {NoReq}]
          BY <4>3, <4>4
        <4>6. held' \in [Host -> LocalAddr]
          BY <4>2, <4>3, <4>4
        <4>7. gwof' \in [Host -> SUBSET Subnet]
          BY <4>2, <4>3, <4>4
        <4> QED
          BY <4>5, <4>6, <4>7
      <3> QED
        BY <1>4, <3>1, <3>2 DEF HostReceives
    <2> QED
      BY <1>4, <2>1, <2>2 DEF HostReceives, TypeOK
  <1>5. CASE HostLeaves(h)
    <2>1. PICK n \in 0 .. Len(inq[h]) :
             inq' = [inq EXCEPT ![h] = SubSeq(inq[h], 1, n)]
      BY <1>5 DEF HostLeaves
    <2>2. inq[h] \in Seq(Msgs)
      BY DEF TypeOK, Msgs
    <2>3. SubSeq(inq[h], 1, n) \in Seq(Msgs)
      BY <2>2
    <2>4. inq' \in [Host -> Seq(Msgs)]
      BY <2>1, <2>3 DEF TypeOK, Msgs
    <2> QED
      BY <1>5, <2>4 DEF HostLeaves, TypeOK, Msgs
  <1> QED
    BY <1>1, <1>2, <1>3, <1>4, <1>5 DEF HostNext

LEMMA InitType ==
    ASSUME Init
    PROVE  TypeOK
  <1>1. inq \in [Host -> Seq(Msgs)] /\ outq \in [Host -> Seq(Reply \cup Packet)]
    BY EmptyQueues DEF Init
  <1>2. /\ to_io \in Seq({"I-START", "I-STOP", "I-SHUTDOWN"})
        /\ to_main \in Seq(StatusMsg)
    BY DEF Init
  <1>3. /\ held \in [Host -> LocalAddr] /\ gwof \in [Host -> SUBSET Subnet]
        /\ sent \in [Host -> Nat] /\ pend \in [Host -> Request \cup {NoReq}]
        /\ hstate \in [Host -> {"new", "up", "gone"}]
    BY HostCtrlAssumption DEF Init, LocalAddr
  <1>4. /\ mods_in_subnet \in [LocalAddr -> Host \cup {NULL}]
        /\ gateways \in [Subnet -> Host \cup {NULL}]
    BY DEF Init
  <1> QED
    BY <1>1, <1>2, <1>3, <1>4 DEF Init, TypeOK, AbortReason, Msgs

LEMMA NextType ==
    ASSUME TypeOK, [Next]_vars
    PROVE  TypeOK'
  <1>1. CASE Next
    BY <1>1, ExtMsgType, InprocType, MainType, HostType DEF Next, IoNext
  <1>2. CASE UNCHANGED vars
    BY <1>2 DEF vars, ioVars, mainVars, hostVars, TypeOK
  <1> QED
    BY <1>1, <1>2

(* Every reachable state of the host controller is well typed: table       *)
(* entries are hosts or NULL, queues hold well-formed messages.            *)
THEOREM TypeCorrect == Spec => []TypeOK
  <1>1. Init => TypeOK
    BY InitType
  <1>2. TypeOK /\ [Next]_vars => TypeOK'
    BY NextType
  <1> QED
    BY <1>1, <1>2, PTL DEF Spec

-----------------------------------------------------------------------------
(* The inductive invariant.                                                *)

(* The host waits for at most one reply: its request is unread or its      *)
(* reply is on the way, never both.  Only a host without an address asks   *)
(* for one, and only such a request is answered with an address.           *)
OneExchange(h) ==
    /\ \A i, j \in 1 .. Len(inq[h]) :
          inq[h][i].type = "M" /\ inq[h][j].type = "M" => i = j
    /\ \A i \in 1 .. Len(inq[h]) : inq[h][i].type = "M" => inq[h][i] = pend[h]
    /\ \A i, j \in 1 .. Len(outq[h]) :
          outq[h][i].type = "M" /\ outq[h][j].type = "M" => i = j
    /\ \A j \in 1 .. Len(outq[h]) : outq[h][j].type = "M" =>
          /\ pend[h] # NoReq
          /\ \A i \in 1 .. Len(inq[h]) : inq[h][i].type # "M"
          /\ outq[h][j].status = "ADDR" => pend[h].req = "DIADDR_REQUEST"
    /\ pend[h].req = "DIADDR_REQUEST" => held[h] = 0

(* Host h is in the tables for address a and the subnets g, nothing else.  *)
TableIs(h, a, g) ==
    /\ \A b \in 1 .. LOCAL_MAX : mods_in_subnet[b] = h <=> b = a
    /\ \A s \in Subnet : gateways[s] = h <=> s \in g

(* The same of the tables after a step.                                    *)
TableNext(h, a, g) ==
    /\ \A b \in 1 .. LOCAL_MAX : mods_in_subnet'[b] = h <=> b = a
    /\ \A s \in Subnet : gateways'[s] = h <=> s \in g

(* The tables are what the host knows, or will know once it has read the   *)
(* reply that is on the way.                                               *)
Agrees(h) ==
    /\ (\A j \in 1 .. Len(outq[h]) : outq[h][j].type # "M")
          => TableIs(h, held[h], gwof[h])
    /\ \A j \in 1 .. Len(outq[h]) : outq[h][j].type = "M" =>
          TableIs(h, HeldAfter(pend[h], held[h], outq[h][j]),
                     GwofAfter(pend[h], gwof[h], outq[h][j]))

(* PacketsReachAddressee for one host.                                     *)
Delivered(h) ==
    \A i \in 1 .. Len(outq[h]) : outq[h][i].type = "D" =>
        /\ (\A j \in 1 .. i : outq[h][j].type # "M")
              => Expects(outq[h][i].dest, held[h], gwof[h])
        /\ \A j \in 1 .. i : outq[h][j].type = "M" =>
              Expects(outq[h][i].dest, HeldAfter(pend[h], held[h], outq[h][j]),
                                       GwofAfter(pend[h], gwof[h], outq[h][j]))

HostInv(h) ==
    /\ hstate[h] = "new" =>
          /\ inq[h] = <<>> /\ outq[h] = <<>>
          /\ pend[h] = NoReq /\ held[h] = 0 /\ gwof[h] = {}
    /\ hstate[h] = "gone" => outq[h] = <<>>
    /\ hstate[h] = "up" => OneExchange(h)
    /\ Delivered(h)
    /\ hstate[h] # "gone" /\ io_running => Agrees(h)

IInv ==
    /\ TypeOK
    /\ mods_in_subnet[0] = NULL
    /\ \A h \in Host : HostInv(h)

(* A step that leaves a host, its connection and its table entries alone.  *)
LEMMA Frame ==
    ASSUME NEW h \in Host, HostInv(h),
           hstate'[h] = hstate[h], inq'[h] = inq[h], outq'[h] = outq[h],
           pend'[h] = pend[h], held'[h] = held[h], gwof'[h] = gwof[h],
           io_running' => io_running,
           io_running' => \A b \in 1 .. LOCAL_MAX :
                             mods_in_subnet'[b] = h <=> mods_in_subnet[b] = h,
           io_running' => \A s \in Subnet : gateways'[s] = h <=> gateways[s] = h
    PROVE  HostInv(h)'
  <1>1. (hstate[h] = "up" => OneExchange(h)') /\ Delivered(h)'
    BY ZenonT(60) DEF HostInv, OneExchange, Delivered
  <1>2. io_running' /\ hstate[h] # "gone" => Agrees(h)'
    BY DEF HostInv, Agrees, TableIs
  <1> QED
    BY <1>1, <1>2 DEF HostInv

LEMMA TailFacts ==
    ASSUME NEW S, NEW s \in Seq(S), s # <<>>
    PROVE  /\ Len(s) \in Nat /\ Len(s) > 0
           /\ Tail(s) \in Seq(S) /\ Len(Tail(s)) = Len(s) - 1
           /\ \A i \in 1 .. Len(Tail(s)) :
                 Tail(s)[i] = s[i + 1] /\ i + 1 \in 1 .. Len(s)
           /\ Head(s) = s[1] /\ 1 \in 1 .. Len(s)
  OBVIOUS

(* One message of host h is read, or none.                                 *)
Popped(h) == \/ inq'[h] = inq[h]
             \/ inq[h] # <<>> /\ inq'[h] = Tail(inq[h])

LEMMA PopExchange ==
    ASSUME TypeOK, NEW h \in Host, OneExchange(h), Popped(h)
    PROVE  /\ \A i, j \in 1 .. Len(inq'[h]) :
                 inq'[h][i].type = "M" /\ inq'[h][j].type = "M" => i = j
           /\ \A i \in 1 .. Len(inq'[h]) :
                 inq'[h][i].type = "M" => inq'[h][i] = pend[h]
           /\ (\A i \in 1 .. Len(inq[h]) : inq[h][i].type # "M")
                 => \A i \in 1 .. Len(inq'[h]) : inq'[h][i].type # "M"
           /\ inq[h] # <<>> /\ Head(inq[h]).type = "M" /\ inq'[h] = Tail(inq[h])
                 => \A i \in 1 .. Len(inq'[h]) : inq'[h][i].type # "M"
  <1>1. inq[h] \in Seq(Msgs)
    BY DEF TypeOK, Msgs
  <1>2. CASE inq'[h] = inq[h] /\ ~(inq[h] # <<>> /\ inq'[h] = Tail(inq[h]))
    BY <1>2 DEF OneExchange
  <1>3. CASE inq[h] # <<>> /\ inq'[h] = Tail(inq[h])
    <2>1. /\ Len(inq[h]) \in Nat /\ Len(inq[h]) > 0
          /\ Len(inq'[h]) = Len(inq[h]) - 1
          /\ \A i \in 1 .. Len(inq'[h]) :
                inq'[h][i] = inq[h][i + 1] /\ i + 1 \in 1 .. Len(inq[h])
          /\ Head(inq[h]) = inq[h][1]
      <3> DEFINE s == inq[h]
                 t == inq'[h]
      <3>1. s \in Seq(Msgs) /\ s # <<>> /\ t = Tail(s)
        BY <1>1, <1>3
      <3> HIDE DEF s, t
      <3>2. /\ Len(s) \in Nat /\ Len(s) > 0
            /\ Len(t) = Len(s) - 1
            /\ \A i \in 1 .. Len(t) : t[i] = s[i + 1] /\ i + 1 \in 1 .. Len(s)
            /\ Head(s) = s[1]
        BY <3>1, TailFacts
      <3> QED
        BY <3>2 DEF s, t
    <2>2. \A i, j \in 1 .. Len(inq'[h]) :
             inq'[h][i].type = "M" /\ inq'[h][j].type = "M" => i = j
      <3> SUFFICES ASSUME NEW i \in 1 .. Len(inq'[h]), NEW j \in 1 .. Len(inq'[h]),
                          inq'[h][i].type = "M", inq'[h][j].type = "M"
                   PROVE  i = j
        OBVIOUS
      <3>1. i + 1 = j + 1
        BY <2>1 DEF OneExchange
      <3> QED
        BY <2>1, <3>1
    <2>3. \A i \in 1 .. Len(inq'[h]) :
             inq'[h][i].type = "M" => inq'[h][i] = pend[h]
      BY <2>1 DEF OneExchange
    <2>4. (\A i \in 1 .. Len(inq[h]) : inq[h][i].type # "M")
             => \A i \in 1 .. Len(inq'[h]) : inq'[h][i].type # "M"
      BY <2>1
    <2>5. ASSUME inq[h][1].type = "M", NEW i \in 1 .. Len(inq'[h])
          PROVE  inq'[h][i].type # "M"
      <3>1. /\ 1 \in 1 .. Len(inq[h]) /\ i + 1 # 1
            /\ i + 1 \in 1 .. Len(inq[h]) /\ inq'[h][i] = inq[h][i + 1]
        BY <2>1
      <3> QED
        BY <2>5, <3>1 DEF OneExchange
    <2> QED
      BY <2>1, <2>2, <2>3, <2>4, <2>5
  <1> QED
    BY <1>2, <1>3 DEF Popped

(* A message of a host is read and nothing is sent to that host.           *)
LEMMA PopStep ==
    ASSUME TypeOK, NEW h \in Host, HostInv(h), Popped(h),
           hstate'[h] = hstate[h], outq'[h] = outq[h],
           pend'[h] = pend[h], held'[h] = held[h], gwof'[h] = gwof[h],
           io_running' => io_running,
           hstate[h] # "gone" => /\ mods_in_subnet' = mods_in_subnet
                                 /\ gateways' = gateways
    PROVE  HostInv(h)'
  <1>1. hstate[h] = "new" => inq'[h] = <<>>
    BY DEF HostInv, Popped
  <1>2. hstate[h] = "up" => OneExchange(h)'
    <2> SUFFICES ASSUME hstate[h] = "up" PROVE OneExchange(h)'
      OBVIOUS
    <2>1. OneExchange(h)
      BY DEF HostInv
    <2> QED
      BY <2>1, PopExchange, SMTT(40) DEF OneExchange
  <1>3. Delivered(h)'
    BY DEF HostInv, Delivered
  <1>4. io_running' /\ hstate[h] # "gone" => Agrees(h)'
    BY DEF HostInv, Agrees, TableIs
  <1> QED
    BY <1>1, <1>2, <1>3, <1>4 DEF HostInv

LEMMA AppendFacts ==
    ASSUME TypeOK, NEW h \in Host, NEW m \in Reply \cup Packet,
           outq'[h] = Append(outq[h], m)
    PROVE  /\ Len(outq[h]) \in Nat
           /\ Len(outq'[h]) = Len(outq[h]) + 1
           /\ \A i \in 1 .. Len(outq[h]) : outq'[h][i] = outq[h][i]
           /\ outq'[h][Len(outq[h]) + 1] = m
  BY DEF TypeOK

(* A packet is routed to host h.                                           *)
LEMMA PacketStep ==
    ASSUME TypeOK, NEW h \in Host, HostInv(h), Popped(h), hstate[h] = "up",
           NEW m \in Packet, outq'[h] = Append(outq[h], m),
           Route(m.dest) = h, mods_in_subnet[0] = NULL, io_running,
           hstate'[h] = hstate[h],
           pend'[h] = pend[h], held'[h] = held[h], gwof'[h] = gwof[h],
           io_running' => io_running,
           mods_in_subnet' = mods_in_subnet, gateways' = gateways
    PROVE  HostInv(h)'
  <1> DEFINE n == Len(outq[h])
  <1>0. /\ m.type = "D" /\ m.dest \in DiAddr
        /\ OneExchange(h) /\ Delivered(h) /\ Agrees(h)
    BY MessageTypes DEF HostInv
  <1>1. /\ n \in Nat /\ Len(outq'[h]) = n + 1
        /\ \A i \in 1 .. n : outq'[h][i] = outq[h][i]
        /\ outq'[h][n + 1] = m
    BY AppendFacts
  <1> HIDE DEF n
  <1>2. OneExchange(h)'
    <2>1. \A j \in 1 .. Len(outq'[h]) : outq'[h][j].type = "M"
            => j \in 1 .. n /\ outq[h][j].type = "M" /\ outq'[h][j] = outq[h][j]
      BY <1>0, <1>1
    <2> QED
      BY <1>0, <2>1, PopExchange, SMTT(40) DEF OneExchange, n
  <1>3. ASSUME NEW a, NEW g, TableIs(h, a, g)
        PROVE  Expects(m.dest, a, g)
    <2>1. m.dest.subnet \in Subnet /\ m.dest.local \in LocalAddr
      BY <1>0 DEF DiAddr
    <2>2. CASE m.dest.subnet = SUBNET_ADDR
      <3>1. mods_in_subnet[m.dest.local] = h
        BY <2>2 DEF Route
      <3>2. m.dest.local # 0
        BY <3>1, HostCtrlAssumption
      <3>3. m.dest.local \in 1 .. LOCAL_MAX
        BY <2>1, <3>2, HostCtrlAssumption DEF LocalAddr
      <3> QED
        BY <1>3, <2>2, <3>1, <3>3 DEF TableIs, Expects
    <2>3. CASE m.dest.subnet # SUBNET_ADDR
      BY <1>3, <2>1, <2>3 DEF TableIs, Expects, Route
    <2> QED
      BY <2>2, <2>3
  <1>4. Delivered(h)'
    <2> SUFFICES ASSUME NEW i \in 1 .. n + 1, outq'[h][i].type = "D"
                 PROVE  /\ (\A j \in 1 .. i : outq'[h][j].type # "M")
                             => Expects(outq'[h][i].dest, held[h], gwof[h])
                        /\ \A j \in 1 .. i : outq'[h][j].type = "M" =>
                             Expects(outq'[h][i].dest,
                                     HeldAfter(pend[h], held[h], outq'[h][j]),
                                     GwofAfter(pend[h], gwof[h], outq'[h][j]))
      BY <1>1 DEF Delivered
    <2>1. CASE i \in 1 .. n
      <3>1. /\ outq'[h][i] = outq[h][i]
            /\ \A j \in 1 .. i : j \in 1 .. n /\ outq'[h][j] = outq[h][j]
        BY <1>1, <2>1
      <3> QED
        BY <1>0, <2>1, <3>1 DEF Delivered, n
    <2>2. CASE i = n + 1
      <3>1. \A j \in 1 .. n : outq'[h][j] = outq[h][j] /\ j \in 1 .. i
        BY <1>1, <2>2
      <3>2. (\A j \in 1 .. i : outq'[h][j].type # "M")
              => Expects(m.dest, held[h], gwof[h])
        BY <1>0, <1>3, <3>1 DEF Agrees, n
      <3>3. \A j \in 1 .. i : outq'[h][j].type = "M" =>
              j \in 1 .. n /\ outq'[h][j] = outq[h][j]
        BY <1>0, <1>1, <2>2
      <3>4. \A j \in 1 .. i : outq'[h][j].type = "M" =>
              Expects(m.dest, HeldAfter(pend[h], held[h], outq'[h][j]),
                              GwofAfter(pend[h], gwof[h], outq'[h][j]))
        BY <1>0, <1>3, <3>3 DEF Agrees, n
      <3> QED
        BY <1>1, <2>2, <3>2, <3>4
    <2> QED
      BY <1>1, <2>1, <2>2
  <1>5. Agrees(h)'
    <2>1. \A j \in 1 .. n + 1 : outq'[h][j].type = "M" <=>
            j \in 1 .. n /\ outq[h][j].type = "M" /\ outq'[h][j] = outq[h][j]
      BY <1>0, <1>1
    <2>2. \A j \in 1 .. n : outq[h][j].type = "M" => j \in 1 .. n + 1
      BY <1>1
    <2> QED
      BY <1>0, <1>1, <2>1, <2>2 DEF Agrees, TableIs, n
  <1> QED
    BY <1>2, <1>4, <1>5 DEF HostInv

(* The request of host h is answered with m.                               *)
LEMMA ReplyStep ==
    ASSUME TypeOK, NEW h \in Host, HostInv(h), hstate[h] = "up",
           inq[h] # <<>>, Head(inq[h]).type = "M", inq'[h] = Tail(inq[h]),
           NEW m \in Reply, outq'[h] = Append(outq[h], m),
           m.status = "ADDR" => pend[h].req = "DIADDR_REQUEST",
           hstate'[h] = hstate[h],
           pend'[h] = pend[h], held'[h] = held[h], gwof'[h] = gwof[h],
           TableNext(h, HeldAfter(pend[h], held[h], m),
                        GwofAfter(pend[h], gwof[h], m))
    PROVE  HostInv(h)'
  <1> DEFINE n == Len(outq[h])
  <1>0. m.type = "M" /\ OneExchange(h) /\ Delivered(h)
    BY MessageTypes DEF HostInv
  <1>1. /\ n \in Nat /\ Len(outq'[h]) = n + 1
        /\ \A i \in 1 .. n : outq'[h][i] = outq[h][i]
        /\ outq'[h][n + 1] = m
    BY AppendFacts
  <1>2. Head(inq[h]) = inq[h][1] /\ 1 \in 1 .. Len(inq[h])
    BY DEF TypeOK
  <1>3. /\ \A j \in 1 .. n : outq[h][j].type # "M"
        /\ pend[h] = inq[h][1] /\ pend[h] # NoReq
    <2>1. inq[h][1] \in Msgs /\ inq[h][1].type = "M"
      BY <1>2 DEF TypeOK, Msgs
    <2>2. inq[h][1] \in Request
      BY <2>1, MessageTypes
    <2>3. inq[h][1] # NoReq
      BY <2>2 DEF Request, ReqName, NoReq
    <2> QED
      BY <1>0, <1>2, <2>1, <2>3 DEF OneExchange
  <1>4. \A i \in 1 .. Len(inq'[h]) : inq'[h][i].type # "M"
    BY <1>0, PopExchange DEF Popped
  <1> HIDE DEF n
  <1>5. \A j \in 1 .. n + 1 : outq'[h][j].type = "M" <=> j = n + 1
    BY <1>0, <1>1, <1>3
  <1>6. OneExchange(h)'
    <2>1. pend[h].req = "DIADDR_REQUEST" => held[h] = 0
      BY <1>0 DEF OneExchange
    <2> QED
      BY <1>1, <1>3, <1>4, <1>5, <2>1 DEF OneExchange
  <1>7. Delivered(h)'
    <2> SUFFICES ASSUME NEW i \in 1 .. n + 1, outq'[h][i].type = "D"
                 PROVE  /\ (\A j \in 1 .. i : outq'[h][j].type # "M")
                             => Expects(outq'[h][i].dest, held[h], gwof[h])
                        /\ \A j \in 1 .. i : outq'[h][j].type = "M" =>
                             Expects(outq'[h][i].dest,
                                     HeldAfter(pend[h], held[h], outq'[h][j]),
                                     GwofAfter(pend[h], gwof[h], outq'[h][j]))
      BY <1>1 DEF Delivered
    <2>1. i \in 1 .. n
      BY <1>0, <1>1
    <2>2. /\ outq'[h][i] = outq[h][i]
          /\ \A j \in 1 .. i : j \in 1 .. n /\ outq'[h][j] = outq[h][j]
      BY <1>1, <2>1
    <2> QED
      BY <1>0, <2>1, <2>2 DEF Delivered, n
  <1>8. Agrees(h)'
    <2>1. n + 1 \in 1 .. n + 1 /\ outq'[h][n + 1].type = "M"
      BY <1>0, <1>1
    <2>2. \A j \in 1 .. Len(outq'[h]) : outq'[h][j].type = "M" => outq'[h][j] = m
      BY <1>1, <1>5
    <2>3. ~ \A j \in 1 .. Len(outq'[h]) : outq'[h][j].type # "M"
      BY <1>1, <2>1
    <2> QED
      BY <2>2, <2>3 DEF Agrees, TableIs, TableNext
  <1> QED
    BY <1>6, <1>7, <1>8 DEF HostInv
-----------------------------------------------------------------------------
(* One lemma per group of actions.                                         *)

(* A management request leaves the entries of all other hosts alone, and   *)
(* answers the sender so that the tables agree with the answer.            *)
LEMMA MgmtStep ==
    ASSUME IInv, NEW h \in Host, io_running,
           inq[h] # <<>>, Head(inq[h]).type = "M", inq' = [inq EXCEPT ![h] = Tail(@)],
           process_mgmt_msg(h, Head(inq[h])),
           UNCHANGED <<io_running, hstate, pend, held, gwof>>
    PROVE  mods_in_subnet'[0] = NULL /\ \A q \in Host : HostInv(q)'
  <1> DEFINE r == Head(inq[h])
  <1>0. TypeOK /\ HostInv(h) /\ hstate[h] # "new"
    BY DEF IInv, HostInv
  <1>1. r \in Request /\ r.subnet \in Subnet
    <2>1. r \in Msgs
      BY <1>0 DEF TypeOK, Msgs
    <2>2. r \in Request
      BY <2>1, MessageTypes
    <2> QED
      BY <2>2 DEF Request
  <1>2. hstate[h] = "up" => /\ pend[h] = r
                            /\ TableIs(h, held[h], gwof[h])
                            /\ r.req = "DIADDR_REQUEST" => held[h] = 0
    <2> SUFFICES ASSUME hstate[h] = "up"
                 PROVE  /\ pend[h] = r
                        /\ TableIs(h, held[h], gwof[h])
                        /\ r.req = "DIADDR_REQUEST" => held[h] = 0
      OBVIOUS
    <2>1. OneExchange(h) /\ Agrees(h)
      BY <1>0 DEF HostInv
    <2>2. r = inq[h][1] /\ 1 \in 1 .. Len(inq[h])
      BY <1>0 DEF TypeOK
    <2>3. \A j \in 1 .. Len(outq[h]) : outq[h][j].type # "M"
      BY <2>1, <2>2 DEF OneExchange
    <2> QED
      BY <2>1, <2>2, <2>3 DEF OneExchange, Agrees
  <1>3. inq'[h] = Tail(inq[h]) /\ \A q \in Host : q # h => inq'[q] = inq[q]
    BY <1>0 DEF TypeOK
  (* What one of the paths has to show.                                    *)
  <1>4. ASSUME NEW m \in Reply, SendReply(h, m),
               m.status = "ADDR" => r.req = "DIADDR_REQUEST",
               mods_in_subnet'[0] = NULL,
               \A q \in Host \ {h} : \A b \in 1 .. LOCAL_MAX :
                   mods_in_subnet'[b] = q <=> mods_in_subnet[b] = q,
               \A q \in Host \ {h} : \A s \in Subnet :
                   gateways'[s] = q <=> gateways[s] = q,
               hstate[h] = "up" => TableNext(h, HeldAfter(r, held[h], m),
                                                GwofAfter(r, gwof[h], m))
        PROVE  mods_in_subnet'[0] = NULL /\ \A q \in Host : HostInv(q)'
    <2>1. ASSUME NEW q \in Host, q # h
          PROVE  HostInv(q)'
      <3>1. outq'[q] = outq[q] /\ HostInv(q)
        BY <1>0, <1>4, <2>1 DEF SendReply, TypeOK, IInv
      <3> QED
        BY <1>3, <1>4, <2>1, <3>1, Frame
    <2>2. CASE hstate[h] = "up"
      <3>1. outq'[h] = Append(outq[h], m)
        BY <1>0, <1>4, <2>2 DEF SendReply, TypeOK
      <3>2. TableNext(h, HeldAfter(pend[h], held[h], m),
                         GwofAfter(pend[h], gwof[h], m))
        BY <1>2, <1>4, <2>2
      <3>3. HostInv(h)'
        BY <1>0, <1>2, <1>3, <1>4, <2>2, <3>1, <3>2, ReplyStep
      <3> QED
        BY <1>4, <2>1, <3>3
    <2>3. CASE hstate[h] # "up"
      <3>1. outq'[h] = outq[h] /\ hstate[h] = "gone"
        BY <1>0, <1>4, <2>3 DEF SendReply, TypeOK
      <3>2. Popped(h)
        BY <1>3 DEF Popped
      <3>3. HostInv(h)'
        BY <1>0, <3>1, <3>2, PopStep
      <3> QED
        BY <1>4, <2>1, <3>3
    <2> QED
      BY <2>2, <2>3
  <1> HIDE DEF r
  <1>5. /\ \A m \in {Ack, Nack} : m \in Reply /\ m.status # "ADDR"
        /\ Nack.status = "NACK" /\ Ack.status = "ACK"
        /\ mods_in_subnet[0] = NULL /\ h # NULL
        /\ \A q \in Host : q # NULL
    BY MessageTypes, HostCtrlAssumption DEF Ack, Nack, IInv
  <1>6. CASE r.req = "DIADDR_REQUEST" /\ mgmt_diaddr_request(h)
    <2>1. ASSUME NEW a \in 1 .. LOCAL_MAX, IsAvailableDiaddr(a),
                 mods_in_subnet' = [mods_in_subnet EXCEPT ![a] = h],
                 SendReply(h, AddrReply(a)), UNCHANGED <<gateways, abort>>
          PROVE  mods_in_subnet'[0] = NULL /\ \A q \in Host : HostInv(q)'
      <3>1. a \in LocalAddr /\ a # 0 /\ mods_in_subnet[a] = NULL
        BY <2>1, HostCtrlAssumption DEF IsAvailableDiaddr, FreeAddrs, LocalAddr
      <3>2. AddrReply(a) \in Reply /\ AddrReply(a).addr = a
            /\ AddrReply(a).status = "ADDR"
        BY <3>1, MessageTypes DEF AddrReply
      <3>3. /\ mods_in_subnet'[a] = h
            /\ \A b \in LocalAddr : b # a => mods_in_subnet'[b] = mods_in_subnet[b]
            /\ 0 \in LocalAddr /\ \A b \in 1 .. LOCAL_MAX : b \in LocalAddr
        BY <1>0, <2>1, <3>1, HostCtrlAssumption DEF TypeOK, LocalAddr
      <3>4. hstate[h] = "up" =>
               TableNext(h, HeldAfter(r, held[h], AddrReply(a)),
                            GwofAfter(r, gwof[h], AddrReply(a)))
        <4>1. /\ HeldAfter(r, held[h], AddrReply(a)) = a
              /\ GwofAfter(r, gwof[h], AddrReply(a)) = gwof[h]
          BY <3>2 DEF HeldAfter, GwofAfter
        <4> QED
          BY <1>2, <1>6, <2>1, <3>3, <4>1 DEF TableIs, TableNext
      <3> QED
        BY <1>4, <1>5, <1>6, <2>1, <3>1, <3>2, <3>3, <3>4
    <2>2. CASE UNCHANGED <<mods_in_subnet, gateways, outq>>
      <3>1. ASSUME NEW q \in Host PROVE HostInv(q)'
        BY <1>0, <1>3, <2>2, PopStep DEF Popped, IInv
      <3> QED
        BY <1>5, <2>2, <3>1
    <2> QED
      BY <1>6, <2>1, <2>2 DEF mgmt_diaddr_request
  <1>7. CASE r.req = "DIADDR_RELEASE" /\ mgmt_diaddr_release(h)
    <2>0. \A m : GwofAfter(r, gwof[h], m) = gwof[h]
      BY <1>7 DEF GwofAfter
    <2>1. CASE /\ SendReply(h, Nack)
               /\ UNCHANGED <<mods_in_subnet, gateways>>
      <3>1. HeldAfter(r, held[h], Nack) = held[h]
        BY <1>5 DEF HeldAfter
      <3>2. hstate[h] = "up" => TableNext(h, HeldAfter(r, held[h], Nack),
                                             GwofAfter(r, gwof[h], Nack))
        BY <1>2, <2>0, <2>1, <3>1 DEF TableIs, TableNext
      <3> QED
        BY <1>4, <1>5, <2>1, <3>2
    <2>2. ASSUME NEW a \in 1 .. LOCAL_MAX, IsReleasedDiaddr(h, a),
                 mods_in_subnet' = [mods_in_subnet EXCEPT ![a] = NULL],
                 SendReply(h, Ack), UNCHANGED gateways
          PROVE  mods_in_subnet'[0] = NULL /\ \A q \in Host : HostInv(q)'
      <3>1. a \in LocalAddr /\ a # 0 /\ mods_in_subnet[a] = h
        BY <2>2, HostCtrlAssumption
        DEF IsReleasedDiaddr, ReleasableAddrs, LocalAddr
      <3>2. /\ mods_in_subnet'[a] = NULL
            /\ \A b \in LocalAddr : b # a => mods_in_subnet'[b] = mods_in_subnet[b]
            /\ 0 \in LocalAddr /\ \A b \in 1 .. LOCAL_MAX : b \in LocalAddr /\ b # 0
        BY <1>0, <2>2, <3>1, HostCtrlAssumption DEF TypeOK, LocalAddr
      <3>3. HeldAfter(r, held[h], Ack) = 0
        BY <1>5, <1>7 DEF HeldAfter
      <3>4. hstate[h] = "up" => TableNext(h, HeldAfter(r, held[h], Ack),
                                             GwofAfter(r, gwof[h], Ack))
        BY <1>2, <1>5, <2>0, <2>2, <3>1, <3>2, <3>3 DEF TableIs, TableNext
      <3> QED
        BY <1>4, <1>5, <2>2, <3>1, <3>2, <3>4
    <2> QED
      BY <1>7, <2>1, <2>2 DEF mgmt_diaddr_release
  <1>8. CASE r.req = "GW_REGISTER" /\ mgmt_gw_register(h, r.subnet)
    <2>0. \A m \in {Ack, Nack} : HeldAfter(r, held[h], m) = held[h]
      BY <1>5, <1>8 DEF HeldAfter
    <2>1. CASE SendReply(h, Nack) /\ UNCHANGED <<mods_in_subnet, gateways>>
      <3>1. GwofAfter(r, gwof[h], Nack) = gwof[h]
        BY <1>5 DEF GwofAfter
      <3>2. hstate[h] = "up" => TableNext(h, HeldAfter(r, held[h], Nack),
                                             GwofAfter(r, gwof[h], Nack))
        BY <1>2, <2>0, <2>1, <3>1 DEF TableIs, TableNext
      <3> QED
        BY <1>4, <1>5, <2>1, <3>2
    <2>2. CASE /\ gateways[r.subnet] = NULL
               /\ gateways' = [gateways EXCEPT ![r.subnet] = h]
               /\ SendReply(h, Ack) /\ UNCHANGED mods_in_subnet
      <3>1. /\ gateways'[r.subnet] = h
            /\ \A s \in Subnet : s # r.subnet => gateways'[s] = gateways[s]
        BY <1>0, <1>1, <2>2 DEF TypeOK
      <3>2. GwofAfter(r, gwof[h], Ack) = gwof[h] \cup {r.subnet}
        BY <1>5, <1>8 DEF GwofAfter
      <3>3. hstate[h] = "up" => TableNext(h, HeldAfter(r, held[h], Ack),
                                             GwofAfter(r, gwof[h], Ack))
        BY <1>2, <2>0, <2>2, <3>1, <3>2 DEF TableIs, TableNext
      <3> QED
        BY <1>1, <1>4, <1>5, <2>2, <3>1, <3>3
    <2> QED
      BY <1>8, <2>1, <2>2 DEF mgmt_gw_register
  <1>9. CASE r.req = "GW_UNREGISTER" /\ mgmt_gw_unregister(h, r.subnet)
    <2>0. \A m \in {Ack, Nack} : HeldAfter(r, held[h], m) = held[h]
      BY <1>5, <1>9 DEF HeldAfter
    <2>1. CASE SendReply(h, Nack) /\ UNCHANGED <<mods_in_subnet, gateways>>
      <3>1. GwofAfter(r, gwof[h], Nack) = gwof[h]
        BY <1>5 DEF GwofAfter
      <3>2. hstate[h] = "up" => TableNext(h, HeldAfter(r, held[h], Nack),
                                             GwofAfter(r, gwof[h], Nack))
        BY <1>2, <2>0, <2>1, <3>1 DEF TableIs, TableNext
      <3> QED
        BY <1>4, <1>5, <2>1, <3>2
    <2>2. CASE /\ gateways[r.subnet] = h
               /\ gateways' = [gateways EXCEPT ![r.subnet] = NULL]
               /\ SendReply(h, Ack) /\ UNCHANGED mods_in_subnet
      <3>1. /\ gateways'[r.subnet] = NULL
            /\ \A s \in Subnet : s # r.subnet => gateways'[s] = gateways[s]
        BY <1>0, <1>1, <2>2 DEF TypeOK
      <3>2. GwofAfter(r, gwof[h], Ack) = gwof[h] \ {r.subnet}
        BY <1>5, <1>9 DEF GwofAfter
      <3>3. hstate[h] = "up" => TableNext(h, HeldAfter(r, held[h], Ack),
                                             GwofAfter(r, gwof[h], Ack))
        BY <1>2, <1>5, <2>0, <2>2, <3>1, <3>2 DEF TableIs, TableNext
      <3> QED
        BY <1>1, <1>4, <1>5, <2>2, <3>1, <3>3
    <2> QED
      BY <1>9, <2>1, <2>2 DEF mgmt_gw_unregister
  <1>10. CASE /\ r.req = "UNKNOWN" /\ SendReply(h, Ack)
              /\ UNCHANGED <<mods_in_subnet, gateways, abort>>
    <2>1. /\ HeldAfter(r, held[h], Ack) = held[h]
          /\ GwofAfter(r, gwof[h], Ack) = gwof[h]
      BY <1>5, <1>10 DEF HeldAfter, GwofAfter
    <2>2. hstate[h] = "up" => TableNext(h, HeldAfter(r, held[h], Ack),
                                           GwofAfter(r, gwof[h], Ack))
      BY <1>2, <1>10, <2>1 DEF TableIs, TableNext
    <2> QED
      BY <1>4, <1>5, <1>10, <2>2
  <1> QED
    BY <1>6, <1>7, <1>8, <1>9, <1>10 DEF process_mgmt_msg, r

LEMMA ExtMsgStep ==
    ASSUME IInv, NEW h \in Host, iothread_handle_ext_msg(h)
    PROVE  mods_in_subnet'[0] = NULL /\ \A q \in Host : HostInv(q)'
  <1> DEFINE m == Head(inq[h])
  <1>0. /\ TypeOK /\ mods_in_subnet[0] = NULL /\ \A q \in Host : HostInv(q)
        /\ inq[h] # <<>> /\ inq' = [inq EXCEPT ![h] = Tail(@)] /\ io_running
        /\ UNCHANGED <<io_running, hstate, pend, held, gwof>>
    BY DEF iothread_handle_ext_msg, IInv
  <1>1. \A q \in Host : Popped(q)
    BY <1>0 DEF Popped, TypeOK
  <1>2. CASE m.type = "M" /\ process_mgmt_msg(h, m)
    BY <1>0, <1>2, MgmtStep
  <1>3. CASE m.type = "D" /\ process_data_msg(m)
    <2>1. m \in Packet
      <3>1. m \in Msgs
        BY <1>0 DEF TypeOK, Msgs
      <3> QED
        BY <1>3, <3>1, MessageTypes
    <2>2. UNCHANGED <<mods_in_subnet, gateways>>
      BY <1>3 DEF process_data_msg
    <2>3. CASE UNCHANGED outq
      <3>1. ASSUME NEW q \in Host PROVE HostInv(q)'
        BY <1>0, <1>1, <2>2, <2>3, PopStep
      <3> QED
        BY <1>0, <2>2, <3>1
    <2>4. ASSUME NEW p \in Host, Route(m.dest) = p, hstate[p] = "up",
                 outq' = [outq EXCEPT ![p] = Append(@, m)]
          PROVE  \A q \in Host : HostInv(q)'
      <3>1. outq'[p] = Append(outq[p], m)
            /\ \A q \in Host : q # p => outq'[q] = outq[q]
        BY <1>0, <2>4 DEF TypeOK
      <3>2. HostInv(p)'
        <4> HIDE DEF m
        <4> QED
          BY <1>0, <1>1, <2>1, <2>2, <2>4, <3>1, PacketStep
      <3>3. ASSUME NEW q \in Host, q # p PROVE HostInv(q)'
        BY <1>0, <1>1, <2>2, <3>1, <3>3, PopStep
      <3> QED
        BY <3>2, <3>3
    <2> QED
      BY <1>0, <1>3, <2>2, <2>3, <2>4 DEF process_data_msg
  <1>4. CASE UNCHANGED <<mods_in_subnet, gateways, outq>>
    <2>1. ASSUME NEW q \in Host PROVE HostInv(q)'
      BY <1>0, <1>1, <1>4, PopStep
    <2> QED
      BY <1>0, <1>4, <2>1
  <1> QED
    BY <1>2, <1>3, <1>4 DEF iothread_handle_ext_msg

LEMMA InprocStep ==
    ASSUME IInv,
           iothread_router_start \/ iothread_router_stop \/ iothread_shutdown
    PROVE  mods_in_subnet'[0] = NULL /\ \A q \in Host : HostInv(q)'
  <1>0. TypeOK /\ mods_in_subnet[0] = NULL /\ \A q \in Host : HostInv(q)
    BY DEF IInv
  <1>1. CASE iothread_router_start
    <2>1. ASSUME NEW q \in Host PROVE HostInv(q)'
      BY <1>0, <1>1, Frame DEF iothread_router_start, hostVars
    <2> QED
      BY <1>0, <1>1, <2>1 DEF iothread_router_start
  <1>2. CASE iothread_router_stop
    <2>0. UNCHANGED <<mods_in_subnet, gateways, io_running, pend, held, gwof>>
      BY <1>2 DEF iothread_router_stop
    <2>1. CASE UNCHANGED <<hstate, inq, outq>>
      <3>1. ASSUME NEW q \in Host PROVE HostInv(q)'
        BY <1>0, <2>0, <2>1, Frame
      <3> QED
        BY <1>0, <2>0, <3>1
    <2>2. CASE /\ hstate' = [h \in Host |-> IF hstate[h] = "up" THEN "gone"
                                            ELSE hstate[h]]
               /\ inq' = [h \in Host |-> <<>>]
               /\ outq' = [h \in Host |-> <<>>]
      <3>1. ASSUME NEW q \in Host PROVE HostInv(q)'
        <4>1. inq'[q] = <<>> /\ outq'[q] = <<>> /\ Len(outq'[q]) = 0
          BY <2>2
        <4>2. CASE hstate[q] = "new"
          <5>1. hstate'[q] = hstate[q] /\ inq'[q] = inq[q] /\ outq'[q] = outq[q]
            BY <1>0, <2>2, <4>1, <4>2 DEF HostInv
          <5> QED
            BY <1>0, <2>0, <5>1, Frame
        <4>3. CASE hstate[q] # "new"
          <5>1. hstate'[q] = "gone"
            BY <1>0, <2>2, <4>3 DEF TypeOK
          <5> QED
            BY <4>1, <5>1 DEF HostInv, Delivered
        <4> QED
          BY <4>2, <4>3
      <3> QED
        BY <1>0, <2>0, <3>1
    <2> QED
      BY <1>2, <2>1, <2>2 DEF iothread_router_stop
  <1>3. CASE iothread_shutdown
    <2>1. ASSUME NEW q \in Host PROVE HostInv(q)'
      BY <1>0, <1>3, Frame DEF iothread_shutdown, hostVars
    <2>2. 0 \in LocalAddr
      BY HostCtrlAssumption DEF LocalAddr
    <2> QED
      BY <1>3, <2>1, <2>2 DEF iothread_shutdown
  <1> QED
    BY <1>1, <1>2, <1>3

LEMMA MainStep ==
    ASSUME IInv, MainNext
    PROVE  mods_in_subnet'[0] = NULL /\ \A q \in Host : HostInv(q)'
  <1>1. UNCHANGED <<ioVars, hostVars>>
    BY DEF MainNext, osd_hostctrl_start, osd_hostctrl_stop, osd_hostctrl_free,
       StartReturns, StopReturns, StatusTimesOut, FreeReturns
  <1>2. ASSUME NEW q \in Host PROVE HostInv(q)'
    BY <1>1, Frame DEF IInv, ioVars, hostVars
  <1> QED
    BY <1>1, <1>2 DEF IInv, ioVars

LEMMA SendStep ==
    ASSUME IInv, NEW h \in Host, NEW m \in Msgs, HostSends(h, m),
           pend' \in [Host -> Request \cup {NoReq}],
           \A q \in Host : q # h => pend'[q] = pend[q],
           \/ /\ m \in Request /\ pend[h] = NoReq /\ pend'[h] = m
              /\ m.req = "DIADDR_REQUEST" => held[h] = 0
           \/ m \notin Request /\ pend'[h] = pend[h]
    PROVE  \A q \in Host : HostInv(q)'
  <1>0. /\ TypeOK /\ \A q \in Host : HostInv(q)
        /\ hstate[h] = "up" /\ inq' = [inq EXCEPT ![h] = Append(@, m)]
        /\ UNCHANGED <<mods_in_subnet, gateways, io_running, hstate, outq,
                       held, gwof>>
    BY DEF IInv, HostSends, ioVars
  <1>1. inq'[h] = Append(inq[h], m) /\ \A q \in Host : q # h => inq'[q] = inq[q]
    BY <1>0 DEF TypeOK
  <1>2. ASSUME NEW q \in Host, q # h PROVE HostInv(q)'
    BY <1>0, <1>1, <1>2, Frame
  <1>3. /\ Len(inq[h]) \in Nat /\ Len(inq'[h]) = Len(inq[h]) + 1
        /\ \A i \in 1 .. Len(inq[h]) : inq'[h][i] = inq[h][i]
        /\ inq'[h][Len(inq[h]) + 1] = m
        /\ \A i \in 1 .. Len(inq'[h]) : i \in 1 .. Len(inq[h]) \/ i = Len(inq[h]) + 1
    BY <1>0, <1>1 DEF TypeOK
  <1>4. OneExchange(h) /\ Delivered(h) /\ (io_running => Agrees(h))
    BY <1>0 DEF HostInv
  <1>5. CASE m \notin Request /\ pend'[h] = pend[h]
    <2>1. m.type # "M"
      BY <1>5, MessageTypes
    <2>2. OneExchange(h)'
      <3>1. \A i \in 1 .. Len(inq'[h]) : inq'[h][i].type = "M"
              => i \in 1 .. Len(inq[h]) /\ inq'[h][i] = inq[h][i]
        BY <1>3, <2>1
      <3>2. /\ \A i, j \in 1 .. Len(inq'[h]) :
                  inq'[h][i].type = "M" /\ inq'[h][j].type = "M" => i = j
            /\ \A i \in 1 .. Len(inq'[h]) :
                  inq'[h][i].type = "M" => inq'[h][i] = pend[h]
        BY <1>4, <3>1 DEF OneExchange
      <3>3. (\A i \in 1 .. Len(inq[h]) : inq[h][i].type # "M")
              => \A i \in 1 .. Len(inq'[h]) : inq'[h][i].type # "M"
        BY <3>1
      <3> QED
        BY <1>0, <1>4, <1>5, <3>2, <3>3 DEF OneExchange
    <2>3. Delivered(h)' /\ (io_running' => Agrees(h)')
      BY <1>0, <1>4, <1>5 DEF Delivered, Agrees, TableIs
    <2> QED
      BY <1>0, <1>2, <2>2, <2>3 DEF HostInv
  <1>6. CASE /\ m \in Request /\ pend[h] = NoReq /\ pend'[h] = m
             /\ m.req = "DIADDR_REQUEST" => held[h] = 0
    <2>1. m.type = "M"
      BY <1>6, MessageTypes
    <2>2. \A j \in 1 .. Len(outq[h]) : outq[h][j].type # "M"
      BY <1>4, <1>6 DEF OneExchange
    <2>3. \A i \in 1 .. Len(inq[h]) : inq[h][i].type # "M"
      <3> SUFFICES ASSUME NEW i \in 1 .. Len(inq[h]), inq[h][i].type = "M"
                   PROVE  FALSE
        OBVIOUS
      <3>1. inq[h][i] \in Msgs
        BY <1>0 DEF TypeOK, Msgs
      <3>2. inq[h][i] \in Request
        BY <3>1, MessageTypes
      <3>3. inq[h][i] = NoReq
        BY <1>4, <1>6 DEF OneExchange
      <3> QED
        BY <3>2, <3>3 DEF Request, ReqName, NoReq
    <2>4. OneExchange(h)'
      BY <1>0, <1>3, <1>6, <2>2, <2>3 DEF OneExchange
    <2>5. Delivered(h)' /\ (io_running' => Agrees(h)')
      <3>1. \A i \in 1 .. Len(outq[h]) : \A j \in 1 .. i : j \in 1 .. Len(outq[h])
        BY <1>0 DEF TypeOK
      <3>2. Delivered(h)'
        BY <1>0, <1>4, <2>2, <3>1 DEF Delivered
      <3> QED
        BY <1>0, <1>4, <2>2, <3>2 DEF Agrees, TableIs
    <2> QED
      BY <1>0, <1>2, <2>4, <2>5 DEF HostInv
  <1> QED
    BY <1>5, <1>6

(* Host h reads message Head(outq[h]).                                     *)
LEMMA ReceiveStep ==
    ASSUME IInv, NEW h \in Host, HostReceives(h)
    PROVE  \A q \in Host : HostInv(q)'
  <1> DEFINE m == Head(outq[h])
  <1>0. /\ TypeOK /\ \A q \in Host : HostInv(q)
        /\ hstate[h] = "up" /\ outq[h] # <<>>
        /\ outq' = [outq EXCEPT ![h] = Tail(@)]
        /\ UNCHANGED <<mods_in_subnet, gateways, io_running, hstate, inq>>
    BY DEF IInv, HostReceives, ioVars
  <1>1. outq'[h] = Tail(outq[h]) /\ \A q \in Host : q # h => outq'[q] = outq[q]
    BY <1>0 DEF TypeOK
  <1>2. ASSUME NEW q \in Host, q # h PROVE HostInv(q)'
    <2>1. pend'[q] = pend[q] /\ held'[q] = held[q] /\ gwof'[q] = gwof[q]
      BY <1>0, <1>2 DEF HostReceives, TypeOK
    <2> QED
      BY <1>0, <1>1, <1>2, <2>1, Frame
  <1>3. outq[h] \in Seq(Reply \cup Packet)
    BY <1>0 DEF TypeOK
  <1>4. /\ Len(outq[h]) \in Nat /\ Len(outq'[h]) = Len(outq[h]) - 1
        /\ \A i \in 1 .. Len(outq'[h]) :
              outq'[h][i] = outq[h][i + 1] /\ i + 1 \in 1 .. Len(outq[h])
        /\ m = outq[h][1] /\ 1 \in 1 .. Len(outq[h])
    <2> DEFINE s == outq[h]
               t == outq'[h]
    <2>1. s \in Seq(Reply \cup Packet) /\ s # <<>> /\ t = Tail(s) /\ m = Head(s)
      BY <1>0, <1>1, <1>3
    <2> HIDE DEF s, t, m
    <2>2. /\ Len(s) \in Nat /\ Len(t) = Len(s) - 1
          /\ \A i \in 1 .. Len(t) : t[i] = s[i + 1] /\ i + 1 \in 1 .. Len(s)
          /\ m = s[1] /\ 1 \in 1 .. Len(s)
      BY <2>1, TailFacts
    <2> QED
      BY <2>2 DEF s, t
  <1>5. OneExchange(h) /\ Delivered(h) /\ (io_running => Agrees(h))
    BY <1>0 DEF HostInv
  <1>6. m \in Reply \cup Packet
    BY <1>3, <1>4
  <1> HIDE DEF m
  <1>7. CASE m.type = "D"
    <2>1. pend' = pend /\ held' = held /\ gwof' = gwof
      BY <1>7 DEF HostReceives, m
    <2>2. OneExchange(h)'
      <3>1. \A i, j \in 1 .. Len(outq'[h]) :
               outq'[h][i].type = "M" /\ outq'[h][j].type = "M" => i = j
        <4> SUFFICES ASSUME NEW i \in 1 .. Len(outq'[h]), NEW j \in 1 .. Len(outq'[h]),
                            outq'[h][i].type = "M", outq'[h][j].type = "M"
                     PROVE  i = j
          OBVIOUS
        <4>1. i + 1 = j + 1
          BY <1>4, <1>5 DEF OneExchange
        <4> QED
          BY <1>4, <4>1
      <3>2. \A j \in 1 .. Len(outq'[h]) : outq'[h][j].type = "M" =>
               /\ pend[h] # NoReq
               /\ \A i \in 1 .. Len(inq[h]) : inq[h][i].type # "M"
               /\ outq'[h][j].status = "ADDR" => pend[h].req = "DIADDR_REQUEST"
        BY <1>4, <1>5 DEF OneExchange
      <3> QED
        BY <1>0, <1>5, <2>1, <3>1, <3>2 DEF OneExchange
    <2>3. \A i \in 1 .. Len(outq'[h]) : \A j \in 1 .. i :
             /\ j \in 1 .. Len(outq'[h]) /\ j + 1 \in 1 .. i + 1
             /\ outq'[h][j] = outq[h][j + 1]
      BY <1>4
    <2>4. \A i \in 1 .. Len(outq'[h]) :
             (\A j \in 1 .. i : outq'[h][j].type # "M")
               => \A j \in 1 .. i + 1 : outq[h][j].type # "M"
      <3> SUFFICES ASSUME NEW i \in 1 .. Len(outq'[h]),
                          \A j \in 1 .. i : outq'[h][j].type # "M",
                          NEW j \in 1 .. i + 1
                   PROVE  outq[h][j].type # "M"
        OBVIOUS
      <3>1. CASE j = 1
        BY <1>4, <1>7, <3>1
      <3>2. CASE j # 1
        <4>1. j - 1 \in 1 .. i
          BY <1>4, <3>2
        <4>2. outq'[h][j - 1] = outq[h][(j - 1) + 1] /\ (j - 1) + 1 = j
          BY <2>3, <4>1
        <4> QED
          BY <4>1, <4>2
      <3> QED
        BY <3>1, <3>2
    <2>5. Delivered(h)'
      <3> SUFFICES ASSUME NEW i \in 1 .. Len(outq'[h]), outq'[h][i].type = "D"
                   PROVE  /\ (\A j \in 1 .. i : outq'[h][j].type # "M")
                               => Expects(outq'[h][i].dest, held[h], gwof[h])
                          /\ \A j \in 1 .. i : outq'[h][j].type = "M" =>
                               Expects(outq'[h][i].dest,
                                       HeldAfter(pend[h], held[h], outq'[h][j]),
                                       GwofAfter(pend[h], gwof[h], outq'[h][j]))
        BY <2>1 DEF Delivered
      <3>1. i + 1 \in 1 .. Len(outq[h]) /\ outq'[h][i] = outq[h][i + 1]
        BY <1>4
      <3> QED
        BY <1>5, <2>3, <2>4, <3>1 DEF Delivered
    <2>6. io_running' => Agrees(h)'
      <3> SUFFICES ASSUME io_running PROVE Agrees(h)'
        BY <1>0
      <3>1. (\A j \in 1 .. Len(outq'[h]) : outq'[h][j].type # "M")
               => \A j \in 1 .. Len(outq[h]) : outq[h][j].type # "M"
        <4> SUFFICES ASSUME \A j \in 1 .. Len(outq'[h]) : outq'[h][j].type # "M",
                            NEW j \in 1 .. Len(outq[h])
                     PROVE  outq[h][j].type # "M"
          OBVIOUS
        <4>1. CASE j = 1
          BY <1>4, <1>7, <4>1
        <4>2. CASE j # 1
          <5>1. j - 1 \in 1 .. Len(outq'[h]) /\ (j - 1) + 1 = j
            BY <1>4, <4>2
          <5>2. outq'[h][j - 1] = outq[h][(j - 1) + 1]
            BY <1>4, <5>1
          <5> QED
            BY <5>1, <5>2
        <4> QED
          BY <4>1, <4>2
      <3>2. \A j \in 1 .. Len(outq'[h]) : outq'[h][j].type = "M" =>
               TableIs(h, HeldAfter(pend[h], held[h], outq'[h][j]),
                          GwofAfter(pend[h], gwof[h], outq'[h][j]))
        BY <1>4, <1>5 DEF Agrees
      <3> QED
        BY <1>0, <1>5, <2>1, <3>1, <3>2 DEF Agrees, TableIs
    <2> QED
      BY <1>0, <1>2, <2>2, <2>5, <2>6 DEF HostInv
  <1>8. CASE m.type = "M"
    <2>0. m \in Reply /\ Len(outq[h]) > 0
      BY <1>4, <1>6, <1>8, MessageTypes
    <2>1. /\ pend'[h] = NoReq
          /\ held'[h] = HeldAfter(pend[h], held[h], m)
          /\ gwof'[h] = GwofAfter(pend[h], gwof[h], m)
      BY <1>0, <1>8 DEF HostReceives, TypeOK, m
    <2>2. \A j \in 1 .. Len(outq'[h]) : outq'[h][j].type # "M"
      <3> SUFFICES ASSUME NEW j \in 1 .. Len(outq'[h]), outq'[h][j].type = "M"
                   PROVE  FALSE
        OBVIOUS
      <3>1. j + 1 \in 1 .. Len(outq[h]) /\ outq[h][j + 1].type = "M"
            /\ outq[h][1].type = "M" /\ 1 \in 1 .. Len(outq[h])
        BY <1>4, <1>8
      <3>2. j + 1 = 1
        BY <1>5, <3>1 DEF OneExchange
      <3> QED
        BY <1>4, <3>2
    <2>3. \A i \in 1 .. Len(inq[h]) : inq[h][i].type # "M"
      BY <1>4, <1>5, <1>8 DEF OneExchange
    <2>4. OneExchange(h)'
      <3>1. NoReq.req # "DIADDR_REQUEST"
        BY DEF NoReq
      <3> QED
        BY <1>0, <2>1, <2>2, <2>3, <3>1 DEF OneExchange
    <2>5. Delivered(h)'
      <3> SUFFICES ASSUME NEW i \in 1 .. Len(outq'[h]), outq'[h][i].type = "D"
                   PROVE  /\ Expects(outq'[h][i].dest, held'[h], gwof'[h])
                          /\ \A j \in 1 .. i : outq'[h][j].type # "M"
        BY DEF Delivered
      <3>1. /\ i + 1 \in 1 .. Len(outq[h]) /\ outq'[h][i] = outq[h][i + 1]
            /\ 1 \in 1 .. i + 1 /\ \A j \in 1 .. i : j \in 1 .. Len(outq'[h])
        BY <1>4
      <3>2. Expects(outq[h][i + 1].dest, HeldAfter(pend[h], held[h], m),
                                         GwofAfter(pend[h], gwof[h], m))
        BY <1>4, <1>5, <1>8, <3>1 DEF Delivered
      <3> QED
        BY <2>1, <2>2, <3>1, <3>2
    <2>6. io_running' => Agrees(h)'
      <3>1. io_running => TableIs(h, HeldAfter(pend[h], held[h], m),
                                     GwofAfter(pend[h], gwof[h], m))
        BY <1>4, <1>5, <1>8 DEF Agrees
      <3> QED
        BY <1>0, <2>1, <2>2, <3>1 DEF Agrees, TableIs
    <2> QED
      BY <1>0, <1>2, <2>4, <2>5, <2>6 DEF HostInv
  <1> QED
    BY <1>7, <1>8 DEF HostReceives, m

LEMMA HostStep ==
    ASSUME IInv, NEW h \in Host, HostNext(h)
    PROVE  mods_in_subnet'[0] = NULL /\ \A q \in Host : HostInv(q)'
  <1>0. /\ TypeOK /\ mods_in_subnet[0] = NULL /\ \A q \in Host : HostInv(q)
        /\ UNCHANGED ioVars
    BY DEF IInv, HostNext, HostConnect, HostRequests, HostSendsData, HostSends,
       HostReceives, HostLeaves
  <1>1. CASE HostConnect(h)
    <2>1. hstate'[h] = "up" /\ \A q \in Host : q # h => hstate'[q] = hstate[q]
      BY <1>0, <1>1 DEF HostConnect, TypeOK
    <2>2. UNCHANGED <<mods_in_subnet, gateways, io_running, inq, outq, pend,
                      held, gwof>>
      BY <1>1 DEF HostConnect, ioVars
    <2>3. ASSUME NEW q \in Host, q # h PROVE HostInv(q)'
      BY <1>0, <2>1, <2>2, <2>3, Frame
    <2>4. HostInv(h)'
      <3>1. /\ inq[h] = <<>> /\ outq[h] = <<>> /\ pend[h] = NoReq
            /\ held[h] = 0 /\ gwof[h] = {} /\ Delivered(h)
            /\ io_running => Agrees(h)
        BY <1>0, <1>1 DEF HostConnect, HostInv
      <3>2. Delivered(h)' /\ (io_running' => Agrees(h)')
        BY <2>2, <3>1 DEF Delivered, Agrees, TableIs
      <3>3. OneExchange(h)'
        BY <2>2, <3>1 DEF OneExchange
      <3> QED
        BY <2>1, <3>2, <3>3 DEF HostInv
    <2> QED
      BY <1>0, <2>2, <2>3, <2>4
  <1>2. ASSUME NEW m \in Inputs \cap Request, HostRequests(h, m)
        PROVE  \A q \in Host : HostInv(q)'
    <2>1. /\ pend' \in [Host -> Request \cup {NoReq}] /\ pend'[h] = m
          /\ \A q \in Host : q # h => pend'[q] = pend[q]
      BY <1>0, <1>2 DEF HostRequests, TypeOK
    <2>2. m \in Msgs
      BY DEF Msgs
    <2> QED
      BY <1>2, <2>1, <2>2, SendStep DEF HostRequests
  <1>3. ASSUME NEW m \in Inputs \ Request, HostSendsData(h, m)
        PROVE  \A q \in Host : HostInv(q)'
    <2>1. pend' = pend /\ pend \in [Host -> Request \cup {NoReq}]
      BY <1>0, <1>3 DEF HostSendsData, TypeOK
    <2>2. m \in Msgs
      BY <1>3, HostCtrlAssumption DEF Msgs
    <2> QED
      BY <1>3, <2>1, <2>2, SendStep DEF HostSendsData
  <1>4. CASE HostReceives(h)
    BY <1>0, <1>4, ReceiveStep DEF ioVars
  <1>5. CASE HostLeaves(h)
    <2>1. hstate'[h] = "gone" /\ outq'[h] = <<>>
          /\ \A q \in Host : q # h => /\ hstate'[q] = hstate[q]
                                      /\ inq'[q] = inq[q] /\ outq'[q] = outq[q]
      BY <1>0, <1>5 DEF HostLeaves, TypeOK
    <2>2. UNCHANGED <<mods_in_subnet, gateways, io_running, pend, held, gwof>>
      BY <1>5 DEF HostLeaves, ioVars
    <2>3. ASSUME NEW q \in Host, q # h PROVE HostInv(q)'
      BY <1>0, <2>1, <2>2, <2>3, Frame
    <2>4. HostInv(h)'
      BY <2>1 DEF HostInv, Delivered
    <2> QED
      BY <1>0, <2>2, <2>3, <2>4
  <1> QED
    BY <1>0, <1>1, <1>2, <1>3, <1>4, <1>5 DEF HostNext, ioVars

-----------------------------------------------------------------------------
(* The tables of the host controller and what every connected host was     *)
(* told agree up to the reply under way: IInv is inductive.                *)
THEOREM TablesAgree == Spec => []IInv
  <1>1. Init => IInv
    <2> SUFFICES ASSUME Init PROVE IInv
      OBVIOUS
    <2>1. TypeOK
      BY InitType
    <2>2. ASSUME NEW h \in Host PROVE HostInv(h)
      <3>1. /\ hstate[h] = "new" /\ inq[h] = <<>> /\ outq[h] = <<>>
            /\ pend[h] = NoReq /\ held[h] = 0 /\ gwof[h] = {}
        BY DEF Init
      <3>2. TableIs(h, 0, {})
        <4>1. \A b \in 1 .. LOCAL_MAX : b \in LocalAddr /\ b # 0
          BY HostCtrlAssumption DEF LocalAddr
        <4> QED
          BY <4>1, HostCtrlAssumption DEF Init, TableIs
      <3> QED
        BY <3>1, <3>2 DEF HostInv, Delivered, Agrees
    <2>3. mods_in_subnet[0] = NULL
      BY HostCtrlAssumption DEF Init, LocalAddr
    <2> QED
      BY <2>1, <2>2, <2>3 DEF IInv
  <1>2. IInv /\ [Next]_vars => IInv'
    <2> SUFFICES ASSUME IInv, [Next]_vars PROVE IInv'
      OBVIOUS
    <2>0. TypeOK'
      BY NextType DEF IInv
    <2>1. CASE Next
      BY <2>0, <2>1, ExtMsgStep, InprocStep, MainStep, HostStep
      DEF Next, IoNext, IInv
    <2>2. CASE UNCHANGED vars
      <3>1. ASSUME NEW q \in Host PROVE HostInv(q)'
        BY <2>2, Frame DEF IInv, vars, ioVars, hostVars
      <3> QED
        BY <2>0, <2>2, <3>1 DEF IInv, vars, ioVars
    <2> QED
      BY <2>1, <2>2
  <1> QED
    BY <1>1, <1>2, PTL DEF Spec

LEMMA RequestIsNotNone ==
    NoReq.req = "NONE"
    /\ \A s \in Subnet : Req("GW_UNREGISTER", s).req = "GW_UNREGISTER"
                          /\ Req("GW_UNREGISTER", s).subnet = s
  BY DEF NoReq, Req

(* An address mgmt_diaddr_request gave a host is that host's entry of the  *)
(* lookup table until the host asks to release it.                         *)
THEOREM AddressesStayRouted == Spec => []AddressHeldIsRouted
  <1>1. IInv => AddressHeldIsRouted
    <2> SUFFICES ASSUME IInv, io_running, NEW h \in Host, hstate[h] = "up",
                        held[h] # 0, pend[h].req # "DIADDR_RELEASE"
                 PROVE  mods_in_subnet[held[h]] = h
      BY DEF AddressHeldIsRouted
    <2>1. OneExchange(h) /\ Agrees(h) /\ TypeOK
      BY DEF IInv, HostInv
    <2>2. held[h] \in 1 .. LOCAL_MAX
      BY <2>1, HostCtrlAssumption DEF TypeOK, LocalAddr
    <2>3. CASE \A j \in 1 .. Len(outq[h]) : outq[h][j].type # "M"
      BY <2>1, <2>2, <2>3 DEF Agrees, TableIs
    <2>4. ASSUME NEW j \in 1 .. Len(outq[h]), outq[h][j].type = "M"
          PROVE  mods_in_subnet[held[h]] = h
      <3>1. outq[h][j].status # "ADDR"
        BY <2>1, <2>4 DEF OneExchange
      <3>2. HeldAfter(pend[h], held[h], outq[h][j]) = held[h]
        BY <3>1 DEF HeldAfter
      <3>3. TableIs(h, held[h], GwofAfter(pend[h], gwof[h], outq[h][j]))
        BY <2>1, <2>4, <3>2 DEF Agrees
      <3> QED
        BY <2>2, <3>3 DEF TableIs
    <2> QED
      BY <2>3, <2>4
  <1> QED
    BY <1>1, TablesAgree, PTL

(* A host whose GW_REGISTER was acknowledged stays the gateway of the      *)
(* subnet until it asks to unregister.                                     *)
THEOREM GatewaysStayRouted == Spec => []GatewayAckIsRouted
  <1>1. IInv => GatewayAckIsRouted
    <2> SUFFICES ASSUME IInv, io_running, NEW h \in Host, hstate[h] = "up",
                        NEW s \in gwof[h], pend[h] # Req("GW_UNREGISTER", s)
                 PROVE  gateways[s] = h
      BY DEF GatewayAckIsRouted
    <2>1. Agrees(h) /\ TypeOK
      BY DEF IInv, HostInv
    <2>2. s \in Subnet
      BY <2>1 DEF TypeOK
    <2>3. CASE \A j \in 1 .. Len(outq[h]) : outq[h][j].type # "M"
      BY <2>1, <2>2, <2>3 DEF Agrees, TableIs
    <2>4. ASSUME NEW j \in 1 .. Len(outq[h]), outq[h][j].type = "M"
          PROVE  gateways[s] = h
      <3>1. ~(pend[h].req = "GW_UNREGISTER" /\ pend[h].subnet = s)
        <4>1. CASE pend[h] = NoReq
          BY <4>1, RequestIsNotNone
        <4>2. CASE pend[h] \in Request
          BY <4>2 DEF Request, Req
        <4> QED
          BY <2>1, <4>1, <4>2 DEF TypeOK
      <3>2. s \in GwofAfter(pend[h], gwof[h], outq[h][j])
        BY <3>1 DEF GwofAfter
      <3>3. TableIs(h, HeldAfter(pend[h], held[h], outq[h][j]),
                       GwofAfter(pend[h], gwof[h], outq[h][j]))
        BY <2>1, <2>4 DEF Agrees
      <3> QED
        BY <2>2, <3>2, <3>3 DEF TableIs
    <2> QED
      BY <2>3, <2>4
  <1> QED
    BY <1>1, TablesAgree, PTL

(* Every packet process_data_msg puts on a connection is for an address or *)
(* subnet the host knows to be its own by the time it reads the packet.    *)
THEOREM DeliveryIsExpected == Spec => []PacketsReachAddressee
  <1>1. IInv => PacketsReachAddressee
    <2> SUFFICES ASSUME IInv, NEW h \in Host, NEW i \in 1 .. Len(outq[h]),
                        outq[h][i].type = "D"
                 PROVE  IF Replies(h, i) = {}
                        THEN Expects(outq[h][i].dest, held[h], gwof[h])
                        ELSE \E j \in Replies(h, i) :
                               Expects(outq[h][i].dest,
                                       HeldAfter(pend[h], held[h], outq[h][j]),
                                       GwofAfter(pend[h], gwof[h], outq[h][j]))
      BY DEF PacketsReachAddressee
    <2>1. Delivered(h)
      BY DEF IInv, HostInv
    <2>2. CASE Replies(h, i) = {}
      BY <2>1, <2>2 DEF Delivered, Replies
    <2>3. ASSUME NEW j \in Replies(h, i)
          PROVE  Expects(outq[h][i].dest,
                         HeldAfter(pend[h], held[h], outq[h][j]),
                         GwofAfter(pend[h], gwof[h], outq[h][j]))
      BY <2>1, <2>3 DEF Delivered, Replies
    <2> QED
      BY <2>2, <2>3
  <1> QED
    BY <1>1, TablesAgree, PTL

(* One message of host h leaves the entries of all other hosts alone.      *)
LEMMA OthersKeepEntries ==
    ASSUME TypeOK, NEW h \in Host, iothread_handle_ext_msg(h),
           NEW g \in Host, g # h
    PROVE  /\ \A a \in LocalAddr : mods_in_subnet[a] = g => mods_in_subnet'[a] = g
           /\ \A s \in Subnet : gateways[s] = g => gateways'[s] = g
  <1> DEFINE m == Head(inq[h])
  <1> USE HostCtrlAssumption
  <1>1. CASE mgmt_diaddr_request(h)
    BY <1>1 DEF mgmt_diaddr_request, IsAvailableDiaddr, FreeAddrs, TypeOK, LocalAddr
  <1>2. CASE mgmt_diaddr_release(h)
    BY <1>2 DEF mgmt_diaddr_release, IsReleasedDiaddr, ReleasableAddrs, TypeOK,
                LocalAddr
  <1>3. CASE mgmt_gw_register(h, m.subnet)
    BY <1>3 DEF mgmt_gw_register, TypeOK
  <1>4. CASE mgmt_gw_unregister(h, m.subnet)
    BY <1>4 DEF mgmt_gw_unregister, TypeOK
  <1>5. CASE UNCHANGED <<mods_in_subnet, gateways>>
    BY <1>5
  <1> QED
    BY <1>1, <1>2, <1>3, <1>4, <1>5
    DEF iothread_handle_ext_msg, process_mgmt_msg, process_data_msg

(* Only a message of the owner takes an entry away from a host: none of    *)
(* the management handlers, and no other step of the controller, its main  *)
(* thread or another host, does.                                           *)
THEOREM OnlyOwnersFreeEntries == Spec => OnlyOwnerFreesEntry
  <1> DEFINE Keeps(h) == /\ \A a \in LocalAddr : mods_in_subnet[a] = h
                                                    => mods_in_subnet'[a] = h
                         /\ \A s \in Subnet : gateways[s] = h => gateways'[s] = h
             Step == io_running' => \A h \in Host :
                        (\/ \E a \in LocalAddr : mods_in_subnet[a] = h
                                                 /\ mods_in_subnet'[a] # h
                         \/ \E s \in Subnet : gateways[s] = h /\ gateways'[s] # h)
                        => Len(inq'[h]) < Len(inq[h])
  <1>1. TypeOK /\ [Next]_vars => Step
    <2> SUFFICES ASSUME TypeOK, [Next]_vars, io_running', NEW h \in Host
                 PROVE  Keeps(h) \/ Len(inq'[h]) < Len(inq[h])
      OBVIOUS
    <2>1. CASE iothread_handle_ext_msg(h)
      <3>1. inq[h] # <<>> /\ inq'[h] = Tail(inq[h])
            /\ inq[h] \in Seq(Request \cup Packet \cup {Junk})
        BY <2>1 DEF iothread_handle_ext_msg, TypeOK
      <3> QED
        BY <3>1
    <2>2. ASSUME NEW g \in Host, iothread_handle_ext_msg(g), g # h PROVE Keeps(h)
      BY <2>2, OthersKeepEntries
    <2>3. CASE UNCHANGED <<mods_in_subnet, gateways>>
      BY <2>3
    <2>4. ~iothread_shutdown
      BY DEF iothread_shutdown
    <2>5. CASE iothread_router_start \/ iothread_router_stop
      BY <2>3, <2>5 DEF iothread_router_start, iothread_router_stop
    <2>6. CASE MainNext
      BY <2>3, <2>6 DEF MainNext, osd_hostctrl_start, osd_hostctrl_stop,
         osd_hostctrl_free, StartReturns, StopReturns, StatusTimesOut, FreeReturns,
         ioVars
    <2>7. ASSUME NEW g \in Host, HostNext(g) PROVE UNCHANGED <<mods_in_subnet, gateways>>
      BY <2>7 DEF HostNext, HostConnect, HostRequests, HostSendsData, HostSends,
         HostReceives, HostLeaves, ioVars
    <2>8. CASE UNCHANGED vars
      BY <2>3, <2>8 DEF vars, ioVars
    <2> QED
      BY <2>1, <2>2, <2>3, <2>4, <2>5, <2>6, <2>7, <2>8 DEF Next, IoNext
  <1> QED
    BY <1>1, TypeCorrect, PTL DEF Spec, OnlyOwnerFreesEntry
-----------------------------------------------------------------------------
(* Every request gets one reply.                                           *)

NoRequest(h) == \A i \in 1 .. Len(inq[h]) : inq[h][i].type # "M"
NoReply(h)   == \A j \in 1 .. Len(outq[h]) : outq[h][j].type # "M"

(* A request is not forgotten, and a release is refused for a reason.      *)
Answering(h) == pend[h] # NoReq => ~NoRequest(h) \/ ~NoReply(h)
Refused(h)   == \A j \in 1 .. Len(outq[h]) :
                   pend[h].req = "DIADDR_RELEASE" /\ outq[h][j] = Nack =>
                       held[h] = 0 \/ held[h] >= SUBNET_MAX
ReplyInv     == Alive => \A h \in Host : hstate[h] = "up" => Answering(h) /\ Refused(h)

LEMMA AliveBefore == Next /\ Alive' => Alive
  BY DEF Next, IoNext, MainNext, HostNext, iothread_handle_ext_msg,
     iothread_router_start, iothread_router_stop, iothread_shutdown, RecvFromMain,
     osd_hostctrl_start, osd_hostctrl_stop, osd_hostctrl_free, StartReturns,
     StopReturns, StatusTimesOut, FreeReturns, HostConnect, HostRequests,
     HostSendsData, HostSends, HostReceives, HostLeaves, Alive

LEMMA AppendIs ==
    ASSUME NEW S, NEW s \in Seq(S), NEW x \in S
    PROVE  /\ Append(s, x) \in Seq(S) /\ Len(Append(s, x)) = Len(s) + 1
           /\ Len(s) \in Nat /\ Append(s, x)[Len(s) + 1] = x
           /\ \A i \in 1 .. Len(s) : Append(s, x)[i] = s[i]
           /\ \A i \in 1 .. Len(s) + 1 : i \in 1 .. Len(s) \/ i = Len(s) + 1
           /\ \A i \in 1 .. Len(s) : i \in 1 .. Len(s) + 1
           /\ Len(s) + 1 \in 1 .. Len(s) + 1
  OBVIOUS

LEMMA TailFree ==
    ASSUME NEW S, NEW s \in Seq(S), s # <<>>
    PROVE  (\A i \in 1 .. Len(s) : s[i].type # "M")
             <=> /\ \A i \in 1 .. Len(Tail(s)) : Tail(s)[i].type # "M"
                 /\ Head(s).type # "M"
  <1>1. ASSUME \A i \in 1 .. Len(s) : s[i].type # "M"
        PROVE  /\ \A i \in 1 .. Len(Tail(s)) : Tail(s)[i].type # "M"
               /\ Head(s).type # "M"
    BY <1>1, TailFacts
  <1>2. ASSUME \A i \in 1 .. Len(Tail(s)) : Tail(s)[i].type # "M", Head(s).type # "M",
               NEW i \in 1 .. Len(s)
        PROVE  s[i].type # "M"
    <2>1. CASE i = 1
      BY <1>2, <2>1, TailFacts
    <2>2. CASE i # 1
      <3>1. i - 1 \in 1 .. Len(Tail(s)) /\ (i - 1) + 1 = i
        BY <2>2, TailFacts
      <3>2. Tail(s)[i - 1] = s[i]
        BY <3>1, TailFacts
      <3> QED BY <1>2, <3>1, <3>2
    <2> QED BY <2>1, <2>2
  <1> QED BY <1>1, <1>2

(* What an added or a taken message does to a host's two queues.           *)
LEMMA RequestQueue ==
    ASSUME TypeOK, NEW h \in Host
    PROVE  /\ inq'[h] = inq[h] => (NoRequest(h)' <=> NoRequest(h))
           /\ \A m \in Msgs : inq'[h] = Append(inq[h], m) =>
                 (NoRequest(h)' <=> NoRequest(h) /\ m.type # "M")
           /\ inq[h] # <<>> /\ inq'[h] = Tail(inq[h]) =>
                 (NoRequest(h) <=> NoRequest(h)' /\ Head(inq[h]).type # "M")
  <1>0. inq[h] \in Seq(Msgs)
    BY DEF TypeOK, Msgs
  <1>1. inq'[h] = inq[h] => (NoRequest(h)' <=> NoRequest(h))
    BY DEF NoRequest
  <1>2. ASSUME NEW m \in Msgs, inq'[h] = Append(inq[h], m)
        PROVE  NoRequest(h)' <=> NoRequest(h) /\ m.type # "M"
    BY <1>0, <1>2, AppendIs DEF NoRequest
  <1>3. ASSUME inq[h] # <<>>, inq'[h] = Tail(inq[h])
        PROVE  NoRequest(h) <=> NoRequest(h)' /\ Head(inq[h]).type # "M"
    BY <1>0, <1>3, TailFree DEF NoRequest
  <1> QED BY <1>1, <1>2, <1>3

LEMMA ReplyQueue ==
    ASSUME TypeOK, NEW h \in Host
    PROVE  /\ outq'[h] = outq[h] => (NoReply(h)' <=> NoReply(h))
           /\ \A m \in Reply \cup Packet : outq'[h] = Append(outq[h], m) =>
                 (NoReply(h)' <=> NoReply(h) /\ m.type # "M")
           /\ outq[h] # <<>> /\ outq'[h] = Tail(outq[h]) =>
                 (NoReply(h) <=> NoReply(h)' /\ Head(outq[h]).type # "M")
  <1>0. outq[h] \in Seq(Reply \cup Packet)
    BY DEF TypeOK
  <1>1. outq'[h] = outq[h] => (NoReply(h)' <=> NoReply(h))
    BY DEF NoReply
  <1>2. ASSUME NEW m \in Reply \cup Packet, outq'[h] = Append(outq[h], m)
        PROVE  NoReply(h)' <=> NoReply(h) /\ m.type # "M"
    BY <1>0, <1>2, AppendIs DEF NoReply
  <1>3. ASSUME outq[h] # <<>>, outq'[h] = Tail(outq[h])
        PROVE  NoReply(h) <=> NoReply(h)' /\ Head(outq[h]).type # "M"
    BY <1>0, <1>3, TailFree DEF NoReply
  <1> QED BY <1>1, <1>2, <1>3

(* A release is only refused by a reply that was just put into the queue.  *)
LEMMA RefusedKept ==
    ASSUME TypeOK, NEW h \in Host, Refused(h),
           pend'[h] = pend[h], held'[h] = held[h]
    PROVE  /\ outq'[h] = outq[h] => Refused(h)'
           /\ outq[h] # <<>> /\ outq'[h] = Tail(outq[h]) => Refused(h)'
           /\ \A m \in Reply \cup Packet : outq'[h] = Append(outq[h], m)
                /\ (pend[h].req = "DIADDR_RELEASE" /\ m = Nack =>
                       held[h] = 0 \/ held[h] >= SUBNET_MAX) => Refused(h)'
  <1>0. outq[h] \in Seq(Reply \cup Packet)
    BY DEF TypeOK
  <1>1. outq'[h] = outq[h] => Refused(h)'
    BY DEF Refused
  <1>2. ASSUME outq[h] # <<>>, outq'[h] = Tail(outq[h]) PROVE Refused(h)'
    BY <1>0, <1>2, TailFacts DEF Refused
  <1>3. ASSUME NEW m \in Reply \cup Packet, outq'[h] = Append(outq[h], m),
               pend[h].req = "DIADDR_RELEASE" /\ m = Nack =>
                  held[h] = 0 \/ held[h] >= SUBNET_MAX
        PROVE  Refused(h)'
    BY <1>0, <1>3, AppendIs DEF Refused
  <1> QED BY <1>1, <1>2, <1>3
(* The reply to a host's own request.                                      *)
LEMMA RequestAnsweredOnce ==
    ASSUME IInv, Alive', NEW h \in Host, hstate[h] = "up", io_running,
           Head(inq[h]).type = "M", inq[h] # <<>>,
           process_mgmt_msg(h, Head(inq[h])), Refused(h),
           pend'[h] = pend[h], held'[h] = held[h]
    PROVE  Answering(h)' /\ Refused(h)'
  <1> DEFINE m == Head(inq[h])
  <1>0. TypeOK /\ OneExchange(h) /\ Agrees(h)
    BY DEF IInv, HostInv
  <1>1. m \in Request /\ m = pend[h]
    <2>1. inq[h] \in Seq(Msgs)
      BY <1>0 DEF TypeOK, Msgs
    <2>2. 1 \in 1 .. Len(inq[h]) /\ m = inq[h][1] /\ m \in Msgs
      BY <2>1, TailFacts
    <2> QED BY <1>0, <2>2, MessageTypes DEF OneExchange
  <1>2. NoReply(h)
    <2>1. 1 \in 1 .. Len(inq[h]) /\ inq[h][1].type = "M"
      <3>1. inq[h] \in Seq(Msgs)
        BY <1>0 DEF TypeOK, Msgs
      <3> QED BY <3>1, TailFacts
    <2> QED BY <1>0, <2>1 DEF OneExchange, NoReply
  <1>3. \E r \in Reply :
           /\ outq' = [outq EXCEPT ![h] = Append(@, r)]
           /\ m.req = "DIADDR_RELEASE" /\ r = Nack => ReleasableAddrs(h) = {}
    <2>0. Ack # Nack
      BY DEF Ack, Nack
    <2>1. \A r \in Reply : SendReply(h, r) => outq' = [outq EXCEPT ![h] = Append(@, r)]
      BY DEF SendReply
    <2>2. CASE mgmt_diaddr_request(h) /\ m.req = "DIADDR_REQUEST"
      <3>1. abort' # "pool"
        BY DEF Alive
      <3>2. PICK a \in 1 .. LOCAL_MAX : SendReply(h, AddrReply(a))
        BY <2>2, <3>1 DEF mgmt_diaddr_request
      <3>3. AddrReply(a) \in Reply
        BY MessageTypes, HostCtrlAssumption DEF LocalAddr
      <3> QED BY <2>1, <2>2, <3>2, <3>3
    <2>3. CASE mgmt_diaddr_release(h)
      BY <2>0, <2>1, <2>3, MessageTypes DEF mgmt_diaddr_release
    <2>4. CASE mgmt_gw_register(h, m.subnet) /\ m.req = "GW_REGISTER"
      BY <2>1, <2>4, MessageTypes DEF mgmt_gw_register
    <2>5. CASE mgmt_gw_unregister(h, m.subnet) /\ m.req = "GW_UNREGISTER"
      BY <2>1, <2>5, MessageTypes DEF mgmt_gw_unregister
    <2>6. CASE SendReply(h, Ack) /\ m.req = "UNKNOWN"
      BY <2>1, <2>6, MessageTypes
    <2> QED BY <2>2, <2>3, <2>4, <2>5, <2>6 DEF process_mgmt_msg
  <1>4. PICK r \in Reply : /\ outq'[h] = Append(outq[h], r)
                           /\ m.req = "DIADDR_RELEASE" /\ r = Nack =>
                                 ReleasableAddrs(h) = {}
    BY <1>0, <1>3 DEF TypeOK
  <1>5. ReleasableAddrs(h) = {} => held[h] = 0 \/ held[h] >= SUBNET_MAX
    <2>1. TableIs(h, held[h], gwof[h])
      BY <1>0, <1>2 DEF Agrees, NoReply
    <2>2. held[h] \in LocalAddr
      BY <1>0 DEF TypeOK
    <2> QED BY <2>1, <2>2, HostCtrlAssumption DEF TableIs, ReleasableAddrs, LocalAddr
  <1>6. ~NoReply(h)'
    BY <1>0, <1>4, ReplyQueue, MessageTypes
  <1>7. Refused(h)'
    BY <1>0, <1>1, <1>4, <1>5, RefusedKept
  <1> QED BY <1>6, <1>7 DEF Answering

(* A message of any host, as host h sees it.                               *)
LEMMA ReplyMsgStep ==
    ASSUME IInv, Alive', NEW g \in Host, iothread_handle_ext_msg(g),
           NEW h \in Host, hstate[h] = "up", Answering(h), Refused(h)
    PROVE  Answering(h)' /\ Refused(h)'
  <1> DEFINE m == Head(inq[g])
  <1>0. TypeOK
    BY DEF IInv
  <1>1. /\ inq[g] # <<>> /\ inq' = [inq EXCEPT ![g] = Tail(@)]
        /\ UNCHANGED <<pend, held>> /\ io_running
        /\ \/ m.type = "M" /\ process_mgmt_msg(g, m)
           \/ m.type = "D" /\ process_data_msg(m)
           \/ m.type = "X" /\ outq' = outq
    BY DEF iothread_handle_ext_msg, Alive
  <1>2. m \in Msgs /\ inq[g] \in Seq(Msgs)
    BY <1>0, <1>1 DEF TypeOK, Msgs
  <1>3. inq'[h] = IF h = g THEN Tail(inq[g]) ELSE inq[h]
    BY <1>0, <1>1 DEF TypeOK
  <1>4. pend'[h] = pend[h] /\ held'[h] = held[h]
    BY <1>1
  <1>5. ASSUME m.type # "M" \/ g # h,
               outq'[h] = outq[h] \/ \E p \in Packet : outq'[h] = Append(outq[h], p)
        PROVE  Answering(h)' /\ Refused(h)'
    <2>1. NoRequest(h)' => NoRequest(h)
      <3>1. CASE g # h
        BY <1>0, <1>3, <3>1, RequestQueue
      <3>2. CASE g = h
        BY <1>0, <1>1, <1>3, <1>5, <3>2, RequestQueue
      <3> QED BY <3>1, <3>2
    <2>2. (NoReply(h)' => NoReply(h)) /\ Refused(h)'
      <3>1. CASE outq'[h] = outq[h]
        BY <1>0, <1>4, <3>1, ReplyQueue, RefusedKept
      <3>2. ASSUME NEW p \in Packet, outq'[h] = Append(outq[h], p)
            PROVE  (NoReply(h)' => NoReply(h)) /\ Refused(h)'
        <4>1. p # Nack
          BY MessageTypes DEF Nack
        <4> QED BY <1>0, <1>4, <3>2, <4>1, ReplyQueue, RefusedKept
      <3> QED BY <1>5, <3>1, <3>2
    <2> QED BY <1>4, <2>1, <2>2 DEF Answering
  <1>6. CASE m.type = "M" /\ g = h
    BY <1>1, <1>4, <1>6, RequestAnsweredOnce
  <1>7. CASE m.type = "M" /\ g # h
    <2>1. outq'[h] = outq[h]
      <3>1. \A r : SendReply(g, r) => outq'[h] = outq[h]
        BY <1>0, <1>7 DEF SendReply, TypeOK
      <3> QED BY <1>1, <1>7, <3>1 DEF process_mgmt_msg, mgmt_diaddr_request,
                 mgmt_diaddr_release, mgmt_gw_register, mgmt_gw_unregister
    <2> QED BY <1>5, <1>7, <2>1
  <1>8. CASE m.type = "D"
    <2>1. m \in Packet
      BY <1>2, <1>8, MessageTypes
    <2>2. process_data_msg(m)
      BY <1>1, <1>8
    <2>3. outq' = outq \/ \E p \in Host : outq' = [outq EXCEPT ![p] = Append(@, m)]
      BY <2>2 DEF process_data_msg
    <2>4. outq'[h] = outq[h] \/ outq'[h] = Append(outq[h], m)
      BY <1>0, <2>3 DEF TypeOK
    <2> QED BY <1>5, <1>8, <2>1, <2>4
  <1>9. CASE m.type = "X"
    BY <1>1, <1>5, <1>9
  <1> QED BY <1>1, <1>6, <1>7, <1>8, <1>9

(* A step of host h itself.                                                *)
LEMMA ReplyHostStep ==
    ASSUME IInv, Alive, NEW h \in Host, HostNext(h), hstate'[h] = "up",
           hstate[h] = "up" => Answering(h) /\ Refused(h)
    PROVE  Answering(h)' /\ Refused(h)'
  <1>0. TypeOK /\ HostInv(h)
    BY DEF IInv
  <1>1. CASE HostConnect(h)
    <2>1. pend'[h] = NoReq /\ outq'[h] = <<>>
      BY <1>0, <1>1 DEF HostConnect, HostInv
    <2> QED BY <2>1 DEF Answering, Refused
  <1>2. ASSUME NEW m \in Inputs \cap Request, HostRequests(h, m)
        PROVE  Answering(h)' /\ Refused(h)'
    <2>1. /\ hstate[h] = "up" /\ pend[h] = NoReq
          /\ inq'[h] = Append(inq[h], m) /\ outq'[h] = outq[h]
      BY <1>0, <1>2 DEF HostRequests, HostSends, TypeOK
    <2>2. m \in Msgs /\ m.type = "M"
      BY MessageTypes DEF Msgs
    <2>3. ~NoRequest(h)'
      BY <1>0, <2>1, <2>2, RequestQueue
    <2>4. \A j \in 1 .. Len(outq[h]) : outq[h][j] # Nack
      BY <1>0, <2>1 DEF HostInv, OneExchange, Nack
    <2>5. Refused(h)'
      BY <2>1, <2>4 DEF Refused
    <2> QED BY <2>3, <2>5 DEF Answering
  <1>3. ASSUME NEW m \in Inputs \ Request, HostSendsData(h, m)
        PROVE  Answering(h)' /\ Refused(h)'
    <2>1. /\ hstate[h] = "up" /\ pend'[h] = pend[h] /\ held'[h] = held[h]
          /\ inq'[h] = Append(inq[h], m) /\ outq'[h] = outq[h]
      BY <1>0, <1>3 DEF HostSendsData, HostSends, TypeOK
    <2>2. m \in Msgs
      BY HostCtrlAssumption DEF Msgs
    <2>3. NoRequest(h)' => NoRequest(h)
      BY <1>0, <2>1, <2>2, RequestQueue
    <2>4. NoReply(h)' => NoReply(h)
      BY <1>0, <2>1, ReplyQueue
    <2>5. Refused(h)'
      BY <1>0, <2>1, RefusedKept
    <2> QED BY <2>1, <2>3, <2>4, <2>5 DEF Answering
  <1>4. CASE HostReceives(h)
    <2>1. /\ hstate[h] = "up" /\ inq'[h] = inq[h]
          /\ outq[h] # <<>> /\ outq'[h] = Tail(outq[h])
          /\ \/ Head(outq[h]).type = "D" /\ UNCHANGED <<pend, held>>
             \/ pend'[h] = NoReq
      BY <1>0, <1>4 DEF HostReceives, TypeOK
    <2>2. CASE pend'[h] = NoReq
      BY <2>2, RequestIsNotNone DEF Answering, Refused
    <2>3. CASE Head(outq[h]).type = "D" /\ UNCHANGED <<pend, held>>
      <3>1. NoRequest(h)' => NoRequest(h)
        BY <1>0, <2>1, RequestQueue
      <3>2. NoReply(h)' => NoReply(h)
        BY <1>0, <2>1, <2>3, ReplyQueue
      <3>3. Refused(h)'
        BY <1>0, <2>1, <2>3, RefusedKept
      <3> QED BY <2>1, <2>3, <3>1, <3>2, <3>3 DEF Answering
    <2> QED BY <2>1, <2>2, <2>3
  <1>5. CASE HostLeaves(h)
    <2>1. hstate'[h] = "gone"
      BY <1>0, <1>5 DEF HostLeaves, TypeOK
    <2> QED BY <2>1
  <1> QED BY <1>1, <1>2, <1>3, <1>4, <1>5 DEF HostNext

(* A step of host g changes nothing of another host.                       *)
LEMMA HostFrame ==
    ASSUME TypeOK, NEW g \in Host, HostNext(g), NEW h \in Host, h # g
    PROVE  /\ hstate'[h] = hstate[h] /\ inq'[h] = inq[h] /\ outq'[h] = outq[h]
           /\ pend'[h] = pend[h] /\ held'[h] = held[h] /\ gwof'[h] = gwof[h]
  <1>1. CASE HostConnect(g)
    BY <1>1 DEF HostConnect, TypeOK
  <1>2. ASSUME NEW m, HostRequests(g, m)
        PROVE  /\ hstate'[h] = hstate[h] /\ inq'[h] = inq[h] /\ outq'[h] = outq[h]
               /\ pend'[h] = pend[h] /\ held'[h] = held[h] /\ gwof'[h] = gwof[h]
    BY <1>2 DEF HostRequests, HostSends, TypeOK
  <1>3. ASSUME NEW m, HostSendsData(g, m)
        PROVE  /\ hstate'[h] = hstate[h] /\ inq'[h] = inq[h] /\ outq'[h] = outq[h]
               /\ pend'[h] = pend[h] /\ held'[h] = held[h] /\ gwof'[h] = gwof[h]
    BY <1>3 DEF HostSendsData, HostSends, TypeOK
  <1>4. CASE HostReceives(g)
    BY <1>4 DEF HostReceives, TypeOK
  <1>5. CASE HostLeaves(g)
    BY <1>5 DEF HostLeaves, TypeOK
  <1> QED BY <1>1, <1>2, <1>3, <1>4, <1>5 DEF HostNext

(* Every step of the system keeps what ReplyInv says of a connected host.  *)
LEMMA ReplyNext ==
    ASSUME IInv, ReplyInv, Next, Alive', NEW h \in Host, hstate'[h] = "up"
    PROVE  Answering(h)' /\ Refused(h)'
  <1>0. TypeOK
    BY DEF IInv
  <1>1. Alive
    BY AliveBefore
  <1>2. hstate[h] = "up" => Answering(h) /\ Refused(h)
    BY <1>1 DEF ReplyInv
  <1>3. ASSUME hstate'[h] = hstate[h], inq'[h] = inq[h], outq'[h] = outq[h],
               pend'[h] = pend[h], held'[h] = held[h]
        PROVE  Answering(h)' /\ Refused(h)'
    BY <1>2, <1>3 DEF Answering, Refused, NoRequest, NoReply
  <1>4. CASE UNCHANGED hostVars
    BY <1>3, <1>4 DEF hostVars
  <1>5. ASSUME NEW g \in Host, iothread_handle_ext_msg(g)
        PROVE  Answering(h)' /\ Refused(h)'
    <2>1. hstate[h] = "up"
      BY <1>5 DEF iothread_handle_ext_msg
    <2> QED BY <1>2, <1>5, <2>1, ReplyMsgStep
  <1>6. CASE iothread_router_stop
    <2>1. hstate' = [q \in Host |-> IF hstate[q] = "up" THEN "gone" ELSE hstate[q]]
      BY <1>6 DEF iothread_router_stop, Alive
    <2>2. hstate'[h] # "up"
      BY <2>1
    <2> QED BY <2>2
  <1>7. CASE iothread_router_start \/ iothread_shutdown
    BY <1>4, <1>7 DEF iothread_router_start, iothread_shutdown
  <1>8. CASE MainNext
    BY <1>4, <1>8 DEF MainNext, osd_hostctrl_start, osd_hostctrl_stop,
       osd_hostctrl_free, StartReturns, StopReturns, StatusTimesOut, FreeReturns
  <1>9. ASSUME NEW g \in Host, HostNext(g) PROVE Answering(h)' /\ Refused(h)'
    <2>1. CASE g = h
      BY <1>1, <1>2, <1>9, <2>1, ReplyHostStep
    <2>2. CASE g # h
      BY <1>0, <1>3, <1>9, <2>2, HostFrame
    <2> QED BY <2>1, <2>2
  <1> QED BY <1>5, <1>6, <1>7, <1>8, <1>9 DEF Next, IoNext

(* A set of positions that are all the same.                               *)
LEMMA OneOrNone ==
    ASSUME NEW P, \A i, j \in P : i = j
    PROVE  Cardinality(P) = IF P = {} THEN 0 ELSE 1
  <1>1. CASE P = {}
    BY <1>1, FS_EmptySet
  <1>2. ASSUME NEW i \in P PROVE Cardinality(P) = 1
    <2>1. P = {i}
      BY <1>2
    <2> QED BY <2>1, FS_Singleton
  <1> QED BY <1>1, <1>2

(* Every management request of a connected host is unread or answered by   *)
(* exactly one reply, whatever path process_mgmt_msg takes, and            *)
(* mgmt_diaddr_release refuses only a host without an address it looks at. *)
THEOREM RequestsGetOneReply == Spec => []OneReplyPerRequest
  <1>1. IInv /\ ReplyInv => OneReplyPerRequest
    <2> SUFFICES ASSUME IInv, ReplyInv, Alive, NEW h \in Host, hstate[h] = "up"
                 PROVE  /\ Cardinality({i \in 1 .. Len(inq[h]) : inq[h][i].type = "M"})
                             + Cardinality(Replies(h, Len(outq[h])))
                           = IF pend[h] = NoReq THEN 0 ELSE 1
                        /\ \A j \in Replies(h, Len(outq[h])) :
                              pend[h].req = "DIADDR_RELEASE" /\ outq[h][j] = Nack =>
                                  held[h] = 0 \/ held[h] >= SUBNET_MAX
      BY DEF OneReplyPerRequest
    <2> DEFINE I == {i \in 1 .. Len(inq[h]) : inq[h][i].type = "M"}
               O == Replies(h, Len(outq[h]))
    <2>0. TypeOK /\ OneExchange(h) /\ Answering(h) /\ Refused(h)
      BY DEF IInv, HostInv, ReplyInv
    <2>1. (\A i, j \in I : i = j) /\ (\A i, j \in O : i = j)
      BY <2>0 DEF OneExchange, Replies
    <2>2. (I = {} <=> NoRequest(h)) /\ (O = {} <=> NoReply(h))
      BY DEF NoRequest, NoReply, Replies
    <2>3. I = {} \/ O = {}
      BY <2>0 DEF OneExchange, Replies
    <2>4. pend[h] # NoReq <=> I # {} \/ O # {}
      <3>1. pend[h] # NoReq => I # {} \/ O # {}
        BY <2>0, <2>2 DEF Answering
      <3>2. O # {} => pend[h] # NoReq
        BY <2>0 DEF OneExchange, Replies
      <3>3. ASSUME NEW i \in I PROVE pend[h] # NoReq
        <4>1. i \in 1 .. Len(inq[h]) /\ inq[h][i].type = "M" /\ inq[h][i] \in Msgs
          BY <2>0 DEF TypeOK, Msgs
        <4>2. inq[h][i] \in Request /\ inq[h][i] = pend[h]
          BY <2>0, <4>1, MessageTypes DEF OneExchange
        <4> QED BY <4>2, RequestIsNotNone DEF Request, ReqName
      <3> QED BY <3>1, <3>2, <3>3
    <2> HIDE DEF I, O
    <2>5. /\ Cardinality(I) = IF I = {} THEN 0 ELSE 1
          /\ Cardinality(O) = IF O = {} THEN 0 ELSE 1
      BY <2>1, OneOrNone
    <2>6. Cardinality(I) + Cardinality(O) = IF pend[h] = NoReq THEN 0 ELSE 1
      BY <2>3, <2>4, <2>5
    <2>7. \A j \in O : pend[h].req = "DIADDR_RELEASE" /\ outq[h][j] = Nack =>
                         held[h] = 0 \/ held[h] >= SUBNET_MAX
      BY <2>0 DEF Refused, O, Replies
    <2> QED BY <2>6, <2>7 DEF I, O
  <1>2. Init => ReplyInv
    BY DEF Init, ReplyInv
  <1>3. IInv /\ ReplyInv /\ [Next]_vars => ReplyInv'
    <2>1. ASSUME IInv, ReplyInv, Next PROVE ReplyInv'
      <3>1. ASSUME Alive', NEW h \in Host, hstate'[h] = "up"
            PROVE  Answering(h)' /\ Refused(h)'
        BY <2>1, <3>1, ReplyNext
      <3> QED BY <3>1 DEF ReplyInv
    <2>2. ASSUME ReplyInv, UNCHANGED vars PROVE ReplyInv'
      BY <2>2 DEF vars, hostVars, ReplyInv, Answering, Refused, NoRequest, NoReply, Alive
    <2> QED BY <2>1, <2>2
  <1> QED BY <1>1, <1>2, <1>3, TablesAgree, PTL DEF Spec

-----------------------------------------------------------------------------
(* The router does not abort.                                              *)

Starting == \E i \in 1 .. Len(to_io) : to_io[i] = "I-START"

(* In a controller started at most once, nobody connects before the I/O    *)
(* thread has read the one I-START.                                        *)
StartInv ==
    starts <= 1 =>
        /\ starts = 0 => ~Starting
        /\ \A i, j \in 1 .. Len(to_io) :
              to_io[i] = "I-START" /\ to_io[j] = "I-START" => i = j
        /\ starts = 0 \/ Starting => ~listening /\ \A h \in Host : hstate[h] = "new"

(* A host that left with nothing registered is in no table, and nothing it *)
(* sent can put it there.                                                  *)
Left(h) == hstate[h] = "gone" /\ ~IsRegistered(h) =>
               NoRequest(h) /\ TableIs(h, 0, {})
LeftInv == starts <= 1 /\ listening /\ io_running => \A h \in Host : Left(h)

(* The premise of RoutingNeverAborts.                                      *)
Orderly == starts <= 1 /\ \A h \in Host : hstate[h] = "gone" => ~IsRegistered(h)

(* Reading the next message of the inproc socket.                          *)
LEMMA CommandRead ==
    ASSUME TypeOK, NEW n, RecvFromMain(n)
    PROVE  /\ Starting' => Starting
           /\ n = "I-START" => Starting
           /\ (\A i, j \in 1 .. Len(to_io) :
                  to_io[i] = "I-START" /\ to_io[j] = "I-START" => i = j)
              => /\ \A i, j \in 1 .. Len(to_io') :
                       to_io'[i] = "I-START" /\ to_io'[j] = "I-START" => i = j
                 /\ n = "I-START" => ~Starting'
  <1> DEFINE s == to_io
             t == to_io'
  <1>0. s \in Seq({"I-START", "I-STOP", "I-SHUTDOWN"}) /\ s # <<>> /\ t = Tail(s)
        /\ Head(s) = n
    BY DEF RecvFromMain, TypeOK
  <1> HIDE DEF s, t
  <1>1. /\ Len(s) \in Nat /\ Len(s) > 0 /\ Len(t) = Len(s) - 1
        /\ \A i \in 1 .. Len(t) : t[i] = s[i + 1] /\ i + 1 \in 1 .. Len(s)
        /\ s[1] = n /\ 1 \in 1 .. Len(s)
    BY <1>0, TailFacts
  <1>2. (\E i \in 1 .. Len(t) : t[i] = "I-START") =>
           \E i \in 1 .. Len(s) : s[i] = "I-START"
    BY <1>1
  <1>3. n = "I-START" => \E i \in 1 .. Len(s) : s[i] = "I-START"
    BY <1>1
  <1>4. ASSUME \A i, j \in 1 .. Len(s) : s[i] = "I-START" /\ s[j] = "I-START" => i = j
        PROVE  /\ \A i, j \in 1 .. Len(t) :
                     t[i] = "I-START" /\ t[j] = "I-START" => i = j
               /\ n = "I-START" => ~\E i \in 1 .. Len(t) : t[i] = "I-START"
    <2>1. ASSUME NEW i \in 1 .. Len(t), NEW j \in 1 .. Len(t),
                 t[i] = "I-START", t[j] = "I-START"
          PROVE  i = j
      <3>1. i + 1 = j + 1
        BY <1>1, <1>4, <2>1
      <3> QED BY <3>1
    <2>2. ASSUME n = "I-START", NEW i \in 1 .. Len(t), t[i] = "I-START"
          PROVE  FALSE
      <3>1. i + 1 = 1
        BY <1>1, <1>4, <2>2
      <3> QED BY <3>1
    <2> QED BY <2>1, <2>2
  <1> QED BY <1>2, <1>3, <1>4 DEF Starting, s, t

LEMMA CommandSent ==
    ASSUME TypeOK, NEW n \in {"I-START", "I-STOP", "I-SHUTDOWN"},
           to_io' = Append(to_io, n)
    PROVE  /\ n # "I-START" => /\ Starting' <=> Starting
                               /\ (\A i, j \in 1 .. Len(to_io) :
                                     to_io[i] = "I-START" /\ to_io[j] = "I-START" => i = j)
                                  => \A i, j \in 1 .. Len(to_io') :
                                       to_io'[i] = "I-START" /\ to_io'[j] = "I-START" => i = j
           /\ ~Starting => \A i, j \in 1 .. Len(to_io') :
                              to_io'[i] = "I-START" /\ to_io'[j] = "I-START" => i = j
  <1> DEFINE S == {"I-START", "I-STOP", "I-SHUTDOWN"}
             s == to_io
             t == to_io'
  <1>0. s \in Seq(S) /\ t = Append(s, n) /\ n \in S
    BY DEF TypeOK
  <1> HIDE DEF s, t, S
  <1>1. /\ Len(t) = Len(s) + 1 /\ Len(s) \in Nat /\ t[Len(s) + 1] = n
        /\ \A i \in 1 .. Len(s) : t[i] = s[i]
        /\ \A i \in 1 .. Len(s) + 1 : i \in 1 .. Len(s) \/ i = Len(s) + 1
        /\ \A i \in 1 .. Len(s) : i \in 1 .. Len(s) + 1
    BY <1>0, AppendIs
  <1>2. n # "I-START" => \A i \in 1 .. Len(t) :
           t[i] = "I-START" => i \in 1 .. Len(s) /\ s[i] = "I-START"
    BY <1>1
  <1>3. (\E i \in 1 .. Len(s) : s[i] = "I-START") =>
           \E i \in 1 .. Len(t) : t[i] = "I-START"
    BY <1>1
  <1>4. ~(\E i \in 1 .. Len(s) : s[i] = "I-START") =>
           \A i \in 1 .. Len(t) : t[i] = "I-START" => i = Len(s) + 1
    BY <1>1
  <1> QED BY <1>2, <1>3, <1>4 DEF Starting, s, t

LEMMA StartStep ==
    ASSUME TypeOK, StartInv, Next, starts' <= 1
    PROVE  StartInv'
  <1>0. /\ starts \in Nat /\ starts' \in Nat
        /\ starts' = starts \/ (osd_hostctrl_start /\ starts' = starts + 1)
    BY DEF TypeOK, Next, IoNext, MainNext, HostNext, iothread_handle_ext_msg,
     iothread_router_start, iothread_router_stop, iothread_shutdown, mainVars,
     osd_hostctrl_start, osd_hostctrl_stop, osd_hostctrl_free, StartReturns,
     StopReturns, StatusTimesOut, FreeReturns, HostConnect, HostRequests,
     HostSendsData, HostSends, HostReceives, HostLeaves
  <1>1. /\ starts <= 1
        /\ starts = 0 => ~Starting
        /\ \A i, j \in 1 .. Len(to_io) :
              to_io[i] = "I-START" /\ to_io[j] = "I-START" => i = j
        /\ starts = 0 \/ Starting => ~listening /\ \A h \in Host : hstate[h] = "new"
    BY <1>0 DEF StartInv
  <1>2. CASE osd_hostctrl_start
    <2>1. /\ starts' = starts + 1 /\ to_io' = Append(to_io, "I-START")
          /\ UNCHANGED <<listening, hstate>>
      BY <1>2 DEF osd_hostctrl_start, ioVars, hostVars
    <2>2. starts = 0 /\ starts' # 0
      BY <1>0, <2>1
    <2>3. \A i, j \in 1 .. Len(to_io') :
             to_io'[i] = "I-START" /\ to_io'[j] = "I-START" => i = j
      BY <1>1, <2>1, <2>2, CommandSent
    <2> QED BY <1>1, <2>1, <2>2, <2>3 DEF StartInv
  <1>3. ASSUME UNCHANGED <<starts, to_io>>, listening' => listening,
               \A h \in Host : hstate[h] = "new" /\ ~listening => hstate'[h] = "new"
        PROVE  StartInv'
    <2>1. Starting' <=> Starting
      BY <1>3 DEF Starting
    <2> QED BY <1>1, <1>3, <2>1 DEF StartInv
  <1>4. CASE osd_hostctrl_stop \/ osd_hostctrl_free
    <2>1. /\ UNCHANGED <<starts, listening, hstate>>
          /\ \E n \in {"I-STOP", "I-SHUTDOWN"} : to_io' = Append(to_io, n)
      BY <1>4 DEF osd_hostctrl_stop, osd_hostctrl_free, ioVars, hostVars
    <2>2. PICK n \in {"I-STOP", "I-SHUTDOWN"} : to_io' = Append(to_io, n)
      BY <2>1
    <2>3. /\ Starting' <=> Starting
          /\ \A i, j \in 1 .. Len(to_io') :
                to_io'[i] = "I-START" /\ to_io'[j] = "I-START" => i = j
      BY <1>1, <2>2, CommandSent
    <2> QED BY <1>1, <2>1, <2>3 DEF StartInv
  <1>5. CASE iothread_router_start
    <2>1. RecvFromMain("I-START") /\ UNCHANGED <<starts, hstate>>
      BY <1>5 DEF iothread_router_start, mainVars, hostVars
    <2>2. /\ Starting /\ ~Starting'
          /\ \A i, j \in 1 .. Len(to_io') :
                to_io'[i] = "I-START" /\ to_io'[j] = "I-START" => i = j
      BY <1>1, <2>1, CommandRead
    <2> QED BY <1>1, <2>1, <2>2 DEF StartInv
  <1>6. CASE iothread_router_stop
    <2>1. /\ RecvFromMain("I-STOP") /\ UNCHANGED starts
          /\ listening' => listening
          /\ \A h \in Host : hstate[h] = "new" => hstate'[h] = "new"
      BY <1>6 DEF iothread_router_stop, mainVars, TypeOK
    <2>2. /\ Starting' => Starting
          /\ \A i, j \in 1 .. Len(to_io') :
                to_io'[i] = "I-START" /\ to_io'[j] = "I-START" => i = j
      BY <1>1, <2>1, CommandRead
    <2> QED BY <1>1, <2>1, <2>2 DEF StartInv
  <1>7. CASE iothread_shutdown
    <2>1. RecvFromMain("I-SHUTDOWN") /\ UNCHANGED <<starts, listening, hstate>>
      BY <1>7 DEF iothread_shutdown, mainVars, hostVars
    <2>2. /\ Starting' => Starting
          /\ \A i, j \in 1 .. Len(to_io') :
                to_io'[i] = "I-START" /\ to_io'[j] = "I-START" => i = j
      BY <1>1, <2>1, CommandRead
    <2> QED BY <1>1, <2>1, <2>2 DEF StartInv
  <1>8. CASE StartReturns \/ StopReturns \/ StatusTimesOut \/ FreeReturns
    BY <1>3, <1>8
    DEF StartReturns, StopReturns, StatusTimesOut, FreeReturns, ioVars, hostVars
  <1>9. ASSUME NEW g \in Host, iothread_handle_ext_msg(g) PROVE StartInv'
    BY <1>3, <1>9 DEF iothread_handle_ext_msg, mainVars
  <1>10. ASSUME NEW g \in Host, HostNext(g) PROVE StartInv'
    <2>1. UNCHANGED <<starts, to_io, listening>>
      BY <1>10 DEF HostNext, HostConnect, HostRequests, HostSendsData, HostSends,
         HostReceives, HostLeaves, ioVars, mainVars
    <2>2. ASSUME NEW h \in Host, hstate[h] = "new", ~listening
          PROVE  hstate'[h] = "new"
      BY <1>10, <2>2 DEF HostNext, HostConnect, HostRequests, HostSendsData,
         HostSends, HostReceives, HostLeaves, TypeOK
    <2> QED BY <1>3, <2>1, <2>2
  <1> QED
    BY <1>2, <1>4, <1>5, <1>6, <1>7, <1>8, <1>9, <1>10 DEF Next, IoNext, MainNext

(* Nothing happens any more to what a host knows once it has left.         *)
LEMMA GoneFrame ==
    ASSUME TypeOK, Next, NEW h \in Host, hstate[h] = "gone"
    PROVE  /\ hstate'[h] = "gone" /\ pend'[h] = pend[h]
           /\ held'[h] = held[h] /\ gwof'[h] = gwof[h]
           /\ NoRequest(h) => NoRequest(h)'
  <1>1. CASE UNCHANGED hostVars
    BY <1>1 DEF hostVars, NoRequest
  <1>2. ASSUME NEW g \in Host, iothread_handle_ext_msg(g)
        PROVE  /\ hstate'[h] = "gone" /\ pend'[h] = pend[h]
               /\ held'[h] = held[h] /\ gwof'[h] = gwof[h]
               /\ NoRequest(h) => NoRequest(h)'
    <2>1. /\ UNCHANGED <<hstate, pend, held, gwof>>
          /\ inq'[h] = inq[h] \/ (inq[h] # <<>> /\ inq'[h] = Tail(inq[h]))
      BY <1>2 DEF iothread_handle_ext_msg, TypeOK
    <2>2. NoRequest(h) => NoRequest(h)'
      BY <2>1, RequestQueue
    <2> QED BY <2>1, <2>2
  <1>3. CASE iothread_router_start \/ iothread_shutdown
    BY <1>1, <1>3 DEF iothread_router_start, iothread_shutdown
  <1>4. CASE iothread_router_stop
    <2>1. /\ UNCHANGED <<pend, held, gwof>> /\ hstate'[h] = "gone"
          /\ inq'[h] = inq[h] \/ inq'[h] = <<>>
      BY <1>4 DEF iothread_router_stop
    <2>2. NoRequest(h) => NoRequest(h)'
      BY <2>1 DEF NoRequest
    <2> QED BY <2>1, <2>2
  <1>5. CASE MainNext
    BY <1>1, <1>5 DEF MainNext, osd_hostctrl_start, osd_hostctrl_stop,
       osd_hostctrl_free, StartReturns, StopReturns, StatusTimesOut, FreeReturns
  <1>6. ASSUME NEW g \in Host, HostNext(g)
        PROVE  /\ hstate'[h] = "gone" /\ pend'[h] = pend[h]
               /\ held'[h] = held[h] /\ gwof'[h] = gwof[h]
               /\ NoRequest(h) => NoRequest(h)'
    <2>1. g # h
      BY <1>6 DEF HostNext, HostConnect, HostRequests, HostSendsData, HostSends,
         HostReceives, HostLeaves
    <2> QED BY <1>6, <2>1, HostFrame DEF NoRequest
  <1> QED BY <1>2, <1>3, <1>4, <1>5, <1>6 DEF Next, IoNext

(* The orderly runs are a prefix of every run.                             *)
LEMMA OrderlyBefore ==
    ASSUME TypeOK, Next, Orderly'
    PROVE  Orderly
  <1>1. starts <= 1
    <2>1. /\ starts \in Nat
          /\ starts' = starts \/ starts' = starts + 1
      BY DEF TypeOK, Next, IoNext, MainNext, HostNext, iothread_handle_ext_msg,
         iothread_router_start, iothread_router_stop, iothread_shutdown, mainVars,
         osd_hostctrl_start, osd_hostctrl_stop, osd_hostctrl_free, StartReturns,
         StopReturns, StatusTimesOut, FreeReturns, HostConnect, HostRequests,
         HostSendsData, HostSends, HostReceives, HostLeaves
    <2> QED BY <2>1 DEF Orderly
  <1>2. ASSUME NEW h \in Host, hstate[h] = "gone" PROVE ~IsRegistered(h)
    BY <1>2, GoneFrame DEF Orderly, IsRegistered
  <1> QED BY <1>1, <1>2 DEF Orderly

(* A message of one host puts no other host into the tables.               *)
LEMMA OthersGainNothing ==
    ASSUME TypeOK, NEW h \in Host, iothread_handle_ext_msg(h),
           NEW g \in Host, g # h
    PROVE  /\ \A a \in LocalAddr : mods_in_subnet'[a] = g => mods_in_subnet[a] = g
           /\ \A s \in Subnet : gateways'[s] = g => gateways[s] = g
  <1> DEFINE m == Head(inq[h])
  <1> USE HostCtrlAssumption
  <1>1. CASE mgmt_diaddr_request(h)
    BY <1>1 DEF mgmt_diaddr_request, IsAvailableDiaddr, FreeAddrs, TypeOK, LocalAddr
  <1>2. CASE mgmt_diaddr_release(h)
    BY <1>2 DEF mgmt_diaddr_release, IsReleasedDiaddr, ReleasableAddrs, TypeOK,
                LocalAddr
  <1>3. CASE mgmt_gw_register(h, m.subnet)
    BY <1>3 DEF mgmt_gw_register, TypeOK
  <1>4. CASE mgmt_gw_unregister(h, m.subnet)
    BY <1>4 DEF mgmt_gw_unregister, TypeOK
  <1>5. CASE UNCHANGED <<mods_in_subnet, gateways>>
    BY <1>5
  <1> QED
    BY <1>1, <1>2, <1>3, <1>4, <1>5
    DEF iothread_handle_ext_msg, process_mgmt_msg, process_data_msg

(* A host with nothing registered and nothing under way is in no table.    *)
LEMMA UnregisteredIsClean ==
    ASSUME TypeOK, NEW h \in Host, HostInv(h), hstate[h] # "gone", io_running,
           ~IsRegistered(h)
    PROVE  NoRequest(h) /\ TableIs(h, 0, {})
  <1>0. pend[h] = NoReq /\ held[h] = 0 /\ gwof[h] = {} /\ Agrees(h)
    BY DEF IsRegistered, HostInv
  <1>1. CASE hstate[h] = "new"
    <2>1. inq[h] = <<>> /\ outq[h] = <<>>
      BY <1>1 DEF HostInv
    <2> QED BY <1>0, <2>1 DEF Agrees, NoRequest
  <1>2. CASE hstate[h] = "up"
    <2>1. OneExchange(h)
      BY <1>2 DEF HostInv
    <2>2. NoRequest(h)
      <3> SUFFICES ASSUME NEW i \in 1 .. Len(inq[h]), inq[h][i].type = "M"
                   PROVE  FALSE
        BY DEF NoRequest
      <3>1. inq[h][i] \in Msgs /\ inq[h][i] = NoReq
        BY <1>0, <2>1 DEF TypeOK, Msgs, OneExchange
      <3>2. NoReq \in Request
        BY <3>1, MessageTypes DEF NoReq
      <3> QED BY <3>2 DEF NoReq, Request, ReqName
    <2>3. \A j \in 1 .. Len(outq[h]) : outq[h][j].type # "M"
      BY <1>0, <2>1 DEF OneExchange
    <2> QED BY <1>0, <2>2, <2>3 DEF Agrees
  <1> QED BY <1>1, <1>2 DEF TypeOK

LEMMA LeftStep ==
    ASSUME IInv, StartInv, LeftInv, Next, starts' <= 1, listening', io_running',
           NEW h \in Host
    PROVE  Left(h)'
  <1>0. TypeOK /\ HostInv(h)
    BY DEF IInv
  <1>1. starts <= 1 /\ io_running
    <2>1. /\ starts \in Nat
          /\ starts' = starts \/ starts' = starts + 1
          /\ io_running' => io_running
      BY DEF IInv, TypeOK, Next, IoNext, MainNext, HostNext, iothread_handle_ext_msg,
         iothread_router_start, iothread_router_stop, iothread_shutdown, mainVars,
         osd_hostctrl_start, osd_hostctrl_stop, osd_hostctrl_free, StartReturns,
         StopReturns, StatusTimesOut, FreeReturns, HostConnect, HostRequests,
         HostSendsData, HostSends, HostReceives, HostLeaves, ioVars
    <2> QED BY <2>1
  <1>2. SUFFICES ASSUME hstate'[h] = "gone", ~IsRegistered(h)'
                 PROVE  NoRequest(h)' /\ TableIs(h, 0, {})'
    BY DEF Left
  <1>3. CASE hstate[h] = "gone"
    <2>1. listening
      <3> SUFFICES ASSUME ~listening PROVE FALSE
        OBVIOUS
      <3>1. iothread_router_start
        BY DEF Next, IoNext, MainNext, HostNext, iothread_handle_ext_msg,
         iothread_router_stop, iothread_shutdown,
         osd_hostctrl_start, osd_hostctrl_stop, osd_hostctrl_free, StartReturns,
         StopReturns, StatusTimesOut, FreeReturns, HostConnect, HostRequests,
         HostSendsData, HostSends, HostReceives, HostLeaves, ioVars
      <3>2. Starting
        BY <1>0, <3>1, CommandRead DEF iothread_router_start
      <3> QED BY <1>1, <1>3, <3>2 DEF StartInv
    <2>2. ~IsRegistered(h)
      BY <1>0, <1>2, <1>3, GoneFrame DEF IsRegistered
    <2>3. NoRequest(h) /\ TableIs(h, 0, {})
      BY <1>1, <1>3, <2>1, <2>2 DEF LeftInv, Left
    <2>4. NoRequest(h)'
      BY <1>0, <1>3, <2>3, GoneFrame
    <2>5. ASSUME UNCHANGED <<mods_in_subnet, gateways>> PROVE TableIs(h, 0, {})'
      BY <2>3, <2>5 DEF TableIs
    <2>6. ASSUME NEW g \in Host, iothread_handle_ext_msg(g) PROVE TableIs(h, 0, {})'
      <3>1. CASE g = h
        <4>1. inq[h] # <<>> /\ inq[h] \in Seq(Msgs)
          BY <1>0, <2>6, <3>1 DEF iothread_handle_ext_msg, TypeOK, Msgs
        <4>2. Head(inq[h]).type # "M"
          BY <2>3, <4>1, TailFree DEF NoRequest
        <4> QED
          BY <2>5, <2>6, <3>1, <4>2 DEF iothread_handle_ext_msg, process_data_msg
      <3>2. CASE g # h
        <4>1. \A b \in 1 .. LOCAL_MAX : b \in LocalAddr
          BY HostCtrlAssumption DEF LocalAddr
        <4>2. /\ \A b \in 1 .. LOCAL_MAX : mods_in_subnet'[b] = h <=> mods_in_subnet[b] = h
              /\ \A s \in Subnet : gateways'[s] = h <=> gateways[s] = h
          BY <1>0, <2>6, <3>2, <4>1, OthersKeepEntries, OthersGainNothing
        <4> QED BY <2>3, <4>2 DEF TableIs
      <3> QED BY <3>1, <3>2
    <2>7. CASE iothread_router_start \/ iothread_router_stop
      <3>1. UNCHANGED <<mods_in_subnet, gateways>>
        BY <2>7 DEF iothread_router_start, iothread_router_stop
      <3> QED BY <2>4, <2>5, <3>1
    <2>8. ~iothread_shutdown
      BY DEF iothread_shutdown
    <2>9. CASE MainNext
      <3>1. UNCHANGED <<mods_in_subnet, gateways>>
        BY <2>9 DEF MainNext, osd_hostctrl_start, osd_hostctrl_stop,
           osd_hostctrl_free, StartReturns, StopReturns, StatusTimesOut,
           FreeReturns, ioVars
      <3> QED BY <2>4, <2>5, <3>1
    <2>10. ASSUME NEW g \in Host, HostNext(g) PROVE TableIs(h, 0, {})'
      <3>1. UNCHANGED <<mods_in_subnet, gateways>>
        BY <2>10 DEF HostNext, HostConnect, HostRequests, HostSendsData,
           HostSends, HostReceives, HostLeaves, ioVars
      <3> QED BY <2>5, <3>1
    <2> QED BY <2>4, <2>6, <2>7, <2>8, <2>9, <2>10 DEF Next, IoNext
  <1>4. CASE hstate[h] # "gone"
    <2>1. HostLeaves(h)
      <3>1. ~iothread_router_stop
        BY <1>2, <1>4 DEF iothread_router_stop
      <3>2. ASSUME NEW g \in Host, HostNext(g) PROVE g = h
        BY <1>0, <1>2, <1>4, <3>2, HostFrame
      <3>3. \E g \in Host : HostNext(g)
        BY <1>2, <1>4, <3>1 DEF Next, IoNext, MainNext, iothread_handle_ext_msg,
           iothread_router_start, iothread_shutdown, osd_hostctrl_start,
           osd_hostctrl_stop, osd_hostctrl_free, StartReturns, StopReturns,
           StatusTimesOut, FreeReturns, hostVars
      <3>4. HostNext(h)
        BY <3>2, <3>3
      <3> QED
        BY <1>0, <1>2, <1>4, <3>4 DEF HostNext, HostConnect, HostRequests,
           HostSendsData, HostSends, HostReceives, TypeOK
    <2>2. /\ UNCHANGED <<mods_in_subnet, gateways, pend, held, gwof>>
          /\ \E n \in 0 .. Len(inq[h]) : inq'[h] = SubSeq(inq[h], 1, n)
      BY <1>0, <2>1 DEF HostLeaves, ioVars, TypeOK
    <2>3. ~IsRegistered(h)
      BY <1>2, <2>2 DEF IsRegistered
    <2>4. NoRequest(h) /\ TableIs(h, 0, {})
      BY <1>0, <1>1, <1>4, <2>3, UnregisteredIsClean
    <2>5. PICK n \in 0 .. Len(inq[h]) : inq'[h] = SubSeq(inq[h], 1, n)
      BY <2>2
    <2>6. inq[h] \in Seq(Msgs)
      BY <1>0 DEF TypeOK, Msgs
    <2>7. NoRequest(h)'
      <3>1. Len(inq'[h]) = n /\ \A i \in 1 .. n : inq'[h][i] = inq[h][i]
                                                  /\ i \in 1 .. Len(inq[h])
        BY <2>5, <2>6
      <3> QED BY <2>4, <3>1 DEF NoRequest
    <2> QED BY <2>2, <2>4, <2>7 DEF TableIs
  <1> QED BY <1>3, <1>4

(* At most one address of the pool is in the name of one host.             *)
LEMMA OneAddressEach ==
    ASSUME IInv, LeftInv, Orderly, io_running, listening,
           NEW q \in Host, NEW a \in 1 .. LOCAL_MAX, NEW b \in 1 .. LOCAL_MAX,
           mods_in_subnet[a] = q, mods_in_subnet[b] = q
    PROVE  a = b
  <1>1. HostInv(q)
    BY DEF IInv
  <1>2. CASE hstate[q] = "gone"
    BY <1>2 DEF LeftInv, Left, Orderly, TableIs
  <1>3. CASE hstate[q] # "gone"
    <2>1. \E x, g : TableIs(q, x, g)
      BY <1>1, <1>3 DEF HostInv, Agrees
    <2> QED BY <2>1 DEF TableIs
  <1> QED BY <1>2, <1>3

(* With no more hosts than addresses, a host that asks for one finds one.  *)
LEMMA PoolSuffices ==
    ASSUME IsFiniteSet(Host), Cardinality(Host) <= LOCAL_MAX,
           IInv, LeftInv, Orderly, NEW h \in Host, iothread_handle_ext_msg(h),
           Head(inq[h]).type = "M", Head(inq[h]).req = "DIADDR_REQUEST"
    PROVE  FreeAddrs # {}
  <1>0. /\ TypeOK /\ HostInv(h) /\ io_running /\ listening /\ inq[h] # <<>>
        /\ LOCAL_MAX \in Nat \ {0}
    BY HostCtrlAssumption DEF IInv, iothread_handle_ext_msg
  <1>1. inq[h] \in Seq(Msgs) /\ Head(inq[h]) = inq[h][1] /\ 1 \in 1 .. Len(inq[h])
    BY <1>0 DEF TypeOK, Msgs
  <1>2. hstate[h] = "up"
    <2>1. ~NoRequest(h)
      BY <1>1 DEF NoRequest
    <2>2. hstate[h] # "new"
      BY <1>0 DEF HostInv
    <2>3. hstate[h] # "gone"
      BY <1>0, <2>1 DEF LeftInv, Left, Orderly
    <2> QED BY <1>0, <2>2, <2>3 DEF TypeOK
  <1>3. OneExchange(h) /\ Agrees(h)
    BY <1>0, <1>2 DEF HostInv
  <1>4. inq[h][1] = pend[h] /\ held[h] = 0
    BY <1>1, <1>3 DEF OneExchange
  <1>5. \A j \in 1 .. Len(outq[h]) : outq[h][j].type # "M"
    BY <1>1, <1>3 DEF OneExchange
  <1>6. \A b \in 1 .. LOCAL_MAX : mods_in_subnet[b] # h
    BY <1>0, <1>3, <1>4, <1>5 DEF Agrees, TableIs
  <1>7. SUFFICES ASSUME FreeAddrs = {} PROVE FALSE
    OBVIOUS
  <1> DEFINE S == 1 .. LOCAL_MAX
             T == Host \ {h}
             f == [a \in S |-> mods_in_subnet[a]]
  <1>8. f \in [S -> T]
    <2>1. ASSUME NEW a \in S PROVE mods_in_subnet[a] \in T
      <3>1. a \in LocalAddr
        BY <1>0 DEF LocalAddr
      <3>2. mods_in_subnet[a] # NULL
        BY <1>7 DEF FreeAddrs
      <3> QED BY <1>0, <1>6, <3>1, <3>2 DEF TypeOK
    <2> QED BY <2>1
  <1>9. IsFiniteSet(S) /\ Cardinality(S) = LOCAL_MAX
    <2>1. 1 \in Int /\ LOCAL_MAX \in Int
      BY <1>0
    <2>2. IsFiniteSet(S) /\ Cardinality(S) = IF 1 > LOCAL_MAX THEN 0 ELSE LOCAL_MAX - 1 + 1
      BY <2>1, FS_Interval
    <2> QED BY <1>0, <2>2
  <1>10. IsFiniteSet(T) /\ Cardinality(T) = Cardinality(Host) - 1
    BY FS_RemoveElement
  <1>11. Cardinality(Host) \in Nat
    BY FS_CardinalityType
  <1>12. Cardinality(T) < Cardinality(S)
    BY <1>0, <1>9, <1>10, <1>11
  <1> HIDE DEF S, T, f
  <1>13. \E x, y \in S : x # y /\ f[x] = f[y]
    BY <1>8, <1>9, <1>10, <1>12, FS_PigeonHole
  <1>14. PICK x \in S, y \in S : x # y /\ f[x] = f[y]
    BY <1>13
  <1>15. /\ x \in 1 .. LOCAL_MAX /\ y \in 1 .. LOCAL_MAX
         /\ mods_in_subnet[x] = mods_in_subnet[y] /\ mods_in_subnet[x] \in Host
    BY <1>8, <1>14 DEF S, T, f
  <1> QED BY <1>0, <1>14, <1>15, OneAddressEach

(* No routing table entry names a host that is not there.                  *)
LEMMA RouteIsUp ==
    ASSUME IInv, LeftInv, Orderly, io_running, listening,
           NEW d \in DiAddr, NEW p \in Host, Route(d) = p
    PROVE  hstate[p] = "up"
  <1>0. TypeOK /\ HostInv(p) /\ mods_in_subnet[0] = NULL
    BY DEF IInv
  <1>1. SUFFICES ASSUME hstate[p] # "up" PROVE FALSE
    OBVIOUS
  <1>2. TableIs(p, 0, {})
    <2>1. CASE hstate[p] = "gone"
      BY <2>1 DEF LeftInv, Left, Orderly
    <2>2. CASE hstate[p] = "new"
      <3>1. pend[p] = NoReq /\ held[p] = 0 /\ gwof[p] = {}
        BY <1>0, <2>2 DEF HostInv
      <3> QED BY <1>0, <2>2, <3>1, UnregisteredIsClean DEF IsRegistered
    <2> QED BY <1>0, <1>1, <2>1, <2>2 DEF TypeOK
  <1>3. d.subnet \in Subnet /\ d.local \in LocalAddr
    BY DEF DiAddr
  <1>4. CASE d.subnet = SUBNET_ADDR
    <2>1. mods_in_subnet[d.local] = p
      BY <1>4 DEF Route
    <2>2. d.local # 0
      BY <1>0, <2>1, HostCtrlAssumption
    <2>3. d.local \in 1 .. LOCAL_MAX
      BY <1>3, <2>2, HostCtrlAssumption DEF LocalAddr
    <2> QED BY <1>2, <2>1, <2>2, <2>3 DEF TableIs
  <1>5. CASE d.subnet # SUBNET_ADDR
    BY <1>2, <1>3, <1>5 DEF Route, TableIs
  <1> QED BY <1>4, <1>5

LEMMA RoutingStep ==
    ASSUME IsFiniteSet(Host), Cardinality(Host) <= LOCAL_MAX,
           IInv, LeftInv, RoutingNeverAborts, Next, Orderly'
    PROVE  abort' \notin {"pool", "unroutable"}
  <1>0. TypeOK
    BY DEF IInv
  <1>1. Orderly
    BY <1>0, OrderlyBefore
  <1>2. abort \notin {"pool", "unroutable"}
    BY <1>1 DEF RoutingNeverAborts, Orderly
  <1>3. CASE UNCHANGED abort
    BY <1>2, <1>3
  <1>4. CASE abort' = "reader"
    BY <1>4
  <1>5. ASSUME NEW h \in Host, iothread_handle_ext_msg(h)
        PROVE  UNCHANGED abort \/ abort' = "reader"
    <2> DEFINE m == Head(inq[h])
    <2>1. CASE m.type = "M" /\ process_mgmt_msg(h, m)
      <3>1. m.req = "DIADDR_REQUEST" => FreeAddrs # {}
        BY <1>1, <1>5, <2>1, PoolSuffices
      <3> QED
        BY <2>1, <3>1 DEF process_mgmt_msg, mgmt_diaddr_request,
           mgmt_diaddr_release, mgmt_gw_register, mgmt_gw_unregister
    <2>2. CASE m.type = "D" /\ process_data_msg(m)
      <3>1. m \in Msgs /\ io_running /\ listening
        BY <1>0, <1>5 DEF iothread_handle_ext_msg, TypeOK, Msgs
      <3>2. m.dest \in DiAddr
        BY <2>2, <3>1, MessageTypes
      <3> HIDE DEF m
      <3>3. \A p \in Host : Route(m.dest) = p => hstate[p] = "up"
        BY <1>1, <3>1, <3>2, RouteIsUp
      <3> QED BY <2>2, <3>3 DEF process_data_msg
    <2> QED BY <1>5, <2>1, <2>2 DEF iothread_handle_ext_msg
  <1>6. CASE \E h \in Host : iothread_handle_ext_msg(h)
    BY <1>3, <1>4, <1>5, <1>6
  <1>7. CASE iothread_router_start \/ iothread_router_stop \/ iothread_shutdown
    BY <1>3, <1>4, <1>7
    DEF iothread_router_start, iothread_router_stop, iothread_shutdown
  <1>8. CASE MainNext
    BY <1>3, <1>8 DEF MainNext, osd_hostctrl_start, osd_hostctrl_stop,
       osd_hostctrl_free, StartReturns, StopReturns, StatusTimesOut, FreeReturns
  <1>9. CASE \E h \in Host : HostNext(h)
    BY <1>3, <1>9 DEF HostNext, HostConnect, HostRequests, HostSendsData,
       HostSends, HostReceives, HostLeaves
  <1> QED BY <1>6, <1>7, <1>8, <1>9 DEF Next, IoNext

(* With no more hosts than local addresses, a router that is started at    *)
(* most once and whose hosts give back what they hold before they leave    *)
(* neither runs out of addresses in mgmt_diaddr_request nor fails the      *)
(* assertion on the mandatory send of process_data_msg.                    *)
THEOREM RouterStaysAlive ==
    ASSUME IsFiniteSet(Host), Cardinality(Host) <= LOCAL_MAX
    PROVE  Spec => []RoutingNeverAborts
  <1>1. Init => StartInv /\ LeftInv /\ RoutingNeverAborts
    <2> SUFFICES ASSUME Init PROVE StartInv /\ LeftInv /\ RoutingNeverAborts
      OBVIOUS
    <2>1. to_io = <<>> /\ ~listening /\ abort = "no"
          /\ \A h \in Host : hstate[h] = "new"
      BY DEF Init
    <2> QED BY <2>1 DEF StartInv, Starting, LeftInv, RoutingNeverAborts
  <1>2. IInv /\ StartInv /\ LeftInv /\ RoutingNeverAborts /\ [Next]_vars
          => StartInv' /\ LeftInv' /\ RoutingNeverAborts'
    <2> SUFFICES ASSUME IInv, StartInv, LeftInv, RoutingNeverAborts, [Next]_vars
                 PROVE  StartInv' /\ LeftInv' /\ RoutingNeverAborts'
      OBVIOUS
    <2>1. CASE Next
      <3>1. StartInv'
        <4>1. starts' <= 1 => StartInv'
          BY <2>1, StartStep DEF IInv
        <4> QED BY <4>1 DEF StartInv
      <3>2. LeftInv'
        <4>1. ASSUME starts' <= 1, listening', io_running', NEW h \in Host
              PROVE  Left(h)'
          BY <2>1, <4>1, LeftStep
        <4> QED BY <4>1 DEF LeftInv
      <3>3. RoutingNeverAborts'
        <4>1. Orderly' => abort' \notin {"pool", "unroutable"}
          BY <2>1, RoutingStep
        <4> QED BY <4>1 DEF RoutingNeverAborts, Orderly
      <3> QED BY <3>1, <3>2, <3>3
    <2>2. CASE UNCHANGED vars
      <3> USE <2>2 DEF vars, ioVars, mainVars, hostVars
      <3>1. StartInv'
        BY DEF StartInv, Starting
      <3>2. ASSUME NEW h \in Host, Left(h) PROVE Left(h)'
        BY <3>2 DEF Left, IsRegistered, NoRequest, TableIs
      <3>3. LeftInv'
        BY <3>2 DEF LeftInv
      <3>4. RoutingNeverAborts'
        BY DEF RoutingNeverAborts, IsRegistered
      <3> QED BY <3>1, <3>3, <3>4
    <2> QED BY <2>1, <2>2
  <1> QED BY <1>1, <1>2, TablesAgree, PTL DEF Spec
=============================================================================
